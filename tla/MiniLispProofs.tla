--------------------------- MODULE MiniLispProofs ---------------------------
(***************************************************************************)
(* What holds of MiniLisp for every program, every bound and every cycle   *)
(* of collections: the discipline of the value stack and the frames, that  *)
(* builtins keep their results apart from what a collection moves, and     *)
(* that nobody holds a word that missed one.                               *)
(*                                                                         *)
(* First what the operators on memories do, then what the steps do to the  *)
(* pending Rust frames (LispInv), then what the builtins yield (Yields),   *)
(* then which words a memory holds (Good).                                 *)
(***************************************************************************)
EXTENDS MiniLisp, OrderProofs

Kind == {"pair", "vector", "string"}
Words == Kind \X Id \X Nat
Val == Words \cup {Imm, Lost}

Object == [kind : Kind, gen : Generation, moves : Nat, fields : Seq(Val), dirty : BOOLEAN]
Heaps == UNION {[S -> Object] : S \in SUBSET Id}
Scopes == Seq(Name \X Val)
Globals == UNION {[S -> Val] : S \in SUBSET Name}
Memories == [heap : Heaps, stack : Seq(Val), frames : Seq(Scopes), globals : Globals]

-----------------------------------------------------------------------------
(* Sequences and recursive functions.                                      *)

\* The first n steps e of an iteration, each from a value in X to one in X.
Steps(n, X) == [1 .. n -> [X -> X]]
Iterates(f, n, X, first, e) ==
  /\ f \in [0 .. n -> X]
  /\ f[0] = first
  /\ \A k \in 1 .. n : f[k] = e[k][f[k - 1]]

\* A recursive function over 0 .. n exists.
LEMMA Iteration ==
  ASSUME NEW n \in Nat, NEW X, NEW first \in X, NEW e \in Steps(n, X)
  PROVE  \E f : Iterates(f, n, X, first, e)
<1> USE DEF Steps
<1> DEFINE Starts(m) == {f \in [0 .. m -> X] : /\ f[0] = first
                                              /\ \A k \in 1 .. m : f[k] = e[k][f[k - 1]]}
           Good == {m \in Nat : m <= n => Starts(m) # {}}
<1>1. 0 \in Good
  <2>1. [k \in 0 .. 0 |-> first] \in Starts(0)
    OBVIOUS
  <2>2. QED
    BY <2>1
<1>2. ASSUME NEW m \in Nat, m \in Good PROVE m + 1 \in Good
  <2> SUFFICES ASSUME m + 1 <= n PROVE Starts(m + 1) # {}
    OBVIOUS
  <2>1. PICK f \in [0 .. m -> X] : f[0] = first /\ \A k \in 1 .. m : f[k] = e[k][f[k - 1]]
    BY <1>2
  <2> DEFINE g == [k \in 0 .. m + 1 |-> IF k = m + 1 THEN e[m + 1][f[m]] ELSE f[k]]
  <2>2. m + 1 \in 1 .. n /\ f[m] \in X /\ e[m + 1][f[m]] \in X
    OBVIOUS
  <2>3. g \in [0 .. m + 1 -> X] /\ g[m + 1] = e[m + 1][f[m]] /\ \A k \in 0 .. m : g[k] = f[k]
    BY <2>2
  <2> HIDE DEF g
  <2>4. ASSUME NEW k \in 1 .. m + 1 PROVE g[k] = e[k][g[k - 1]]
    <3>1. k - 1 \in 0 .. m /\ (k = m + 1 \/ k \in 1 .. m) /\ (k = m + 1 => k - 1 = m)
      OBVIOUS
    <3>2. CASE k = m + 1
      BY <2>3, <3>1, <3>2
    <3>3. CASE k \in 1 .. m
      BY <2>1, <2>3, <3>1, <3>3
    <3>4. QED
      BY <3>1, <3>2, <3>3
  <2>5. g \in Starts(m + 1)
    BY <2>1, <2>3, <2>4
  <2>6. QED
    BY <2>5
<1>3. n \in Good
  <2> HIDE DEF Good
  <2>1. QED
    BY <1>1, <1>2, SetInduction
<1>4. QED
  BY <1>3 DEF Iterates

\* Splitting, joining and shortening sequences.
LEMMA Joined ==
  ASSUME NEW S, NEW s \in Seq(S), NEW t \in Seq(S)
  PROVE  /\ s \o t \in Seq(S) /\ Len(s \o t) = Len(s) + Len(t)
         /\ \A i \in 1 .. Len(s) : (s \o t)[i] = s[i]
         /\ \A i \in 1 .. Len(t) : (s \o t)[Len(s) + i] = t[i]
OBVIOUS

\* What a prefix holds,
LEMMA Shortened ==
  ASSUME NEW S, NEW s \in Seq(S), NEW n \in 0 .. Len(s)
  PROVE  /\ SubSeq(s, 1, n) \in Seq(S) /\ Len(SubSeq(s, 1, n)) = n
         /\ \A i \in 1 .. n : SubSeq(s, 1, n)[i] = s[i]
OBVIOUS

\* what comes after it,
LEMMA Rest ==
  ASSUME NEW S, NEW s \in Seq(S), NEW n \in 0 .. Len(s)
  PROVE  /\ SubSeq(s, n + 1, Len(s)) \in Seq(S)
         /\ Len(SubSeq(s, n + 1, Len(s))) = Len(s) - n
         /\ \A i \in 1 .. Len(s) - n : SubSeq(s, n + 1, Len(s))[i] = s[n + i]
OBVIOUS

\* and a sequence without its last element.
LEMMA Fronts ==
  ASSUME NEW S, NEW s \in Seq(S), s # <<>>
  PROVE  /\ Front(s) = SubSeq(s, 1, Len(s) - 1)
         /\ Front(s) \in Seq(S) /\ Len(s) - 1 \in 0 .. Len(s) /\ Len(Front(s)) = Len(s) - 1
         /\ \A i \in 1 .. Len(s) - 1 : Front(s)[i] = s[i]
<1>1. Len(s) \in Nat /\ Len(s) # 0
  OBVIOUS
<1>2. Len(s) - 1 \in 0 .. Len(s)
  BY <1>1
<1>3. QED
  BY <1>2, Shortened DEF Front

-----------------------------------------------------------------------------
(* Words, memories and what leads where.                                   *)

\* Among values, IsWord tells the words.
LEMMA WordsAre ==
  /\ \A v \in Val : IsWord(v) <=> v \in Words
  /\ \A v \in Words : /\ v[1] \in Kind /\ v[2] \in Id /\ v[3] \in Nat
                      /\ v = <<v[1], v[2], v[3]>>
  /\ Imm \in Val \ Words /\ Lost \in Val \ Words /\ Imm # Lost
<1>1. \A v \in Words : /\ Len(v) = 3 /\ v[1] \in Kind /\ v[2] \in Id /\ v[3] \in Nat
                       /\ v = <<v[1], v[2], v[3]>>
  BY DEF Words
<1>2. Len(Imm) = 1 /\ Len(Lost) = 1 /\ Imm # Lost
  BY DEF Imm, Lost
<1>3. QED
  BY <1>1, <1>2 DEF Val, IsWord

\* What Reach gathers lies in S, and leads nowhere else in S.
LEMMA ReachIs ==
  ASSUME NEW h, DOMAIN h \subseteq Id, NEW V, NEW S
  PROVE  /\ Reach(V, S, h) \subseteq S \cap DOMAIN h
         /\ Named(V, h) \cap S \subseteq Reach(V, S, h)
         /\ Named(Fields(Reach(V, S, h), h), h) \cap S \subseteq Reach(V, S, h)
<1> DEFINE n == Cardinality(Id)
           first == Named(V, h) \cap S
           more(W) == Named(Fields(W, h), h) \cap S
           Within(f) == f = [k \in 0 .. n |-> IF k = 0 THEN first ELSE f[k - 1] \cup more(f[k - 1])]
           D == S \cap DOMAIN h
<1>1. n \in Nat
  BY BoundsAssumption, FS_CardinalityType
<1>2. first \subseteq D /\ \A W : more(W) \subseteq D
  BY DEF Named, Current
<1>3. Reach(V, S, h) = (CHOOSE f : Within(f))[n]
  BY DEF Reach
<1>4. D \subseteq Id
  OBVIOUS
<1> HIDE DEF first, more, n, D
<1>5. \E f : Within(f)
  <2> DEFINE e == [k \in 1 .. n |-> [W \in SUBSET D |-> W \cup more(W)]]
  <2>1. e \in [1 .. n -> [SUBSET D -> SUBSET D]]
    BY <1>2
  <2>2. \A k \in 1 .. n : \A W \in SUBSET D : e[k][W] = W \cup more(W)
    OBVIOUS
  <2> HIDE DEF e
  <2> DEFINE X == SUBSET D
  <2>3. n \in Nat /\ first \in X /\ e \in Steps(n, X)
    BY <1>1, <1>2, <2>1 DEF Steps
  <2> HIDE DEF X
  <2>4. PICK f : Iterates(f, n, X, first, e)
    BY <2>3, Iteration
  <2> USE DEF X
  <2>5. \A k \in 0 .. n : f[k] = IF k = 0 THEN first ELSE f[k - 1] \cup more(f[k - 1])
    <3> SUFFICES ASSUME NEW k \in 0 .. n, k # 0 PROVE f[k] = f[k - 1] \cup more(f[k - 1])
      BY <2>4 DEF Iterates
    <3>1. k \in 1 .. n /\ k - 1 \in 0 .. n
      BY <1>1
    <3>2. QED
      BY <2>2, <2>4, <3>1 DEF Iterates
  <2>6. Within(f)
    BY <2>4, <2>5 DEF Iterates
  <2>7. QED
    BY <2>6
<1>6. PICK f : Within(f) /\ Reach(V, S, h) = f[n]
  <2> HIDE DEF Within
  <2>1. QED
    BY <1>3, <1>5
<1>7. /\ f[0] = first
      /\ \A k \in Nat : k + 1 <= n => f[k + 1] = f[k] \cup more(f[k])
  <2>1. \A k \in 0 .. n : f[k] = IF k = 0 THEN first ELSE f[k - 1] \cup more(f[k - 1])
    BY <1>6
  <2>2. 0 \in 0 .. n /\ \A k \in Nat : k + 1 <= n => k + 1 \in 0 .. n /\ (k + 1) - 1 = k /\ k + 1 # 0
    BY <1>1
  <2>3. QED
    BY <2>1, <2>2
\* Each step adds an object, or nothing is left to add.
<1> DEFINE Closed(W) == more(W) \subseteq W
           Good == {k \in Nat : k <= n => /\ first \subseteq f[k] /\ f[k] \subseteq D
                                          /\ Closed(f[k]) \/ Cardinality(f[k]) >= k}
<1>8. IsFiniteSet(D) /\ \A W \in SUBSET D : IsFiniteSet(W) /\ Cardinality(W) \in Nat
  BY <1>4, BoundsAssumption, FS_Subset, FS_CardinalityType
<1>9. 0 \in Good
  BY <1>2, <1>7, <1>8
<1>10. ASSUME NEW k \in Nat, k \in Good PROVE k + 1 \in Good
  <2> SUFFICES ASSUME k + 1 <= n
               PROVE  /\ first \subseteq f[k + 1] /\ f[k + 1] \subseteq D
                      /\ Closed(f[k + 1]) \/ Cardinality(f[k + 1]) >= k + 1
    OBVIOUS
  <2>1. /\ first \subseteq f[k] /\ f[k] \subseteq D
        /\ Closed(f[k]) \/ Cardinality(f[k]) >= k
        /\ f[k + 1] = f[k] \cup more(f[k])
    BY <1>1, <1>7, <1>10
  <2>2. first \subseteq f[k + 1] /\ f[k + 1] \subseteq D
    BY <1>2, <2>1
  <2>3. CASE Closed(f[k])
    BY <2>1, <2>2, <2>3
  <2>4. CASE ~Closed(f[k])
    <3>1. f[k] \subseteq f[k + 1] /\ f[k] # f[k + 1]
      BY <2>1, <2>4
    <3>2. Cardinality(f[k]) < Cardinality(f[k + 1])
      BY <1>8, <2>1, <2>2, <3>1, FS_Subset
    <3>3. QED
      BY <1>8, <2>1, <2>2, <2>4, <3>2
  <2>5. QED
    BY <2>3, <2>4
<1>11. n \in Good
  <2> HIDE DEF Good
  <2>1. QED
    BY <1>1, <1>9, <1>10, SetInduction
<1>12. Closed(f[n])
  <2> SUFFICES ASSUME Cardinality(f[n]) >= n PROVE Closed(f[n])
    BY <1>1, <1>11
  <2>1. f[n] \subseteq Id /\ IsFiniteSet(Id)
    BY <1>1, <1>4, <1>11, BoundsAssumption
  <2>2. f[n] = Id
    BY <1>1, <1>8, <1>11, <2>1, FS_Subset DEF n
  <2>3. QED
    BY <1>2, <1>4, <2>2
<1>13. first \subseteq f[n] /\ f[n] \subseteq D /\ more(f[n]) \subseteq f[n]
  BY <1>1, <1>11, <1>12
<1>14. QED
  BY <1>6, <1>13 DEF first, more, D

-----------------------------------------------------------------------------
(* What the operations on a memory leave.                                  *)

\* The parts of a memory.
LEMMA MemoryIs ==
  ASSUME NEW m \in Memories
  PROVE  /\ m.heap \in Heaps /\ m.stack \in Seq(Val)
         /\ m.frames \in Seq(Scopes) /\ m.globals \in Globals
         /\ DOMAIN m.heap \subseteq Id /\ m.heap \in [DOMAIN m.heap -> Object]
         /\ DOMAIN m.globals \subseteq Name /\ m.globals \in [DOMAIN m.globals -> Val]
         /\ Len(m.stack) \in Nat /\ Len(m.frames) \in Nat
BY DEF Memories, Heaps, Globals

\* Any heap, stack, frames and globals make a memory.
LEMMA Remade ==
  ASSUME NEW m \in Memories, NEW h \in Heaps, NEW s \in Seq(Val), NEW f \in Seq(Scopes),
         NEW g \in Globals
  PROVE  /\ [m EXCEPT !.heap = h] \in Memories /\ [m EXCEPT !.stack = s] \in Memories
         /\ [m EXCEPT !.frames = f] \in Memories /\ [m EXCEPT !.globals = g] \in Memories
BY DEF Memories

\* Values pushed on the stack,
LEMMA PushedIs ==
  ASSUME NEW m \in Memories, NEW t \in Seq(Val)
  PROVE  LET n == Pushed(m, t) IN
         /\ n \in Memories
         /\ n.stack = m.stack \o t /\ Len(n.stack) = Len(m.stack) + Len(t)
         /\ n.heap = m.heap /\ n.frames = m.frames /\ n.globals = m.globals
<1>1. m.stack \o t \in Seq(Val) /\ Len(m.stack \o t) = Len(m.stack) + Len(t)
  BY MemoryIs, Joined
<1>2. QED
  BY <1>1 DEF Pushed, Memories

\* popped,
LEMMA PoppedIs ==
  ASSUME NEW m \in Memories, NEW k \in 0 .. Len(m.stack)
  PROVE  LET n == Popped(m, k) IN
         /\ n \in Memories
         /\ n.stack = SubSeq(m.stack, 1, Len(m.stack) - k) /\ Len(n.stack) = Len(m.stack) - k
         /\ n.heap = m.heap /\ n.frames = m.frames /\ n.globals = m.globals
<1>1. Len(m.stack) - k \in 0 .. Len(m.stack)
  BY MemoryIs
<1>2. /\ SubSeq(m.stack, 1, Len(m.stack) - k) \in Seq(Val)
      /\ Len(SubSeq(m.stack, 1, Len(m.stack) - k)) = Len(m.stack) - k
  BY <1>1, MemoryIs, Shortened
<1>3. QED
  BY <1>2 DEF Popped, Memories

\* or cut off at the height the present entry began at.
LEMMA BelowIs ==
  ASSUME NEW m \in Memories, Top.high \in 0 .. Len(m.stack)
  PROVE  LET n == Below(m) IN
         /\ n \in Memories
         /\ n.stack = SubSeq(m.stack, 1, Top.high) /\ Len(n.stack) = Top.high
         /\ n.heap = m.heap /\ n.frames = m.frames /\ n.globals = m.globals
<1> DEFINE t == Top.high
<1>1. /\ SubSeq(m.stack, 1, t) \in Seq(Val)
      /\ Len(SubSeq(m.stack, 1, t)) = t
  BY MemoryIs, Shortened
<1> HIDE DEF t
<1>2. QED
  BY <1>1 DEF Below, Memories, t

\* An object allocated at a new identity: one more object, its word on the stack.
LEMMA AllocatedIs ==
  ASSUME NEW m \in Memories, NEW i \in Unused(m), NEW kind \in Kind, NEW fields \in Seq(Val),
         NEW dirty \in BOOLEAN
  PROVE  LET n == Allocated(m, i, kind, fields, dirty)
             w == <<kind, i, Elsewhere>>
         IN
         /\ n \in Memories /\ w \in Words
         /\ n.stack = Append(m.stack, w) /\ Len(n.stack) = Len(m.stack) + 1
         /\ n.frames = m.frames /\ n.globals = m.globals
         /\ DOMAIN n.heap = DOMAIN m.heap \cup {i} /\ i \notin DOMAIN m.heap
         /\ \A k \in DOMAIN m.heap : n.heap[k] = m.heap[k]
         /\ n.heap[i] = [kind |-> kind, gen |-> "G0", moves |-> Elsewhere,
                         fields |-> fields, dirty |-> dirty]
<1> DEFINE o == [kind |-> kind, gen |-> "G0", moves |-> Elsewhere,
                 fields |-> fields, dirty |-> dirty]
           h == [k \in DOMAIN m.heap \cup {i} |-> IF k = i THEN o ELSE m.heap[k]]
           w == <<kind, i, Elsewhere>>
           n == Allocated(m, i, kind, fields, dirty)
<1>1. i \in Id /\ i \notin DOMAIN m.heap
  BY DEF Unused
<1>2. o \in Object
  BY DEF Object, Generation, Elsewhere
<1>3. h \in [DOMAIN m.heap \cup {i} -> Object] /\ DOMAIN m.heap \cup {i} \subseteq Id
  BY <1>1, <1>2, MemoryIs
<1>4. h \in Heaps
  BY <1>3 DEF Heaps
<1>5. w \in Words /\ w \in Val
  BY <1>1 DEF Words, Val, Elsewhere
<1>6. Append(m.stack, w) \in Seq(Val) /\ Len(Append(m.stack, w)) = Len(m.stack) + 1
  BY <1>5, MemoryIs
<1>7. DOMAIN h = DOMAIN m.heap \cup {i} /\ h[i] = o /\ \A k \in DOMAIN m.heap : h[k] = m.heap[k]
  BY <1>1
<1>8. n.heap = h /\ n.stack = Append(m.stack, w) /\ n.frames = m.frames /\ n.globals = m.globals
  BY DEF Allocated, Memories
<1>9. n \in Memories
  <2>1. n = [[m EXCEPT !.heap = h] EXCEPT !.stack = Append(m.stack, w)]
    BY DEF Allocated, Memories
  <2> HIDE DEF h, n
  <2>2. QED
    BY <1>4, <1>6, <2>1, Remade, MemoryIs
<1> HIDE DEF h, n
<1>10. QED
  BY <1>1, <1>5, <1>6, <1>7, <1>8, <1>9 DEF n

\* n is m with one more object, the word w of which is on the stack.
OneMore(m, n, w, fields, dirty) ==
  /\ n \in Memories /\ w \in Words /\ Current(w, n.heap)
  /\ n.stack = Append(m.stack, w) /\ Len(n.stack) = Len(m.stack) + 1
  /\ n.frames = m.frames /\ n.globals = m.globals
  /\ DOMAIN n.heap = DOMAIN m.heap \cup {w[2]} /\ w[2] \notin DOMAIN m.heap
  /\ \A k \in DOMAIN m.heap : n.heap[k] = m.heap[k]
  /\ \A v : Current(v, m.heap) => Current(v, n.heap)
  /\ n.heap[w[2]].fields = fields /\ n.heap[w[2]].dirty = dirty

\* An allocation grows the memory by its object,
LEMMA AllocatedGrows ==
  ASSUME NEW m \in Memories, NEW i \in Unused(m), NEW kind \in Kind, NEW fields \in Seq(Val),
         NEW dirty \in BOOLEAN
  PROVE  OneMore(m, Allocated(m, i, kind, fields, dirty), <<kind, i, Elsewhere>>, fields, dirty)
<1> DEFINE n == Allocated(m, i, kind, fields, dirty)
           w == <<kind, i, Elsewhere>>
<1>1. /\ n \in Memories /\ w \in Words
      /\ n.stack = Append(m.stack, w) /\ Len(n.stack) = Len(m.stack) + 1
      /\ n.frames = m.frames /\ n.globals = m.globals
      /\ DOMAIN n.heap = DOMAIN m.heap \cup {i} /\ i \notin DOMAIN m.heap
      /\ \A k \in DOMAIN m.heap : n.heap[k] = m.heap[k]
      /\ n.heap[i] = [kind |-> kind, gen |-> "G0", moves |-> Elsewhere,
                      fields |-> fields, dirty |-> dirty]
  BY AllocatedIs
<1> HIDE DEF n
<1>2. w[2] = i /\ w[1] = kind /\ w[3] = Elsewhere
  OBVIOUS
<1> HIDE DEF w
<1>3. Current(w, n.heap) /\ \A v : Current(v, m.heap) => Current(v, n.heap)
  BY <1>1, <1>2 DEF Current
<1>4. n.heap[i].fields = fields /\ n.heap[i].dirty = dirty
  BY <1>1
<1>5. OneMore(m, n, w, fields, dirty)
  BY <1>1, <1>2, <1>3, <1>4 DEF OneMore
<1>6. QED
  BY <1>5 DEF n, w

\* a pair,
LEMMA AllocPairIs ==
  ASSUME NEW m \in Memories, NEW i \in Unused(m), NEW car \in Val, NEW cdr \in Val
  PROVE  OneMore(m, AllocPair(m, i, car, cdr), <<"pair", i, Elsewhere>>, <<car, cdr>>, TRUE)
<1>1. <<car, cdr>> \in Seq(Val) /\ "pair" \in Kind /\ TRUE \in BOOLEAN
  BY DEF Kind
<1>2. QED
  BY <1>1, AllocatedGrows DEF AllocPair

\* a vector with one value in every field,
LEMMA AllocVectorIs ==
  ASSUME NEW m \in Memories, NEW i \in Unused(m), NEW n \in Nat, NEW init \in Val
  PROVE  OneMore(m, AllocVector(m, i, n, init), <<"vector", i, Elsewhere>>,
               [k \in 1 .. n |-> init], FALSE)
<1>1. [k \in 1 .. n |-> init] \in Seq(Val) /\ "vector" \in Kind /\ FALSE \in BOOLEAN
  BY DEF Kind
<1>2. QED
  BY <1>1, AllocatedGrows DEF AllocVector

\* or a string.
LEMMA AllocStringIs ==
  ASSUME NEW m \in Memories, NEW i \in Unused(m)
  PROVE  OneMore(m, AllocString(m, i), <<"string", i, Elsewhere>>, <<>>, FALSE)
<1>1. <<>> \in Seq(Val) /\ "string" \in Kind /\ FALSE \in BOOLEAN
  BY DEF Kind
<1>2. QED
  BY <1>1, AllocatedGrows DEF AllocString

\* New fields, or a new field, of an object.
LEMMA FilledIs ==
  ASSUME NEW m \in Memories, NEW i \in DOMAIN m.heap, NEW values \in Seq(Val)
  PROVE  LET n == Filled(m, i, values) IN
         /\ n \in Memories
         /\ n.stack = m.stack /\ n.frames = m.frames /\ n.globals = m.globals
         /\ DOMAIN n.heap = DOMAIN m.heap
         /\ \A k \in DOMAIN m.heap : n.heap[k].kind = m.heap[k].kind /\ n.heap[k].moves = m.heap[k].moves
         /\ \A k \in DOMAIN m.heap \ {i} : n.heap[k] = m.heap[k]
         /\ n.heap[i].fields = values /\ n.heap[i].dirty = (values # <<>>)
<1> DEFINE n == Filled(m, i, values)
           marked == values # <<>>
<1>1. m.heap[i] \in Object /\ DOMAIN m.heap \subseteq Id
  BY MemoryIs
<1>2. /\ n.heap = [m.heap EXCEPT ![i] = [m.heap[i] EXCEPT !.fields = values, !.dirty = marked]]
      /\ n.stack = m.stack /\ n.frames = m.frames /\ n.globals = m.globals
      /\ n = [m EXCEPT !.heap = n.heap]
  BY <1>1, MemoryIs DEF Filled, Memories, Object
<1> HIDE DEF n
<1>3. [m.heap[i] EXCEPT !.fields = values, !.dirty = marked] \in Object
  BY <1>1 DEF Object
<1>4. n.heap \in [DOMAIN m.heap -> Object]
  BY <1>2, <1>3, MemoryIs
<1>5. n.heap \in Heaps
  BY <1>1, <1>4 DEF Heaps
<1>6. n \in Memories
  <2>1. [m EXCEPT !.heap = n.heap] \in Memories
    BY <1>5, Remade, MemoryIs
  <2>2. QED
    BY <1>2, <2>1
<1>7. /\ \A k \in DOMAIN m.heap \ {i} : n.heap[k] = m.heap[k]
      /\ n.heap[i].fields = values /\ n.heap[i].dirty = marked
      /\ n.heap[i].kind = m.heap[i].kind /\ n.heap[i].moves = m.heap[i].moves
  BY <1>1, <1>2, MemoryIs DEF Object
<1>8. DOMAIN n.heap = DOMAIN m.heap
  BY <1>4
<1>9. QED
  BY <1>2, <1>6, <1>7, <1>8 DEF n

\* A field stored by vector_set, with its barrier.
LEMMA StoredIs ==
  ASSUME NEW m \in Memories, NEW i \in DOMAIN m.heap, NEW k \in DOMAIN m.heap[i].fields,
         NEW value \in Val
  PROVE  LET n == StoredField(m, i, k, value) IN
         /\ n \in Memories
         /\ n.stack = m.stack /\ n.frames = m.frames /\ n.globals = m.globals
         /\ DOMAIN n.heap = DOMAIN m.heap
         /\ \A j \in DOMAIN m.heap : n.heap[j].kind = m.heap[j].kind /\ n.heap[j].moves = m.heap[j].moves
         /\ \A j \in DOMAIN m.heap \ {i} : n.heap[j] = m.heap[j]
         /\ n.heap[i].fields = [m.heap[i].fields EXCEPT ![k] = value] /\ n.heap[i].dirty
<1> DEFINE n == StoredField(m, i, k, value)
           f == [m.heap[i].fields EXCEPT ![k] = value]
<1>1. m.heap[i] \in Object /\ DOMAIN m.heap \subseteq Id
  BY MemoryIs
<1>2. f \in Seq(Val)
  <2>1. m.heap[i].fields \in Seq(Val)
    BY <1>1 DEF Object
  <2>2. QED
    BY <2>1
<1>3. /\ n.heap = [m.heap EXCEPT ![i] = [m.heap[i] EXCEPT !.fields = f, !.dirty = TRUE]]
      /\ n.stack = m.stack /\ n.frames = m.frames /\ n.globals = m.globals
      /\ n = [m EXCEPT !.heap = n.heap]
  BY <1>1, MemoryIs DEF StoredField, Memories, Object
<1> HIDE DEF f, n
<1>4. [m.heap[i] EXCEPT !.fields = f, !.dirty = TRUE] \in Object
  BY <1>1, <1>2 DEF Object
<1>5. n.heap \in [DOMAIN m.heap -> Object]
  BY <1>3, <1>4, MemoryIs
<1>6. n.heap \in Heaps
  BY <1>1, <1>5 DEF Heaps
<1>7. n \in Memories
  <2>1. [m EXCEPT !.heap = n.heap] \in Memories
    BY <1>6, Remade, MemoryIs
  <2>2. QED
    BY <1>3, <2>1
<1>8. /\ \A j \in DOMAIN m.heap \ {i} : n.heap[j] = m.heap[j]
      /\ n.heap[i].fields = f /\ n.heap[i].dirty = TRUE
      /\ n.heap[i].kind = m.heap[i].kind /\ n.heap[i].moves = m.heap[i].moves
  BY <1>1, <1>3, MemoryIs DEF Object
<1>9. DOMAIN n.heap = DOMAIN m.heap
  BY <1>5
<1>10. QED
  BY <1>3, <1>7, <1>8, <1>9 DEF n, f

\* The roots are what the slots hold.
LEMMA RootsAre ==
  ASSUME NEW m \in Memories
  PROVE  /\ Roots(m) \subseteq Val
         /\ \A i \in DOMAIN m.stack : m.stack[i] \in Roots(m)
         /\ \A f \in DOMAIN m.frames : \A b \in DOMAIN m.frames[f] :
              m.frames[f][b][2] \in Roots(m)
         /\ \A x \in DOMAIN m.globals : m.globals[x] \in Roots(m)
         /\ \A v \in Roots(m) :
              \/ \E i \in DOMAIN m.stack : v = m.stack[i]
              \/ \E f \in DOMAIN m.frames : \E b \in DOMAIN m.frames[f] : v = m.frames[f][b][2]
              \/ \E x \in DOMAIN m.globals : v = m.globals[x]
<1>1. /\ m.stack \in Seq(Val) /\ m.frames \in Seq(Scopes)
      /\ m.globals \in [DOMAIN m.globals -> Val]
  BY MemoryIs
<1>2. \A f \in DOMAIN m.frames : /\ m.frames[f] \in Seq(Name \X Val)
                                 /\ \A b \in DOMAIN m.frames[f] : m.frames[f][b] \in Name \X Val
  BY <1>1 DEF Scopes
<1>3. \A f \in DOMAIN m.frames : \A b \in DOMAIN m.frames[f] : m.frames[f][b][2] \in Val
  BY <1>2
<1>4. \A v : v \in Roots(m) <=>
        \/ \E i \in DOMAIN m.stack : v = m.stack[i]
        \/ \E f \in DOMAIN m.frames : \E b \in DOMAIN m.frames[f] : v = m.frames[f][b][2]
        \/ \E x \in DOMAIN m.globals : v = m.globals[x]
  <2> DEFINE bindings == UNION {ToSet(f) : f \in ToSet(m.frames)}
  <2>1. \A b : b \in bindings <=>
          \E f \in DOMAIN m.frames : \E k \in DOMAIN m.frames[f] : b = m.frames[f][k]
    BY DEF ToSet
  <2>2. Roots(m) = ToSet(m.stack) \cup {b[2] : b \in bindings}
                     \cup {m.globals[x] : x \in DOMAIN m.globals}
    BY DEF Roots
  <2> HIDE DEF bindings
  <2>3. QED
    BY <2>1, <2>2 DEF ToSet
<1>5. Roots(m) \subseteq Val
  BY <1>1, <1>3, <1>4
<1>6. QED
  BY <1>4, <1>5

\* Two memories have the same slots.
SameSlots(m, n) ==
  /\ Len(n.stack) = Len(m.stack)
  /\ Len(n.frames) = Len(m.frames)
  /\ \A f \in DOMAIN m.frames :
       /\ Len(n.frames[f]) = Len(m.frames[f])
       /\ \A b \in DOMAIN m.frames[f] : n.frames[f][b][1] = m.frames[f][b][1]
  /\ DOMAIN n.globals = DOMAIN m.globals

\* The memory with new[v] for every root v.
LEMMA ScatteredIs ==
  ASSUME NEW m \in Memories, NEW new \in [Roots(m) -> Val]
  PROVE  LET n == Scattered(m, new) IN
         /\ n \in Memories /\ n.heap = m.heap
         /\ SameSlots(m, n)
         /\ \A i \in DOMAIN m.stack : n.stack[i] = new[m.stack[i]]
         /\ \A f \in DOMAIN m.frames : \A b \in DOMAIN m.frames[f] :
              n.frames[f][b][2] = new[m.frames[f][b][2]]
         /\ \A x \in DOMAIN m.globals : n.globals[x] = new[m.globals[x]]
<1> DEFINE n == Scattered(m, new)
           s == [i \in DOMAIN m.stack |-> new[m.stack[i]]]
           frame(f) == [b \in DOMAIN m.frames[f] |->
                          <<m.frames[f][b][1], new[m.frames[f][b][2]]>>]
           fs == [f \in DOMAIN m.frames |-> frame(f)]
           g == [x \in DOMAIN m.globals |-> new[m.globals[x]]]
<1>1. n = [[[m EXCEPT !.stack = s] EXCEPT !.frames = fs] EXCEPT !.globals = g]
      /\ n.heap = m.heap /\ n.stack = s /\ n.frames = fs /\ n.globals = g
  BY DEF Scattered, Memories
<1>2. s \in Seq(Val) /\ Len(s) = Len(m.stack)
      /\ \A i \in DOMAIN m.stack : s[i] = new[m.stack[i]]
  <2>1. \A i \in 1 .. Len(m.stack) : new[m.stack[i]] \in Val
    BY MemoryIs, RootsAre
  <2>2. DOMAIN m.stack = 1 .. Len(m.stack) /\ Len(m.stack) \in Nat
    BY MemoryIs
  <2>3. QED
    BY <2>1, <2>2
<1>3. ASSUME NEW f \in DOMAIN m.frames
      PROVE  /\ frame(f) \in Scopes /\ Len(frame(f)) = Len(m.frames[f])
             /\ \A b \in DOMAIN m.frames[f] : /\ frame(f)[b][1] = m.frames[f][b][1]
                                              /\ frame(f)[b][2] = new[m.frames[f][b][2]]
  <2>1. m.frames[f] \in Seq(Name \X Val)
    BY MemoryIs DEF Scopes
  <2>2. DOMAIN m.frames[f] = 1 .. Len(m.frames[f]) /\ Len(m.frames[f]) \in Nat
    BY <2>1
  <2>3. \A b \in 1 .. Len(m.frames[f]) : /\ new[m.frames[f][b][2]] \in Val
                                         /\ m.frames[f][b][1] \in Name
    BY <2>1, <2>2, RootsAre
  <2> DEFINE c == m.frames[f]
  <2>4. \A b \in 1 .. Len(c) : <<c[b][1], new[c[b][2]]>> \in Name \X Val
    BY <2>3
  <2>5. /\ DOMAIN c = 1 .. Len(c) /\ Len(c) \in Nat
        /\ frame(f) = [b \in DOMAIN c |-> <<c[b][1], new[c[b][2]]>>]
    BY <2>2
  <2> HIDE DEF frame
  <2>6. frame(f) \in Scopes /\ Len(frame(f)) = Len(c)
    <3> HIDE DEF c
    <3>1. QED
      BY <2>4, <2>5 DEF Scopes
  <2>7. \A b \in DOMAIN c : frame(f)[b][1] = c[b][1] /\ frame(f)[b][2] = new[c[b][2]]
    <3> HIDE DEF c
    <3>1. \A b \in DOMAIN c : frame(f)[b] = <<c[b][1], new[c[b][2]]>>
      BY <2>5
    <3>2. QED
      BY <3>1
  <2>8. QED
    BY <2>6, <2>7
<1>4. fs \in Seq(Scopes) /\ Len(fs) = Len(m.frames)
      /\ \A f \in DOMAIN m.frames : fs[f] = frame(f)
  <2> DEFINE k == Len(m.frames)
  <2>1. DOMAIN m.frames = 1 .. k /\ k \in Nat
    BY MemoryIs
  <2>2. fs = [f \in 1 .. k |-> frame(f)] /\ \A f \in 1 .. k : frame(f) \in Scopes
    BY <1>3, <2>1
  <2> HIDE DEF frame, k
  <2>3. QED
    BY <2>1, <2>2 DEF k
<1>5. g \in Globals /\ DOMAIN g = DOMAIN m.globals
      /\ \A x \in DOMAIN m.globals : g[x] = new[m.globals[x]]
  <2>1. g \in [DOMAIN m.globals -> Val]
    BY RootsAre
  <2>2. QED
    BY <2>1, MemoryIs DEF Globals
<1> HIDE DEF n, s, fs, frame, g
<1>6. n \in Memories
  <2>1. [m EXCEPT !.stack = s] \in Memories
    BY <1>2, Remade, MemoryIs
  <2>2. [[m EXCEPT !.stack = s] EXCEPT !.frames = fs] \in Memories
    BY <1>4, <2>1, Remade, MemoryIs
  <2>3. QED
    BY <1>1, <1>5, <2>2, Remade, MemoryIs
<1>7. SameSlots(m, n)
  BY <1>1, <1>2, <1>3, <1>4, <1>5 DEF SameSlots
<1>8. QED
  BY <1>1, <1>2, <1>3, <1>4, <1>5, <1>6, <1>7 DEF n

\* What a value is once it is settled.
NowIn(v, h) ==
  IF ~IsWord(v) THEN v
  ELSE IF Current(v, h) THEN <<v[1], v[2], 0>> ELSE Lost

\* A memory whose words in slots are current and settled.
RootsCurrent(m) == \A v \in Roots(m) \cap Words : Current(v, m.heap) /\ v[3] = 0

\* Objects with their cards dirty, or without words.
Noted(h) == \A i \in DOMAIN h : h[i].dirty \/ WordsIn(ToSet(h[i].fields)) = {}

\* What becomes of a value between two steps: current, Lost, or the immediate it was.
LEMMA NowIs ==
  ASSUME NEW h \in Heaps, NEW v \in Val
  PROVE  /\ NowIn(v, h) \in Val
         /\ NowIn(v, h) \in Words <=> v \in Words /\ Current(v, h)
         /\ v \in Words /\ Current(v, h) => NowIn(v, h) = <<v[1], v[2], 0>>
         /\ v \notin Words => NowIn(v, h) = v
         /\ NowIn(v, h) = Lost <=> v = Lost \/ (v \in Words /\ ~Current(v, h))
<1>1. v \in Words => <<v[1], v[2], 0>> \in Words
  BY WordsAre DEF Words
<1>2. QED
  BY <1>1, WordsAre DEF NowIn, Val

\* What lies between two steps: every word in a slot or a field is current.
LEMMA SettledIs ==
  ASSUME NEW m \in Memories
  PROVE  LET n == Settled(m) IN
         /\ n \in Memories /\ SameSlots(m, n) /\ RootsCurrent(n)
         /\ \A i \in DOMAIN m.stack : n.stack[i] = NowIn(m.stack[i], m.heap)
         /\ \A f \in DOMAIN m.frames : \A b \in DOMAIN m.frames[f] :
              n.frames[f][b][2] = NowIn(m.frames[f][b][2], m.heap)
         /\ \A x \in DOMAIN m.globals : n.globals[x] = NowIn(m.globals[x], m.heap)
         /\ DOMAIN n.heap \subseteq DOMAIN m.heap
         /\ \A i \in DOMAIN n.heap :
              /\ DOMAIN n.heap[i].fields = DOMAIN m.heap[i].fields
              /\ \A k \in DOMAIN m.heap[i].fields :
                   /\ n.heap[i].fields[k] = NowIn(m.heap[i].fields[k], m.heap)
                   /\ n.heap[i].fields[k] \in Words => Current(n.heap[i].fields[k], n.heap)
         /\ Noted(m.heap) => \A i \in DOMAIN n.heap : n.heap[i].dirty
<1> DEFINE h == m.heap
           live == Reach(Roots(m), DOMAIN h, h)
           new == [v \in Roots(m) |-> NowIn(v, h)]
           fields(i) == [k \in DOMAIN h[i].fields |-> NowIn(h[i].fields[k], h)]
           marked(i) == h[i].dirty \/ WordsIn(ToSet(h[i].fields)) = {}
           object(i) == [h[i] EXCEPT !.moves = 0, !.fields = fields(i), !.dirty = marked(i)]
           g == [i \in live |-> object(i)]
           n == Settled(m)
<1>1. h \in Heaps /\ DOMAIN h \subseteq Id /\ h \in [DOMAIN h -> Object]
  BY MemoryIs
<1>2. n = [Scattered(m, new) EXCEPT !.heap = g]
  BY <1>1, MemoryIs DEF Settled, NowIn, Object
<1>3. new \in [Roots(m) -> Val]
  BY <1>1, RootsAre, NowIs
<1>4. /\ live \subseteq DOMAIN h
      /\ Named(Roots(m), h) \cap DOMAIN h \subseteq live
      /\ Named(Fields(live, h), h) \cap DOMAIN h \subseteq live
  BY <1>1, ReachIs
<1> HIDE DEF live
<1>5. ASSUME NEW i \in live
      PROVE  /\ object(i) \in Object
             /\ object(i).kind = h[i].kind /\ object(i).moves = 0
             /\ object(i).dirty = marked(i)
             /\ object(i).fields = fields(i)
             /\ DOMAIN fields(i) = DOMAIN h[i].fields
             /\ \A k \in DOMAIN h[i].fields : fields(i)[k] = NowIn(h[i].fields[k], h)
  <2>1. h[i] \in Object /\ h[i].fields \in Seq(Val)
    BY <1>1, <1>4 DEF Object
  <2>2. fields(i) \in Seq(Val)
    <3>1. \A k \in 1 .. Len(h[i].fields) : NowIn(h[i].fields[k], h) \in Val
      BY <1>1, <2>1, NowIs
    <3>2. DOMAIN h[i].fields = 1 .. Len(h[i].fields) /\ Len(h[i].fields) \in Nat
      BY <2>1
    <3>3. QED
      BY <3>1, <3>2
  <2>3. marked(i) \in BOOLEAN
    BY <2>1 DEF Object
  <2>4. DOMAIN fields(i) = DOMAIN h[i].fields
        /\ \A k \in DOMAIN h[i].fields : fields(i)[k] = NowIn(h[i].fields[k], h)
    OBVIOUS
  <2> HIDE DEF fields, marked
  <2>5. QED
    BY <2>1, <2>2, <2>3, <2>4 DEF Object
<1> HIDE DEF object
<1>6. g \in Heaps /\ DOMAIN g = live /\ \A i \in live : g[i] = object(i)
  <2>1. g \in [live -> Object]
    BY <1>5
  <2>2. QED
    BY <1>1, <1>4, <2>1 DEF Heaps
<1> HIDE DEF g
<1>7. /\ Scattered(m, new) \in Memories
      /\ SameSlots(m, Scattered(m, new))
      /\ \A i \in DOMAIN m.stack : Scattered(m, new).stack[i] = NowIn(m.stack[i], h)
      /\ \A f \in DOMAIN m.frames : \A b \in DOMAIN m.frames[f] :
           Scattered(m, new).frames[f][b][2] = NowIn(m.frames[f][b][2], h)
      /\ \A x \in DOMAIN m.globals : Scattered(m, new).globals[x] = NowIn(m.globals[x], h)
  <2>1. \A v \in Roots(m) : new[v] = NowIn(v, h)
    OBVIOUS
  <2> HIDE DEF new, h
  <2>2. QED
    BY <1>3, <2>1, ScatteredIs, RootsAre
<1>8. /\ n.heap = g /\ n.stack = Scattered(m, new).stack
      /\ n.frames = Scattered(m, new).frames /\ n.globals = Scattered(m, new).globals
  BY <1>2, <1>7 DEF Memories
<1>9. n \in Memories
  <2> DEFINE c == Scattered(m, new)
  <2>1. c \in Memories /\ n = [c EXCEPT !.heap = g]
    BY <1>2, <1>7
  <2> HIDE DEF c, n
  <2>2. [c EXCEPT !.heap = g] \in Memories
    BY <1>6, <2>1, Remade, MemoryIs
  <2>3. QED
    BY <2>1, <2>2
<1> HIDE DEF n, new
\* A word that was current is current in the new heap once its object is live.
<1>10. ASSUME NEW v \in Val, NowIn(v, h) \in Words, v[2] \in live
       PROVE  Current(NowIn(v, h), g) /\ NowIn(v, h)[3] = 0
  <2>1. Current(v, h) /\ NowIn(v, h) = <<v[1], v[2], 0>>
    BY <1>1, <1>10, NowIs
  <2>2. g[v[2]].kind = h[v[2]].kind /\ g[v[2]].moves = 0 /\ v[2] \in DOMAIN g
    BY <1>5, <1>6, <1>10
  <2>3. QED
    BY <2>1, <2>2 DEF Current
<1>11. ASSUME NEW v \in Roots(m), NowIn(v, h) \in Words
       PROVE  Current(NowIn(v, h), g) /\ NowIn(v, h)[3] = 0
  <2>1. v \in Val /\ v \in Words /\ Current(v, h)
    BY <1>1, <1>11, RootsAre, NowIs
  <2>2. v[2] \in Named(Roots(m), h) \cap DOMAIN h
    BY <2>1, WordsAre DEF Named, WordsIn, Current
  <2>3. QED
    BY <1>4, <1>10, <1>11, <2>1, <2>2
<1>12. RootsCurrent(n)
  <2> SUFFICES ASSUME NEW w \in Roots(n) \cap Words PROVE Current(w, g) /\ w[3] = 0
    BY <1>8 DEF RootsCurrent
  <2>1. DOMAIN n.stack = DOMAIN m.stack /\ DOMAIN n.globals = DOMAIN m.globals
        /\ DOMAIN n.frames = DOMAIN m.frames
        /\ \A f \in DOMAIN m.frames : DOMAIN n.frames[f] = DOMAIN m.frames[f]
    <3>1. \A f \in DOMAIN m.frames : m.frames[f] \in Scopes
      BY MemoryIs
    <3>2. DOMAIN n.frames = DOMAIN m.frames
      BY <1>7, <1>8, <1>9, MemoryIs DEF SameSlots
    <3>3. \A f \in DOMAIN m.frames : n.frames[f] \in Scopes
      BY <1>9, <3>2, MemoryIs
    <3>4. \A f \in DOMAIN m.frames : DOMAIN n.frames[f] = DOMAIN m.frames[f]
      BY <1>7, <1>8, <3>1, <3>3 DEF SameSlots, Scopes
    <3>5. QED
      BY <1>7, <1>8, <1>9, <3>2, <3>4, MemoryIs DEF SameSlots
  <2>2. \E v \in Roots(m) : w = NowIn(v, h)
    <3>1. CASE \E i \in DOMAIN n.stack : w = n.stack[i]
      BY <1>7, <1>8, <2>1, <3>1, RootsAre
    <3>2. CASE \E f \in DOMAIN n.frames : \E b \in DOMAIN n.frames[f] : w = n.frames[f][b][2]
      BY <1>7, <1>8, <2>1, <3>2, RootsAre
    <3>3. CASE \E x \in DOMAIN n.globals : w = n.globals[x]
      BY <1>7, <1>8, <2>1, <3>3, RootsAre
    <3>4. QED
      BY <1>9, <3>1, <3>2, <3>3, RootsAre
  <2>3. QED
    BY <1>11, <2>2
<1>13. ASSUME NEW i \in live, NEW k \in DOMAIN h[i].fields
       PROVE  /\ g[i].fields[k] = NowIn(h[i].fields[k], h)
              /\ g[i].fields[k] \in Words => Current(g[i].fields[k], g)
  <2> DEFINE v == h[i].fields[k]
  <2>1. g[i].fields[k] = NowIn(v, h)
    <3>1. g[i].fields = fields(i)
      BY <1>5, <1>6
    <3>2. QED
      BY <3>1
  <2>2. v \in Val
    BY <1>1, <1>4 DEF Object
  <2>3. v \in Fields(live, h)
    BY DEF Fields, ToSet
  <2> HIDE DEF v
  <2>4. ASSUME NowIn(v, h) \in Words PROVE Current(NowIn(v, h), g)
    <3>1. v \in Words /\ Current(v, h)
      BY <1>1, <2>2, <2>4, NowIs
    <3>2. v[2] \in Named(Fields(live, h), h) \cap DOMAIN h
      BY <2>2, <2>3, <3>1, WordsAre DEF Named, WordsIn, Current
    <3>3. QED
      BY <1>4, <1>10, <2>2, <2>4, <3>2
  <2>5. QED
    BY <2>1, <2>4 DEF v
<1>14. ASSUME Noted(h), NEW i \in live PROVE g[i].dirty
  BY <1>4, <1>5, <1>6, <1>14 DEF Noted
<1>15. SameSlots(m, n)
  BY <1>7, <1>8 DEF SameSlots
<1>16. ASSUME NEW i \in live PROVE DOMAIN g[i].fields = DOMAIN h[i].fields
  BY <1>5, <1>6
<1>17. QED
  <2>1. /\ \A i \in DOMAIN m.stack : n.stack[i] = NowIn(m.stack[i], m.heap)
        /\ \A f \in DOMAIN m.frames : \A b \in DOMAIN m.frames[f] :
             n.frames[f][b][2] = NowIn(m.frames[f][b][2], m.heap)
        /\ \A x \in DOMAIN m.globals : n.globals[x] = NowIn(m.globals[x], m.heap)
    BY <1>7, <1>8
  <2>2. QED
    BY <1>4, <1>6, <1>8, <1>9, <1>12, <1>13, <1>14, <1>15, <1>16, <2>1 DEF n

\* The next memory is the settled one.
LEMMA BecomeIs ==
  ASSUME NEW m \in Memories, Become(m)
  PROVE  Memory' = Settled(m)
<1>1. Settled(m) \in Memories
  BY SettledIs
<1> DEFINE n == Settled(m)
<1>2. heap' = n.heap /\ stack' = n.stack /\ frames' = n.frames /\ globals' = n.globals
  BY DEF Become
<1> HIDE DEF n
<1>3. QED
  BY <1>1, <1>2 DEF Memory, Memories, n

-----------------------------------------------------------------------------
(* What a collection shows.                                                *)

\* w is what a slot holds after a collection that held v before it: the same
\* object, where it now is.
Alike(v, w, h, g) ==
  /\ v \notin Words => w = v
  /\ v \in Words /\ Current(v, h) =>
       w \in Words /\ Current(w, g) /\ w[1] = v[1] /\ w[2] = v[2]

Follows(m, n) ==
  /\ SameSlots(m, n)
  /\ \A i \in DOMAIN m.stack : Alike(m.stack[i], n.stack[i], m.heap, n.heap)
  /\ \A f \in DOMAIN m.frames : \A b \in DOMAIN m.frames[f] :
       Alike(m.frames[f][b][2], n.frames[f][b][2], m.heap, n.heap)
  /\ \A x \in DOMAIN m.globals : Alike(m.globals[x], n.globals[x], m.heap, n.heap)

\* Every field is an immediate or current, and no clean card hides a word.
Solid(h) ==
  /\ \A i \in DOMAIN h : \A k \in DOMAIN h[i].fields :
       LET v == h[i].fields[k] IN v = Imm \/ (v \in Words /\ Current(v, h))
  /\ Noted(h)

\* The slots of a memory and of one with the same slots.
LEMMA SlotsAre ==
  ASSUME NEW m \in Memories, NEW n \in Memories, SameSlots(m, n)
  PROVE  /\ DOMAIN n.stack = DOMAIN m.stack /\ DOMAIN n.frames = DOMAIN m.frames
         /\ DOMAIN n.globals = DOMAIN m.globals
         /\ \A f \in DOMAIN m.frames : DOMAIN n.frames[f] = DOMAIN m.frames[f]
<1>1. \A f \in DOMAIN m.frames : m.frames[f] \in Scopes
  BY MemoryIs
<1>2. DOMAIN n.frames = DOMAIN m.frames
  BY MemoryIs DEF SameSlots
<1>3. \A f \in DOMAIN m.frames : n.frames[f] \in Scopes
  BY <1>2, MemoryIs
<1>4. \A f \in DOMAIN m.frames : DOMAIN n.frames[f] = DOMAIN m.frames[f]
  BY <1>1, <1>3 DEF SameSlots, Scopes
<1>5. QED
  BY <1>2, <1>4, MemoryIs DEF SameSlots

\* Passes compose,
LEMMA FollowsTransitive ==
  ASSUME NEW m \in Memories, NEW n \in Memories, NEW o \in Memories,
         Follows(m, n), Follows(n, o)
  PROVE  Follows(m, o)
<1>1. /\ DOMAIN n.stack = DOMAIN m.stack /\ DOMAIN n.frames = DOMAIN m.frames
      /\ DOMAIN n.globals = DOMAIN m.globals
      /\ \A f \in DOMAIN m.frames : DOMAIN n.frames[f] = DOMAIN m.frames[f]
  BY SlotsAre DEF Follows
<1>2. \A v, w, u : Alike(v, w, m.heap, n.heap) /\ Alike(w, u, n.heap, o.heap)
                     => Alike(v, u, m.heap, o.heap)
  BY DEF Alike
<1>3. SameSlots(m, o)
  BY <1>1 DEF Follows, SameSlots
<1>4. QED
  BY <1>1, <1>2, <1>3 DEF Follows

\* and no pass at all changes nothing.
LEMMA FollowsItself ==
  ASSUME NEW m \in Memories
  PROVE  Follows(m, m)
BY DEF Follows, SameSlots, Alike

\* A pass moves whole objects with every word that leads to them, as long as the
\* words that were current stand in roots and in objects it scans.
LEMMA PassedIs ==
  ASSUME NEW m \in Memories, NEW pass \in Generation \X Generation
  PROVE  /\ Passed(m, pass) \in Memories
         /\ Follows(m, Passed(m, pass))
         /\ Solid(m.heap) => Solid(Passed(m, pass).heap)
<1> DEFINE h == m.heap
           from == {i \in DOMAIN h : h[i].gen = pass[1]}
           scanned == {i \in DOMAIN h \ from : h[i].dirty}
           V == Roots(m) \cup Fields(scanned, h)
           moved == Reach(V, from, h)
           To(v) == IF IsWord(v) /\ Current(v, h) /\ v[2] \in moved
                    THEN <<v[1], v[2], v[3] + 1>> ELSE v
           rewritten == scanned \cup moved \cup {i \in DOMAIN h : h[i].gen = pass[2]}
           fields(i) == IF i \in rewritten
                        THEN [k \in DOMAIN h[i].fields |-> To(h[i].fields[k])]
                        ELSE h[i].fields
           object(i) == IF i \in moved
                        THEN [h[i] EXCEPT !.gen = pass[2], !.moves = @ + 1,
                                          !.dirty = TRUE, !.fields = fields(i)]
                        ELSE [h[i] EXCEPT !.fields = fields(i)]
           left == (DOMAIN h \ from) \cup moved
           g == [i \in left |-> object(i)]
           new == [v \in Roots(m) |-> To(v)]
           n == Passed(m, pass)
<1>1. h \in Heaps /\ DOMAIN h \subseteq Id /\ h \in [DOMAIN h -> Object] /\ pass[2] \in Generation
  BY MemoryIs
<1>2. n = [Scattered(m, new) EXCEPT !.heap = g]
  BY DEF Passed
<1>3. /\ moved \subseteq from /\ from \subseteq DOMAIN h
      /\ Named(V, h) \cap from \subseteq moved
      /\ Named(Fields(moved, h), h) \cap from \subseteq moved
  BY <1>1, ReachIs
<1>4. scanned \subseteq DOMAIN h \ from /\ \A i \in DOMAIN h \ from : h[i].dirty => i \in scanned
  OBVIOUS
<1>5. scanned \subseteq rewritten /\ moved \subseteq rewritten
  OBVIOUS
<1>6. Roots(m) \subseteq V /\ Fields(scanned, h) \subseteq V
  OBVIOUS
<1>7. \A i \in DOMAIN h \ from : i \notin moved
  BY <1>3
<1> HIDE DEF moved, from, scanned, rewritten, V
<1>8. ASSUME NEW v \in Val
      PROVE  /\ To(v) \in Val
             /\ v \notin Words => To(v) = v
             /\ v \in Words => To(v) \in Words /\ To(v)[1] = v[1] /\ To(v)[2] = v[2]
             /\ v \in Words /\ Current(v, h) /\ v[2] \in moved => To(v)[3] = v[3] + 1
             /\ v[2] \notin moved => To(v) = v
  <2>1. CASE v \in Words
    <3>1. <<v[1], v[2], v[3] + 1>> \in Words
      BY <2>1, WordsAre DEF Words
    <3>2. QED
      BY <2>1, <3>1, WordsAre DEF Val
  <2>2. CASE v \notin Words
    BY <2>2, WordsAre
  <2>3. QED
    BY <2>1, <2>2
<1> HIDE DEF To
<1>9. ASSUME NEW i \in left
      PROVE  /\ object(i) \in Object
             /\ object(i).kind = h[i].kind
             /\ object(i).moves = IF i \in moved THEN h[i].moves + 1 ELSE h[i].moves
             /\ object(i).dirty = (i \in moved \/ h[i].dirty)
             /\ object(i).fields = fields(i)
             /\ DOMAIN fields(i) = DOMAIN h[i].fields
             /\ \A k \in DOMAIN h[i].fields :
                  fields(i)[k] = IF i \in rewritten THEN To(h[i].fields[k]) ELSE h[i].fields[k]
  <2>1. h[i] \in Object /\ h[i].fields \in Seq(Val)
    BY <1>1, <1>3 DEF Object
  <2>2. fields(i) \in Seq(Val)
    <3>1. \A k \in 1 .. Len(h[i].fields) : To(h[i].fields[k]) \in Val
      BY <2>1, <1>8
    <3>2. DOMAIN h[i].fields = 1 .. Len(h[i].fields) /\ Len(h[i].fields) \in Nat
      BY <2>1
    <3>3. [k \in DOMAIN h[i].fields |-> To(h[i].fields[k])] \in Seq(Val)
      BY <3>1, <3>2
    <3>4. QED
      BY <2>1, <3>3
  <2>3. /\ DOMAIN fields(i) = DOMAIN h[i].fields
        /\ \A k \in DOMAIN h[i].fields :
             fields(i)[k] = IF i \in rewritten THEN To(h[i].fields[k]) ELSE h[i].fields[k]
    OBVIOUS
  <2> HIDE DEF fields
  <2>4. CASE i \in moved
    <3>1. h[i].moves + 1 \in Nat
      BY <2>1 DEF Object
    <3>2. object(i) = [h[i] EXCEPT !.gen = pass[2], !.moves = h[i].moves + 1,
                                   !.dirty = TRUE, !.fields = fields(i)]
      BY <2>4
    <3>3. object(i) = [kind |-> h[i].kind, gen |-> pass[2], moves |-> h[i].moves + 1,
                       fields |-> fields(i), dirty |-> TRUE]
      BY <2>1, <3>2 DEF Object
    <3> HIDE DEF object
    <3>4. object(i) \in Object
      BY <1>1, <2>1, <2>2, <3>1, <3>3 DEF Object
    <3>5. object(i).dirty = TRUE /\ object(i).kind = h[i].kind
          /\ object(i).moves = h[i].moves + 1 /\ object(i).fields = fields(i)
      BY <3>3
    <3>6. object(i).dirty = (i \in moved \/ h[i].dirty)
      BY <2>4, <3>5
    <3>7. QED
      BY <2>3, <2>4, <3>4, <3>5, <3>6
  <2>5. CASE i \notin moved
    BY <1>1, <2>1, <2>2, <2>3, <2>5 DEF Object
  <2>6. QED
    BY <2>4, <2>5
<1> HIDE DEF object
<1>10. g \in Heaps /\ DOMAIN g = left /\ \A i \in left : g[i] = object(i)
  <2>1. g \in [left -> Object] /\ left \subseteq Id
    BY <1>1, <1>3, <1>9
  <2>2. QED
    BY <2>1 DEF Heaps
<1> HIDE DEF g, fields
<1>11. new \in [Roots(m) -> Val] /\ \A v \in Roots(m) : new[v] = To(v)
  BY <1>8, RootsAre
<1> HIDE DEF new
<1>12. /\ Scattered(m, new) \in Memories
       /\ SameSlots(m, Scattered(m, new))
       /\ \A i \in DOMAIN m.stack : Scattered(m, new).stack[i] = To(m.stack[i])
       /\ \A f \in DOMAIN m.frames : \A b \in DOMAIN m.frames[f] :
            Scattered(m, new).frames[f][b][2] = To(m.frames[f][b][2])
       /\ \A x \in DOMAIN m.globals : Scattered(m, new).globals[x] = To(m.globals[x])
  BY <1>11, ScatteredIs, RootsAre
<1>13. n \in Memories
  <2> DEFINE c == Scattered(m, new)
  <2>1. c \in Memories /\ n = [c EXCEPT !.heap = g]
    BY <1>2, <1>12
  <2> HIDE DEF c, n
  <2>2. [c EXCEPT !.heap = g] \in Memories
    BY <1>10, <2>1, Remade, MemoryIs
  <2>3. QED
    BY <2>1, <2>2
<1>14. /\ n.heap = g /\ n.stack = Scattered(m, new).stack
       /\ n.frames = Scattered(m, new).frames /\ n.globals = Scattered(m, new).globals
  BY <1>2, <1>12 DEF Memories
<1> HIDE DEF n
\* A current word stays so once its object is moved or was never to be.
<1>15. ASSUME NEW v \in Words, Current(v, h), v[2] \in from => v[2] \in moved
       PROVE  To(v) \in Words /\ Current(To(v), g) /\ To(v)[1] = v[1] /\ To(v)[2] = v[2]
  <2>1. v \in Val /\ v[2] \in DOMAIN h /\ h[v[2]].kind = v[1] /\ h[v[2]].moves = v[3]
    BY <1>15 DEF Val, Current
  <2>2. v[2] \in left
    BY <1>15, <2>1
  <2>3. g[v[2]].kind = v[1] /\ g[v[2]].moves = IF v[2] \in moved THEN v[3] + 1 ELSE v[3]
    BY <1>9, <1>10, <2>1, <2>2
  <2>4. To(v)[3] = IF v[2] \in moved THEN v[3] + 1 ELSE v[3]
    BY <1>8, <1>15, <2>1
  <2>5. To(v) \in Words /\ To(v)[1] = v[1] /\ To(v)[2] = v[2]
    BY <1>8, <2>1
  <2>6. QED
    BY <1>10, <2>2, <2>3, <2>4, <2>5 DEF Current
<1>16. ASSUME NEW v \in V \cup Fields(moved, h), v \in Words, Current(v, h)
       PROVE  v[2] \in from => v[2] \in moved
  BY <1>3, <1>16, WordsAre DEF Named, WordsIn, Val
<1>17. \A v \in Roots(m) : Alike(v, To(v), h, g)
  <2> SUFFICES ASSUME NEW v \in Roots(m) PROVE Alike(v, To(v), h, g)
    OBVIOUS
  <2>1. v \in Val /\ v \in V
    BY <1>6, RootsAre
  <2>2. v \notin Words => To(v) = v
    BY <1>8, <2>1
  <2>3. QED
    BY <1>15, <1>16, <2>1, <2>2 DEF Alike
<1>18. Follows(m, n)
  <2>1. SameSlots(m, n)
    BY <1>12, <1>14 DEF SameSlots
  <2> HIDE DEF left, h
  <2>2. /\ \A i \in DOMAIN m.stack : Alike(m.stack[i], n.stack[i], h, g)
        /\ \A f \in DOMAIN m.frames : \A b \in DOMAIN m.frames[f] :
             Alike(m.frames[f][b][2], n.frames[f][b][2], h, g)
        /\ \A x \in DOMAIN m.globals : Alike(m.globals[x], n.globals[x], h, g)
    BY <1>12, <1>14, <1>17, RootsAre
  <2>3. QED
    BY <1>14, <2>1, <2>2 DEF Follows, h
<1>19. ASSUME Solid(h) PROVE Solid(g)
  <2>1. ASSUME NEW i \in left, NEW k \in DOMAIN h[i].fields
        PROVE  LET w == g[i].fields[k] IN
               /\ w = Imm \/ (w \in Words /\ Current(w, g))
               /\ ~g[i].dirty => w \notin Words
    <3> DEFINE v == h[i].fields[k]
    <3>1. g[i].fields[k] = IF i \in rewritten THEN To(v) ELSE v
      BY <1>9, <1>10
    <3>2. i \in DOMAIN h /\ (v = Imm \/ (v \in Words /\ Current(v, h))) /\ v \in Val
      BY <1>3, <1>19, WordsAre DEF Solid, Val
    <3>3. \A S : i \in S => v \in Fields(S, h)
      BY DEF Fields, ToSet
    <3>4. v \in ToSet(h[i].fields)
      BY DEF ToSet
    <3> HIDE DEF v
    <3>5. g[i].dirty = (i \in moved \/ h[i].dirty)
      BY <1>9, <1>10
    <3>6. CASE i \in moved
      <4>1. v \in Fields(moved, h) /\ i \in rewritten
        BY <1>5, <3>3, <3>6
      <4>2. v \in Words => To(v) \in Words /\ Current(To(v), g)
        BY <1>15, <1>16, <3>2, <4>1, WordsAre
      <4>3. v = Imm => To(v) = Imm
        BY <1>8, <3>2, WordsAre
      <4>4. QED
        BY <3>1, <3>2, <3>5, <3>6, <4>1, <4>2, <4>3
    <3>7. CASE i \notin moved /\ h[i].dirty
      <4>1. i \in scanned
        BY <1>4, <3>2, <3>7
      <4>2. v \in V /\ i \in rewritten
        BY <1>5, <1>6, <3>3, <4>1
      <4>3. v \in Words => To(v) \in Words /\ Current(To(v), g)
        BY <1>15, <1>16, <3>2, <4>2, WordsAre
      <4>4. v = Imm => To(v) = Imm
        BY <1>8, <3>2, WordsAre
      <4>5. QED
        BY <3>1, <3>2, <3>5, <3>7, <4>2, <4>3, <4>4
    <3>8. CASE i \notin moved /\ ~h[i].dirty
      <4>1. WordsIn(ToSet(h[i].fields)) = {}
        BY <1>19, <3>2, <3>8 DEF Solid, Noted
      <4>2. v \notin Words
        BY <3>2, <3>4, <4>1, WordsAre DEF WordsIn
      <4>3. To(v) = v /\ v = Imm
        BY <1>8, <3>2, <4>2
      <4>4. QED
        BY <3>1, <4>2, <4>3
    <3>9. QED
      BY <3>6, <3>7, <3>8
  <2>2. ASSUME NEW i \in left
        PROVE  DOMAIN g[i].fields = DOMAIN h[i].fields /\ g[i].fields \in Seq(Val)
    BY <1>9, <1>10 DEF Object
  <2>3. ASSUME NEW i \in left PROVE g[i].dirty \/ WordsIn(ToSet(g[i].fields)) = {}
    <3> SUFFICES ASSUME ~g[i].dirty, NEW w \in WordsIn(ToSet(g[i].fields)) PROVE FALSE
      OBVIOUS
    <3>1. PICK k \in DOMAIN g[i].fields : w = g[i].fields[k]
      BY DEF WordsIn, ToSet
    <3>2. w \in Words
      BY <2>2, <3>1, WordsAre DEF WordsIn
    <3>3. QED
      BY <2>1, <2>2, <3>1, <3>2
  <2>4. Noted(g)
    BY <1>10, <2>3 DEF Noted
  <2> HIDE DEF left
  <2>5. QED
    BY <1>10, <2>1, <2>2, <2>4 DEF Solid
<1>20. QED
  BY <1>13, <1>14, <1>18, <1>19 DEF n

\* So does a cycle of passes.
LEMMA CollectedIs ==
  ASSUME NEW m \in Memories, NEW cycle \in Cycles
  PROVE  /\ Collected(m, cycle) \in Memories
         /\ Follows(m, Collected(m, cycle))
         /\ Solid(m.heap) => Solid(Collected(m, cycle).heap)
<1> DEFINE q == Len(cycle)
           Runs(f) == f = [k \in 0 .. q |-> IF k = 0 THEN m ELSE Passed(f[k - 1], cycle[k])]
<1>1. cycle \in Seq(Generation \X Generation) /\ q \in Nat
  BY BoundsAssumption
<1>2. \A k \in 1 .. q : cycle[k] \in Generation \X Generation
  BY <1>1
<1> HIDE DEF q
<1>3. \E f : Runs(f)
  <2> DEFINE e == [k \in 1 .. q |-> [x \in Memories |-> Passed(x, cycle[k])]]
  <2>1. e \in Steps(q, Memories)
    BY <1>2, PassedIs DEF Steps
  <2>2. \A k \in 1 .. q : \A x \in Memories : e[k][x] = Passed(x, cycle[k])
    OBVIOUS
  <2> HIDE DEF e
  <2>3. PICK f : Iterates(f, q, Memories, m, e)
    BY <1>1, <2>1, Iteration
  <2>4. \A k \in 0 .. q : f[k] = IF k = 0 THEN m ELSE Passed(f[k - 1], cycle[k])
    <3> SUFFICES ASSUME NEW k \in 0 .. q, k # 0 PROVE f[k] = Passed(f[k - 1], cycle[k])
      BY <2>3 DEF Iterates
    <3>1. k \in 1 .. q /\ k - 1 \in 0 .. q
      BY <1>1
    <3>2. QED
      BY <2>2, <2>3, <3>1 DEF Iterates
  <2>5. Runs(f)
    BY <2>3, <2>4 DEF Iterates
  <2>6. QED
    BY <2>5
<1>4. PICK f : /\ Runs(f)
               /\ Collected(m, cycle) =
                    IF cycle = <<>> THEN m
                    ELSE [f[q] EXCEPT !.heap = [i \in DOMAIN @ |-> [@[i] EXCEPT !.dirty = TRUE]]]
  <2>1. Collected(m, cycle) =
          LET f == CHOOSE f : Runs(f)
          IN  IF cycle = <<>> THEN m
              ELSE [f[q] EXCEPT !.heap = [i \in DOMAIN @ |-> [@[i] EXCEPT !.dirty = TRUE]]]
    BY DEF Collected, q
  <2> HIDE DEF Runs
  <2>2. QED
    BY <1>3, <2>1
<1>5. /\ f[0] = m
      /\ \A k \in Nat : k + 1 <= q => f[k + 1] = Passed(f[k], cycle[k + 1])
  <2>1. \A k \in 0 .. q : f[k] = IF k = 0 THEN m ELSE Passed(f[k - 1], cycle[k])
    BY <1>4
  <2>2. 0 \in 0 .. q /\ \A k \in Nat : k + 1 <= q => k + 1 \in 0 .. q /\ (k + 1) - 1 = k /\ k + 1 # 0
    BY <1>1
  <2>3. QED
    BY <2>1, <2>2
<1> DEFINE Good == {k \in Nat : k <= q => /\ f[k] \in Memories /\ Follows(m, f[k])
                                          /\ Solid(m.heap) => Solid(f[k].heap)}
<1>6. 0 \in Good
  BY <1>5, FollowsItself
<1>7. ASSUME NEW k \in Nat, k \in Good PROVE k + 1 \in Good
  <2> SUFFICES ASSUME k + 1 <= q
               PROVE  /\ f[k + 1] \in Memories /\ Follows(m, f[k + 1])
                      /\ Solid(m.heap) => Solid(f[k + 1].heap)
    OBVIOUS
  <2>1. /\ f[k] \in Memories /\ Follows(m, f[k])
        /\ Solid(m.heap) => Solid(f[k].heap)
        /\ f[k + 1] = Passed(f[k], cycle[k + 1]) /\ cycle[k + 1] \in Generation \X Generation
    BY <1>1, <1>2, <1>5, <1>7
  <2>2. /\ f[k + 1] \in Memories /\ Follows(f[k], f[k + 1])
        /\ Solid(f[k].heap) => Solid(f[k + 1].heap)
    BY <2>1, PassedIs
  <2>3. QED
    BY <2>1, <2>2, FollowsTransitive
<1>8. q \in Good
  <2> HIDE DEF Good
  <2>1. QED
    BY <1>1, <1>6, <1>7, SetInduction
<1> DEFINE o == f[q]
           g == [i \in DOMAIN o.heap |-> [o.heap[i] EXCEPT !.dirty = TRUE]]
           n == [o EXCEPT !.heap = g]
<1>9. o \in Memories /\ Follows(m, o) /\ (Solid(m.heap) => Solid(o.heap))
  BY <1>1, <1>8
<1>10. Collected(m, cycle) = IF cycle = <<>> THEN m ELSE n
  BY <1>4
<1> HIDE DEF o
<1>11. /\ \A i \in DOMAIN o.heap :
            /\ g[i] \in Object /\ g[i].dirty /\ g[i].kind = o.heap[i].kind
            /\ g[i].moves = o.heap[i].moves /\ g[i].fields = o.heap[i].fields
       /\ DOMAIN g = DOMAIN o.heap /\ DOMAIN g \subseteq Id
  <2>1. \A i \in DOMAIN o.heap : o.heap[i] \in Object
    BY <1>9, MemoryIs
  <2>2. QED
    BY <1>9, <2>1, MemoryIs DEF Object
<1>12. g \in Heaps
  <2>1. g \in [DOMAIN g -> Object]
    BY <1>11
  <2> HIDE DEF g
  <2>2. QED
    BY <1>11, <2>1 DEF Heaps
<1>13. n \in Memories /\ n.heap = g /\ n.stack = o.stack /\ n.frames = o.frames
       /\ n.globals = o.globals
  <2> HIDE DEF g
  <2>1. n \in Memories
    BY <1>9, <1>12, Remade, MemoryIs
  <2>2. QED
    BY <1>9, <2>1 DEF Memories
<1> HIDE DEF g, n
<1>14. \A w : Current(w, o.heap) <=> Current(w, g)
  BY <1>11 DEF Current
<1>15. Follows(m, n)
  BY <1>9, <1>13, <1>14 DEF Follows, SameSlots, Alike
<1>16. Solid(o.heap) => Solid(g)
  BY <1>11, <1>14 DEF Solid, Noted
<1>17. QED
  BY <1>9, <1>10, <1>13, <1>15, <1>16, FollowsItself

\* A safepoint, whatever it does.
LEMMA MaybeGcIs ==
  ASSUME NEW m \in Memories, NEW n \in MaybeGc(m)
  PROVE  n \in Memories /\ Follows(m, n) /\ (Solid(m.heap) => Solid(n.heap))
BY CollectedIs DEF MaybeGc

-----------------------------------------------------------------------------
(* The pending Rust frames.                                                *)

Keyword == {"if", "define", "set", "body", "args", "let", "scope", "call"}
Entry == [k : Keyword, total : Nat, left : Nat, high : Nat, names : Seq(Name)]

\* The operands an entry keeps on the stack, and the height of the stack above
\* which the i-th entry's present expression is evaluated.
Operands(e) == IF e.k \in {"let", "args"} THEN e.total - e.left - 1 ELSE 0
Height(K, i) == IF i = 0 THEN 0 ELSE K[i].high + Operands(K[i])
Over(K) == Height(K, Len(K))

Fits(e) == e.k \in {"let", "args"} => e.left < e.total
Sized(e) == /\ e.k = "let" => Len(e.names) = e.total
            /\ e.k \in {"define", "set"} => Len(e.names) = 1

Scoped(K) == {i \in DOMAIN K : K[i].k \in {"scope", "call"}}
Opens(e) == IF e.k \in {"scope", "call"} THEN 1 ELSE 0

\* Every entry begins where the one before has got to; the last may be a call
\* that is being applied.
Stacked(K) ==
  /\ K \in Seq(Entry)
  /\ \A i \in DOMAIN K : K[i].high = Height(K, i - 1) /\ Sized(K[i])
  /\ \A i \in 1 .. Len(K) - 1 : Fits(K[i])

Settles(K) == Stacked(K) /\ \A i \in DOMAIN K : Fits(K[i])

\* The height above the operands is a number,
LEMMA OverIs ==
  ASSUME NEW K, Settles(K)
  PROVE  /\ Over(K) \in Nat /\ Len(K) \in Nat
         /\ K # <<>> => /\ K[Len(K)] \in Entry /\ Len(K) \in DOMAIN K
                        /\ Operands(K[Len(K)]) \in Nat
                        /\ Over(K) = K[Len(K)].high + Operands(K[Len(K)])
<1>1. K \in Seq(Entry) /\ Len(K) \in Nat /\ DOMAIN K = 1 .. Len(K)
  BY DEF Settles, Stacked
<1>2. CASE K = <<>>
  BY <1>1, <1>2 DEF Over, Height
<1>3. CASE K # <<>>
  <2> DEFINE e == K[Len(K)]
  <2>1. Len(K) \in DOMAIN K /\ Len(K) # 0
    BY <1>1, <1>3
  <2>2. e \in Entry /\ Fits(e)
    BY <1>1, <2>1 DEF Settles
  <2>3. Operands(e) \in Nat /\ e.high \in Nat
    BY <2>2 DEF Fits, Operands, Entry
  <2>4. Over(K) = e.high + Operands(e)
    BY <2>1 DEF Over, Height
  <2>5. QED
    BY <1>1, <1>3, <2>1, <2>2, <2>3, <2>4
<1>4. QED
  BY <1>2, <1>3

\* the entries with frames are finitely many.
LEMMA ScopedIs ==
  ASSUME NEW K \in Seq(Entry)
  PROVE  IsFiniteSet(Scoped(K)) /\ Cardinality(Scoped(K)) \in Nat
<1>1. Scoped(K) \subseteq 1 .. Len(K) /\ Len(K) \in Nat
  BY DEF Scoped
<1>2. IsFiniteSet(1 .. Len(K))
  BY <1>1, FS_Interval
<1>3. QED
  BY <1>1, <1>2, FS_Subset, FS_CardinalityType

\* One more entry.
LEMMA EntryAdded ==
  ASSUME NEW K, Settles(K), NEW e \in Entry, Sized(e), e.high = Over(K)
  PROVE  /\ Stacked(Append(K, e)) /\ Append(K, e) # <<>>
         /\ Append(K, e)[Len(Append(K, e))] = e
         /\ Fits(e) => Settles(Append(K, e))
         /\ Over(Append(K, e)) = e.high + Operands(e)
         /\ Cardinality(Scoped(Append(K, e))) = Cardinality(Scoped(K)) + Opens(e)
<1> DEFINE J == Append(K, e)
           n == Len(K)
<1>1. K \in Seq(Entry) /\ n \in Nat /\ DOMAIN K = 1 .. n
  BY DEF Settles, Stacked
<1>2. /\ J \in Seq(Entry) /\ Len(J) = n + 1 /\ DOMAIN J = 1 .. n + 1 /\ J # <<>>
      /\ J[n + 1] = e /\ \A i \in 1 .. n : J[i] = K[i]
  BY <1>1
<1>3. Height(K, n) = e.high
  BY DEF Over
<1> HIDE DEF J, n
<1>4. \A i \in 0 .. n : Height(J, i) = Height(K, i)
  BY <1>1, <1>2 DEF Height
<1>5. ASSUME NEW i \in DOMAIN J
      PROVE  J[i].high = Height(J, i - 1) /\ Sized(J[i])
  <2>1. CASE i = n + 1
    <3>1. i - 1 = n /\ n \in 0 .. n
      BY <1>1, <2>1
    <3>2. QED
      BY <1>2, <1>3, <1>4, <2>1, <3>1
  <2>2. CASE i # n + 1
    <3>1. i \in 1 .. n /\ i - 1 \in 0 .. n /\ i \in DOMAIN K
      BY <1>1, <1>2, <2>2
    <3>2. QED
      BY <1>2, <1>4, <3>1 DEF Settles, Stacked
  <2>3. QED
    BY <2>1, <2>2
<1>6. \A i \in 1 .. n : Fits(J[i])
  BY <1>1, <1>2 DEF Settles
<1>7. Stacked(J)
  <2>1. Len(J) - 1 = n
    BY <1>1, <1>2
  <2>2. QED
    BY <1>2, <1>5, <1>6, <2>1 DEF Stacked
<1>8. Fits(e) => Settles(J)
  <2>1. \A i \in DOMAIN J : i = n + 1 \/ i \in 1 .. n
    BY <1>1, <1>2
  <2>2. QED
    BY <1>2, <1>6, <1>7, <2>1 DEF Settles
<1>9. Over(J) = e.high + Operands(e)
  <2>1. Len(J) # 0
    BY <1>1, <1>2
  <2>2. QED
    BY <1>2, <2>1 DEF Over, Height
<1>10. Cardinality(Scoped(J)) = Cardinality(Scoped(K)) + Opens(e)
  <2>1. \A i : i \in Scoped(J) <=> i \in Scoped(K) \/ (i = n + 1 /\ e.k \in {"scope", "call"})
    BY <1>1, <1>2 DEF Scoped
  <2>2. n + 1 \notin Scoped(K) /\ IsFiniteSet(Scoped(K)) /\ Cardinality(Scoped(K)) \in Nat
    BY <1>1, ScopedIs DEF Scoped
  <2>3. CASE e.k \in {"scope", "call"}
    <3>1. Scoped(J) = Scoped(K) \cup {n + 1}
      BY <2>1, <2>3
    <3>2. QED
      BY <2>2, <2>3, <3>1, FS_AddElement DEF Opens
  <2>4. CASE e.k \notin {"scope", "call"}
    <3>1. Scoped(J) = Scoped(K)
      BY <2>1, <2>4
    <3>2. QED
      BY <2>2, <2>4, <3>1 DEF Opens
  <2>5. QED
    BY <2>3, <2>4
<1>11. QED
  BY <1>2, <1>7, <1>8, <1>9, <1>10 DEF J

\* One entry less.
LEMMA EntryDone ==
  ASSUME NEW K, Stacked(K), K # <<>>
  PROVE  /\ Front(K) = SubSeq(K, 1, Len(K) - 1)
         /\ K[Len(K)] \in Entry /\ Sized(K[Len(K)]) /\ Len(K) \in DOMAIN K
         /\ Settles(Front(K))
         /\ Over(Front(K)) = K[Len(K)].high
         /\ Cardinality(Scoped(K)) = Cardinality(Scoped(Front(K))) + Opens(K[Len(K)])
<1> DEFINE J == Front(K)
           n == Len(K) - 1
           e == K[Len(K)]
<1>1. K \in Seq(Entry) /\ Len(K) = n + 1 /\ n \in Nat /\ DOMAIN K = 1 .. n + 1
  BY DEF Stacked
<1>2. /\ J = SubSeq(K, 1, n) /\ J \in Seq(Entry) /\ Len(J) = n /\ DOMAIN J = 1 .. n
      /\ \A i \in 1 .. n : J[i] = K[i]
  <2>1. /\ J = SubSeq(K, 1, n) /\ J \in Seq(Entry) /\ Len(J) = n
        /\ \A i \in 1 .. n : J[i] = K[i]
    BY <1>1, Fronts
  <2> HIDE DEF J, n
  <2>2. QED
    BY <2>1
<1> HIDE DEF J, n
<1>3. e = K[n + 1] /\ e \in Entry /\ Sized(e) /\ e.high = Height(K, n) /\ Len(K) \in DOMAIN K
  <2>1. n + 1 \in DOMAIN K /\ (n + 1) - 1 = n
    BY <1>1
  <2>2. QED
    BY <1>1, <2>1 DEF Stacked
<1>4. \A i \in 0 .. n : Height(J, i) = Height(K, i)
  BY <1>1, <1>2 DEF Height
<1>5. ASSUME NEW i \in DOMAIN J
      PROVE  J[i].high = Height(J, i - 1) /\ Sized(J[i]) /\ Fits(J[i])
  <2>1. i \in 1 .. n /\ i - 1 \in 0 .. n /\ i \in DOMAIN K /\ i \in 1 .. Len(K) - 1
    BY <1>1, <1>2
  <2>2. QED
    BY <1>2, <1>4, <2>1 DEF Stacked
<1>6. Settles(J)
  <2>1. \A i \in 1 .. Len(J) - 1 : i \in DOMAIN J
    BY <1>1, <1>2
  <2>2. QED
    BY <1>2, <1>5, <2>1 DEF Settles, Stacked
<1>7. Over(J) = e.high
  <2>1. n \in 0 .. n
    BY <1>1
  <2>2. QED
    BY <1>2, <1>3, <1>4, <2>1 DEF Over
<1>8. Cardinality(Scoped(K)) = Cardinality(Scoped(J)) + Opens(e)
  <2>1. \A i : i \in Scoped(K) <=> i \in Scoped(J) \/ (i = n + 1 /\ e.k \in {"scope", "call"})
    BY <1>1, <1>2, <1>3 DEF Scoped
  <2>2. n + 1 \notin Scoped(J) /\ IsFiniteSet(Scoped(J)) /\ Cardinality(Scoped(J)) \in Nat
    <3>1. IsFiniteSet(Scoped(J)) /\ Cardinality(Scoped(J)) \in Nat
      BY <1>2, ScopedIs
    <3>2. n + 1 \notin DOMAIN J
      BY <1>1, <1>2
    <3>3. QED
      BY <3>1, <3>2 DEF Scoped
  <2>3. CASE e.k \in {"scope", "call"}
    <3>1. Scoped(K) = Scoped(J) \cup {n + 1}
      BY <2>1, <2>3
    <3>2. QED
      BY <2>2, <2>3, <3>1, FS_AddElement DEF Opens
  <2>4. CASE e.k \notin {"scope", "call"}
    <3>1. Scoped(K) = Scoped(J)
      BY <2>1, <2>4
    <3>2. QED
      BY <2>2, <2>4, <3>1 DEF Opens
  <2>5. QED
    BY <2>3, <2>4
<1>9. QED
  BY <1>1, <1>2, <1>3, <1>6, <1>7, <1>8 DEF J, n

\* The last entry goes on to another operand or form.
LEMMA EntryAhead ==
  ASSUME NEW K, Stacked(K), K # <<>>, NEW left \in Nat,
         K[Len(K)].k # "body" \/ left # 0
  PROVE  Remaining(K, left) = Append(Front(K), [K[Len(K)] EXCEPT !.left = left])
<1> DEFINE n == Len(K) - 1
           e == [K[Len(K)] EXCEPT !.left = left]
<1>1. K \in Seq(Entry) /\ Len(K) = n + 1 /\ n \in Nat /\ DOMAIN K = 1 .. n + 1
  BY DEF Stacked
<1>2. Remaining(K, left) = [K EXCEPT ![n + 1] = e]
  BY <1>1 DEF Remaining
<1>3. /\ Front(K) \in Seq(Entry) /\ Len(Front(K)) = n
      /\ \A i \in 1 .. n : Front(K)[i] = K[i]
  BY <1>1, Fronts
<1>4. e \in Entry
  <2>1. K[Len(K)] \in Entry
    BY <1>1
  <2>2. QED
    BY <2>1 DEF Entry
<1> HIDE DEF n, e
<1>5. /\ Append(Front(K), e) \in Seq(Entry) /\ Len(Append(Front(K), e)) = n + 1
      /\ Append(Front(K), e)[n + 1] = e
      /\ \A i \in 1 .. n : Append(Front(K), e)[i] = K[i]
  BY <1>1, <1>3, <1>4
<1>6. /\ [K EXCEPT ![n + 1] = e] \in Seq(Entry)
      /\ Len([K EXCEPT ![n + 1] = e]) = n + 1
      /\ [K EXCEPT ![n + 1] = e][n + 1] = e
      /\ \A i \in 1 .. n : [K EXCEPT ![n + 1] = e][i] = K[i]
  BY <1>1, <1>4
<1> DEFINE s == Append(Front(K), e)
           t == [K EXCEPT ![n + 1] = e]
<1> HIDE DEF s, t
<1>7. s = t
  <2>1. s \in Seq(Entry) /\ t \in Seq(Entry) /\ Len(s) = n + 1 /\ Len(t) = n + 1
    BY <1>5, <1>6 DEF s, t
  <2>2. \A i \in 1 .. n + 1 : s[i] = t[i]
    BY <1>1, <1>5, <1>6 DEF s, t
  <2>3. QED
    BY <2>1, <2>2
<1>8. QED
  BY <1>2, <1>7 DEF s, t, e

-----------------------------------------------------------------------------
(* The invariant.                                                          *)

MemoryInv == Memory \in Memories /\ RootsCurrent(Memory)

KontInv ==
  /\ mode \in {"idle", "eval", "return", "apply", "list"}
  /\ Stacked(kont)
  /\ mode \in {"apply", "list"} => kont # <<>> /\ Top.k = "args"
  /\ mode \notin {"apply", "list"} => Settles(kont)
  /\ mode = "idle" => kont = <<>>

HeightInv ==
  /\ mode = "eval" => Len(stack) = Over(kont)
  /\ mode = "return" => Len(stack) = Over(kont) + 1
  /\ mode = "apply" => Len(stack) = Top.high
  /\ mode = "list" => Len(stack) = Top.high + Top.left + 1
  /\ mode # "idle" => Len(frames) = Cardinality(Scoped(kont))

LispInv == MemoryInv /\ KontInv /\ HeightInv

\* The value stack, the frames, the globals and the heap.
LEMMA PartsAre ==
  ASSUME MemoryInv
  PROVE  /\ Memory \in Memories
         /\ Memory.stack = stack /\ Memory.frames = frames
         /\ Memory.globals = globals /\ Memory.heap = heap
         /\ stack \in Seq(Val) /\ frames \in Seq(Scopes) /\ Len(stack) \in Nat /\ Len(frames) \in Nat
<1>1. /\ Memory.stack = stack /\ Memory.frames = frames
      /\ Memory.globals = globals /\ Memory.heap = heap
  BY DEF Memory
<1>2. QED
  BY <1>1, MemoryIs DEF MemoryInv

\* What Become keeps.
LEMMA NextMemory ==
  ASSUME NEW m \in Memories, Become(m)
  PROVE  MemoryInv' /\ Len(stack') = Len(m.stack) /\ Len(frames') = Len(m.frames)
<1>1. Memory' = Settled(m)
  BY BecomeIs
<1>2. /\ Settled(m) \in Memories /\ RootsCurrent(Settled(m)) /\ SameSlots(m, Settled(m))
  BY SettledIs
<1>3. MemoryInv'
  BY <1>1, <1>2 DEF MemoryInv
<1>4. stack' = Settled(m).stack /\ frames' = Settled(m).frames
  BY DEF Become
<1>5. QED
  BY <1>2, <1>3, <1>4 DEF SameSlots

\* What a step keeps that leaves the memory alone.
LEMMA SameMemory ==
  ASSUME MemoryInv, UNCHANGED <<stack, frames, globals, heap>>
  PROVE  MemoryInv'
BY DEF MemoryInv, Memory

\* The value of an expression returns to entries that wait for it.
LEMMA Returned ==
  ASSUME NEW m \in Memories, NEW K, Return(m), kont' = K, Settles(K),
         Len(m.stack) = Over(K) + 1, Len(m.frames) = Cardinality(Scoped(K))
  PROVE  LispInv'
<1>1. MemoryInv' /\ Len(stack') = Len(m.stack) /\ Len(frames') = Len(m.frames) /\ mode' = "return"
  BY NextMemory DEF Return
<1>2. KontInv'
  BY <1>1 DEF KontInv, Settles
<1>3. HeightInv'
  BY <1>1 DEF HeightInv
<1>4. QED
  BY <1>1, <1>2, <1>3 DEF LispInv

\* The next expression is evaluated above what its entry keeps.
LEMMA Entered ==
  ASSUME NEW K, MemoryInv', mode' = "eval", kont' = K, Settles(K),
         Len(stack') = Over(K), Len(frames') = Cardinality(Scoped(K))
  PROVE  LispInv'
<1>1. KontInv'
  BY DEF KontInv, Settles
<1>2. HeightInv'
  BY DEF HeightInv
<1>3. QED
  BY <1>1, <1>2 DEF LispInv

\* The innermost entry and those before it.
LEMMA CallersAre ==
  ASSUME LispInv, kont # <<>>, mode # "idle"
  PROVE  /\ Callers = Front(kont)
         /\ Settles(Callers)
         /\ Over(Callers) = Top.high /\ Top.high \in Nat
         /\ Top \in Entry /\ Sized(Top) /\ Len(kont) \in DOMAIN kont
         /\ Len(frames) = Cardinality(Scoped(Callers)) + Opens(Top)
         /\ mode \notin {"apply", "list"} => Fits(Top)
<1>1. Stacked(kont) /\ Len(frames) = Cardinality(Scoped(kont))
  BY DEF LispInv, KontInv, HeightInv
<1>2. /\ Front(kont) = Callers
      /\ Top \in Entry /\ Sized(Top) /\ Len(kont) \in DOMAIN kont
      /\ Settles(Front(kont)) /\ Over(Front(kont)) = Top.high
      /\ Cardinality(Scoped(kont)) = Cardinality(Scoped(Front(kont))) + Opens(Top)
  BY <1>1, EntryDone DEF Top, Callers
<1>3. Top.high \in Nat
  BY <1>2 DEF Entry
<1>4. mode \notin {"apply", "list"} => Fits(Top)
  BY <1>2 DEF LispInv, KontInv, Settles, Top
<1>5. QED
  BY <1>1, <1>2, <1>3, <1>4

\* When the value of an expression returns, somebody waits for it.
LEMMA ReturningIs ==
  ASSUME LispInv, NEW k, Returning(k)
  PROVE  /\ mode = "return" /\ kont # <<>> /\ Top.k = k
         /\ Operands(Top) \in Nat
         /\ Len(stack) = Top.high + Operands(Top) + 1
         /\ Top.high + Operands(Top) = Over(kont)
         /\ Value \in Val
<1>1. mode = "return" /\ kont # <<>> /\ Top.k = k
  BY DEF Returning
<1>2. Settles(kont) /\ Len(stack) = Over(kont) + 1
  BY <1>1 DEF LispInv, KontInv, HeightInv
<1>3. Operands(Top) \in Nat /\ Over(kont) = Top.high + Operands(Top) /\ Over(kont) \in Nat
  BY <1>1, <1>2, OverIs DEF Top
<1>4. Value \in Val
  <2>1. stack \in Seq(Val) /\ Len(stack) \in 1 .. Len(stack)
    BY <1>2, <1>3, PartsAre DEF LispInv
  <2>2. QED
    BY <2>1 DEF Value
<1>5. QED
  BY <1>1, <1>2, <1>3, <1>4

\* A call that has its arguments finds them above the height it began at.
LEMMA CallingIs ==
  ASSUME LispInv, Calling
  PROVE  /\ kont # <<>> /\ mode # "idle" /\ Top.k = "args" /\ Opens(Top) = 0
         /\ Top.high \in 0 .. Len(stack)
         /\ Args \in Seq(Val) /\ Len(Args) = Len(stack) - Top.high /\ Len(Args) \in Nat
         /\ \A i \in 1 .. Len(Args) : Args[i] = stack[Top.high + i]
         /\ Len(frames) = Cardinality(Scoped(Callers))
<1>1. kont # <<>> /\ mode # "idle" /\ Top.k = "args"
  BY DEF Calling, Returning, LispInv, KontInv
<1>2. Opens(Top) = 0 /\ Top.high \in Nat /\ Len(frames) = Cardinality(Scoped(Callers)) + Opens(Top)
  BY <1>1, CallersAre DEF Opens
<1>3. Top.high \in 0 .. Len(stack)
  <2>1. CASE mode = "apply"
    BY <1>2, <2>1 DEF LispInv, HeightInv
  <2>2. CASE mode # "apply"
    <3>1. Returning("args")
      BY <2>2 DEF Calling
    <3>2. QED
      BY <1>2, <3>1, ReturningIs
  <2>3. QED
    BY <2>1, <2>2
<1>4. stack \in Seq(Val) /\ Len(stack) \in Nat
  BY PartsAre DEF LispInv
<1>5. /\ Args \in Seq(Val) /\ Len(Args) = Len(stack) - Top.high
      /\ \A i \in 1 .. Len(Args) : Args[i] = stack[Top.high + i]
  <2> DEFINE t == Top.high
  <2>1. t \in 0 .. Len(stack)
    BY <1>3
  <2> HIDE DEF t
  <2>2. /\ SubSeq(stack, t + 1, Len(stack)) \in Seq(Val)
        /\ Len(SubSeq(stack, t + 1, Len(stack))) = Len(stack) - t
        /\ \A i \in 1 .. Len(stack) - t : SubSeq(stack, t + 1, Len(stack))[i] = stack[t + i]
    BY <1>4, <2>1, Rest
  <2>3. QED
    BY <2>2 DEF Args, Above, t
<1>6. QED
  <2>1. Cardinality(Scoped(Callers)) \in Nat
    BY <1>1, CallersAre, ScopedIs DEF Settles, Stacked
  <2>2. QED
    BY <1>1, <1>2, <1>3, <1>4, <1>5, <2>1

-----------------------------------------------------------------------------
(* Steps that evaluate.                                                    *)

\* A bound variable has a slot, and its value is a root.
LEMMA Extremes ==
  ASSUME NEW n \in Nat, NEW S \in SUBSET (1 .. n), S # {}
  PROVE  /\ \E x \in S : \A y \in S : y <= x
         /\ \E x \in S : \A y \in S : x <= y
<1>1. IsFiniteSet(1 .. n)
  BY FS_Interval
<1>2. S \in SUBSET Int /\ IsFiniteSet(S)
  <2> DEFINE T == 1 .. n
  <2>1. T \subseteq Int /\ IsFiniteSet(T) /\ S \in SUBSET T
    BY <1>1
  <2> HIDE DEF T
  <2>2. QED
    BY <2>1, FS_Subset
<1>3. Greatest(S) \in S /\ \A y \in S : Greatest(S) >= y
  BY <1>2, GreatestIs
<1>4. Least(S) \in S /\ \A y \in S : Least(S) <= y
  BY <1>2, LeastIs
<1>5. \A y \in S : y \in Int /\ Greatest(S) \in Int
  BY <1>2, <1>3
<1>6. QED
  BY <1>3, <1>4, <1>5

\* The slot of a bound variable exists,
LEMMA SlotIs ==
  ASSUME MemoryInv, NEW x \in Name, Binders(x) # {}
  PROVE  /\ Slot(x)[1] \in DOMAIN frames
         /\ Slot(x)[2] \in DOMAIN frames[Slot(x)[1]]
<1> DEFINE f == CHOOSE f \in Binders(x) : \A g \in Binders(x) : g <= f
           bs == {b \in DOMAIN frames[f] : frames[f][b][1] = x}
           b == CHOOSE b \in bs : \A a \in bs : b <= a
<1>1. frames \in Seq(Scopes) /\ DOMAIN frames = 1 .. Len(frames) /\ Len(frames) \in Nat
  BY PartsAre
<1>2. f \in Binders(x)
  <2> DEFINE S == Binders(x)
  <2>1. S \in SUBSET (1 .. Len(frames)) /\ S # {}
    BY <1>1 DEF Binders
  <2> HIDE DEF S
  <2>2. \E g \in S : \A h \in S : h <= g
    BY <1>1, <2>1, Extremes
  <2>3. QED
    BY <2>2 DEF S
<1> HIDE DEF f
<1>3. f \in DOMAIN frames /\ bs # {}
  BY <1>2 DEF Binders, ToSet
<1>4. frames[f] \in Seq(Name \X Val) /\ Len(frames[f]) \in Nat
  BY <1>1, <1>3 DEF Scopes
<1>5. b \in bs
  <2>1. bs \in SUBSET (1 .. Len(frames[f]))
    BY <1>4
  <2> HIDE DEF bs
  <2>2. \E y \in bs : \A a \in bs : y <= a
    BY <1>3, <1>4, <2>1, Extremes
  <2>3. QED
    BY <2>2
<1>6. Slot(x) = <<f, b>>
  BY DEF Slot, f
<1> HIDE DEF b
<1>7. QED
  BY <1>3, <1>5, <1>6

\* and its value, or that of the global, is a root.
LEMMA ValueOfIs ==
  ASSUME MemoryInv, NEW x \in Name, Bound(x)
  PROVE  ValueOf(x) \in Roots(Memory) /\ ValueOf(x) \in Val
<1>1. CASE Binders(x) # {}
  <2>1. ValueOf(x) = frames[Slot(x)[1]][Slot(x)[2]][2]
    BY <1>1 DEF ValueOf
  <2>2. QED
    BY <1>1, <2>1, SlotIs, PartsAre, RootsAre
<1>2. CASE Binders(x) = {}
  <2>1. ValueOf(x) = globals[x] /\ x \in DOMAIN globals
    BY <1>2 DEF ValueOf, Bound
  <2>2. QED
    BY <2>1, PartsAre, RootsAre
<1>3. QED
  BY <1>1, <1>2

\* Where an expression is about to be evaluated.
LEMMA EvalIs ==
  ASSUME LispInv, mode = "eval"
  PROVE  /\ MemoryInv /\ Settles(kont) /\ Len(stack) = Over(kont)
         /\ Len(frames) = Cardinality(Scoped(kont))
         /\ Over(kont) \in Nat /\ Len(kont) \in Nat /\ Cardinality(Scoped(kont)) \in Nat
<1>1. Settles(kont)
  BY DEF LispInv, KontInv
<1>2. QED
  BY <1>1, OverIs, ScopedIs DEF LispInv, HeightInv, Settles, Stacked

\* The word of an object allocated in an expression.
LEMMA Literals ==
  /\ <<>> \in Seq(Val) /\ Len(<<>>) = 0
  /\ \A v \in Val : <<v>> \in Seq(Val) /\ Len(<<v>>) = 1 /\ <<v>>[1] = v
  /\ \A v, w \in Val : <<v, w>> \in Seq(Val) /\ <<v, w>>[1] = v /\ <<v, w>>[2] = w
  /\ Imm \in Val
BY WordsAre

\* Nothing is rooted and nothing is pending at the beginning.
LEMMA InitHolds ==
  ASSUME Init
  PROVE  LispInv
<1>1. heap \in [{} -> Object] /\ globals \in [{} -> Val] /\ {} \in SUBSET Id /\ {} \in SUBSET Name
  BY DEF Init
<1>2. heap \in Heaps /\ globals \in Globals
  BY <1>1 DEF Heaps, Globals
<1>3. Memory \in Memories
  BY <1>2 DEF Init, Memory, Memories, Scopes
<1>4. Roots(Memory) = {}
  <2>1. /\ DOMAIN Memory.stack = {} /\ DOMAIN Memory.frames = {} /\ DOMAIN Memory.globals = {}
    BY DEF Init, Memory
  <2>2. QED
    BY <1>3, <2>1, RootsAre
<1>5. MemoryInv
  BY <1>3, <1>4 DEF MemoryInv, RootsCurrent
<1>6. Settles(kont)
  BY DEF Init, Settles, Stacked
<1>7. QED
  BY <1>5, <1>6 DEF Init, LispInv, KontInv, HeightInv, Settles

\* The next form keeps the invariant.
LEMMA StartFormKeeps ==
  ASSUME LispInv, StartForm
  PROVE  LispInv'
<1>1. kont = <<>> /\ Settles(kont) /\ stack = <<>> /\ frames = <<>>
  BY DEF LispInv, KontInv, StartForm
<1>2. Over(kont) = 0 /\ Cardinality(Scoped(kont)) = 0
  BY <1>1, FS_EmptySet DEF Over, Height, Scoped
<1>3. MemoryInv' /\ mode' = "eval" /\ kont' = kont /\ Len(stack') = 0 /\ Len(frames') = 0
  BY <1>1, SameMemory DEF LispInv, StartForm
<1>4. QED
  BY <1>1, <1>2, <1>3, Entered

\* Immediates, strings and the values of variables.
LEMMA AtomsKeep ==
  ASSUME LispInv, EvalAtom \/ EvalString \/ \E x \in Name : EvalSymbol(x)
  PROVE  LispInv'
<1>1. mode = "eval" /\ kont' = kont
  BY DEF EvalAtom, EvalString, EvalSymbol
<1>2. /\ MemoryInv /\ Settles(kont) /\ Len(stack) = Over(kont)
      /\ Len(frames) = Cardinality(Scoped(kont))
  BY <1>1, EvalIs
<1>3. \E m \in Memories : Return(m) /\ Len(m.stack) = Len(stack) + 1 /\ Len(m.frames) = Len(frames)
  <2>1. ASSUME NEW v \in Val, Return(Pushed(Memory, <<v>>))
        PROVE  \E m \in Memories :
                 Return(m) /\ Len(m.stack) = Len(stack) + 1 /\ Len(m.frames) = Len(frames)
    <3> DEFINE n == Pushed(Memory, <<v>>)
    <3>1. Memory \in Memories /\ <<v>> \in Seq(Val) /\ Len(<<v>>) = 1
      BY <1>2, PartsAre, Literals
    <3>2. n \in Memories /\ Len(n.stack) = Len(Memory.stack) + 1 /\ n.frames = Memory.frames
      BY <3>1, PushedIs
    <3>3. Len(n.stack) = Len(stack) + 1 /\ n.frames = frames
      BY <1>2, <3>2, PartsAre
    <3> HIDE DEF n
    <3>4. QED
      BY <2>1, <3>2, <3>3 DEF n
  <2>2. CASE EvalAtom
    BY <2>1, <2>2, Literals DEF EvalAtom
  <2>3. CASE EvalString
    <3>1. PICK m \in MaybeGc(Memory) : \E i \in Unused(m) : Return(AllocString(m, i))
      BY <2>3 DEF EvalString
    <3>i. PICK i \in Unused(m) : Return(AllocString(m, i))
      BY <3>1
    <3>2. m \in Memories /\ Follows(Memory, m)
      BY <1>2, <3>1, MaybeGcIs, PartsAre
    <3> DEFINE n == AllocString(m, i)
    <3> HIDE DEF n
    <3>3. n \in Memories /\ Len(n.stack) = Len(m.stack) + 1 /\ n.frames = m.frames
      BY <3>i, <3>2, AllocStringIs DEF n, OneMore
    <3>4. Len(m.stack) = Len(stack) /\ Len(m.frames) = Len(frames)
      BY <1>2, <3>2, PartsAre DEF Follows, SameSlots
    <3>5. QED
      BY <3>i, <3>3, <3>4 DEF n
  <2>4. ASSUME NEW x \in Name, EvalSymbol(x)
        PROVE  \E m \in Memories :
                 Return(m) /\ Len(m.stack) = Len(stack) + 1 /\ Len(m.frames) = Len(frames)
    <3>1. ValueOf(x) \in Val /\ Return(Pushed(Memory, <<ValueOf(x)>>))
      BY <1>2, <2>4, ValueOfIs DEF EvalSymbol
    <3>2. QED
      BY <2>1, <3>1
  <2>5. QED
    BY <2>2, <2>3, <2>4
<1>4. QED
  BY <1>1, <1>2, <1>3, Returned

\* Forms and calls: one more entry, which begins at the top of the stack.
LEMMA PendingIs ==
  ASSUME MemoryInv, NEW k \in Keyword, NEW total \in Nat \ {0}, NEW names \in Seq(Name),
         k = "let" => Len(names) = total,
         k \in {"define", "set"} => Len(names) = 1
  PROVE  LET e == Pending(k, total, names) IN
         /\ e \in Entry /\ Fits(e) /\ Sized(e)
         /\ Operands(e) = 0 /\ e.high = Len(stack) /\ e.k = k
<1>1. Len(stack) \in Nat
  BY PartsAre
<1>2. QED
  BY <1>1 DEF Pending, Entry, Fits, Sized, Operands

\* A list of variables.
LEMMA NamesAre ==
  ASSUME NEW n \in Nat, NEW f \in Names(n)
  PROVE  f \in Seq(Name) /\ Len(f) = n
BY DEF Names

\* Forms that evaluate expressions keep the invariant,
LEMMA EvalFormKeeps ==
  ASSUME LispInv, EvalForm
  PROVE  LispInv'
<1>1. mode = "eval" /\ UNCHANGED <<stack, frames, globals, heap>>
  BY DEF EvalForm
<1>2. /\ MemoryInv /\ Settles(kont) /\ Len(stack) = Over(kont)
      /\ Len(frames) = Cardinality(Scoped(kont))
  BY <1>1, EvalIs
<1>3. ASSUME NEW k \in Keyword \ {"scope", "call"}, NEW total \in Nat \ {0}, NEW names \in Seq(Name),
             k = "let" => Len(names) = total,
             k \in {"define", "set"} => Len(names) = 1,
             Enter(Append(kont, Pending(k, total, names)))
      PROVE  LispInv'
  <2> DEFINE e == Pending(k, total, names)
  <2>1. /\ e \in Entry /\ Fits(e) /\ Sized(e)
        /\ Operands(e) = 0 /\ e.high = Len(stack) /\ e.k = k
    BY <1>2, <1>3, PendingIs
  <2>2. kont' = Append(kont, e) /\ mode' = "eval"
    BY <1>3 DEF Enter
  <2> HIDE DEF e
  <2>3. /\ Settles(Append(kont, e)) /\ Over(Append(kont, e)) = Len(stack)
        /\ Cardinality(Scoped(Append(kont, e))) = Cardinality(Scoped(kont))
    <3>1. Opens(e) = 0
      BY <2>1 DEF Opens
    <3>2. Cardinality(Scoped(kont)) \in Nat /\ Len(stack) \in Nat
      BY <1>1, <1>2, EvalIs
    <3>3. QED
      BY <1>2, <2>1, <3>1, <3>2, EntryAdded
  <2>4. MemoryInv'
    BY <1>1, <1>2, SameMemory
  <2>5. QED
    BY <1>1, <1>2, <2>2, <2>3, <2>4, Entered
<1> DEFINE Forms == Keyword \ {"scope", "call"}
<1>4. /\ "if" \in Forms /\ "define" \in Forms /\ "set" \in Forms /\ "body" \in Forms
      /\ "args" \in Forms /\ "let" \in Forms
  BY DEF Keyword
<1>5. /\ <<>> \in Seq(Name) /\ \A x \in Name : <<x>> \in Seq(Name) /\ Len(<<x>>) = 1
      /\ 1 \in Nat \ {0}
  OBVIOUS
<1>6. /\ \A n \in 1 .. MaxArgs : n \in Nat \ {0} /\ n \in Nat
      /\ \A n \in 2 .. MaxArgs : n \in Nat \ {0}
  BY BoundsAssumption
<1>7. CASE Enter(Append(kont, Pending("if", 1, <<>>)))
  BY <1>3, <1>4, <1>5, <1>7
<1>8. ASSUME NEW x \in Name, NEW k \in {"define", "set"}, Enter(Append(kont, Pending(k, 1, <<x>>)))
      PROVE  LispInv'
  BY <1>3, <1>4, <1>5, <1>8
<1>9. ASSUME NEW n \in 2 .. MaxArgs, Enter(Append(kont, Pending("body", n, <<>>)))
      PROVE  LispInv'
  BY <1>3, <1>4, <1>5, <1>6, <1>9
<1>10. ASSUME NEW n \in 1 .. MaxArgs, Enter(Append(kont, Pending("args", n, <<>>)))
       PROVE  LispInv'
  BY <1>3, <1>4, <1>5, <1>6, <1>10
<1>11. ASSUME NEW n \in 1 .. MaxArgs, NEW names \in Names(n),
              Enter(Append(kont, Pending("let", n, names)))
       PROVE  LispInv'
  <2>1. n \in Nat \ {0} /\ names \in Seq(Name) /\ Len(names) = n
    BY <1>6, NamesAre
  <2>2. QED
    BY <1>3, <1>4, <1>11, <2>1
<1>12. QED
  BY <1>7, <1>8, <1>9, <1>10, <1>11 DEF EvalForm

\* and so do calls without arguments.
LEMMA EvalThunkKeeps ==
  ASSUME LispInv, EvalThunk
  PROVE  LispInv'
<1>1. mode = "eval" /\ UNCHANGED <<stack, frames, globals, heap>>
  BY DEF EvalThunk
<1>2. /\ MemoryInv /\ Settles(kont) /\ Len(stack) = Over(kont)
      /\ Len(frames) = Cardinality(Scoped(kont)) /\ Len(stack) \in Nat
      /\ Cardinality(Scoped(kont)) \in Nat
  BY <1>1, EvalIs
<1> DEFINE e == [Pending("args", 1, <<>>) EXCEPT !.total = 0, !.left = 0]
<1>3. e \in Entry /\ Sized(e) /\ e.high = Len(stack) /\ e.k = "args" /\ Opens(e) = 0
  <2> DEFINE d == Pending("args", 1, <<>>)
  <2>1. d \in Entry /\ d.high = Len(stack) /\ d.k = "args"
    <3>1. "args" \in Keyword /\ 1 \in Nat \ {0} /\ <<>> \in Seq(Name)
      BY DEF Keyword
    <3>2. QED
      BY <1>2, <3>1, PendingIs
  <2> HIDE DEF d
  <2>2. e = [d EXCEPT !.total = 0, !.left = 0]
    BY DEF d
  <2> HIDE DEF e
  <2>3. e \in Entry /\ e.k = "args" /\ e.high = Len(stack)
    BY <2>1, <2>2 DEF Entry
  <2>4. QED
    BY <2>3 DEF Sized, Opens
<1>4. kont' = Append(kont, e) /\ mode' = "apply"
  BY DEF EvalThunk
<1> HIDE DEF e
<1>5. /\ Stacked(Append(kont, e)) /\ Append(kont, e) # <<>>
      /\ Append(kont, e)[Len(Append(kont, e))] = e
      /\ Cardinality(Scoped(Append(kont, e))) = Cardinality(Scoped(kont))
  BY <1>2, <1>3, EntryAdded
<1>6. Top' = e
  BY <1>4, <1>5 DEF Top
<1>7. MemoryInv'
  BY <1>1, <1>2, SameMemory
<1>8. KontInv'
  BY <1>3, <1>4, <1>5, <1>6 DEF KontInv
<1>9. HeightInv'
  BY <1>1, <1>2, <1>3, <1>4, <1>5, <1>6 DEF HeightInv
<1>10. QED
  BY <1>7, <1>8, <1>9 DEF LispInv

-----------------------------------------------------------------------------
(* Steps that go on with a value.                                          *)

\* The entry with fewer expressions left to evaluate.
LEMMA Ahead ==
  ASSUME LispInv, NEW k, Returning(k), k # "if", Top.left > 0
  PROVE  LET J == Remaining(kont, Top.left - 1) IN
         /\ Settles(J)
         /\ Over(J) = Over(kont) + (IF k \in {"let", "args"} THEN 1 ELSE 0)
         /\ Len(frames) = Cardinality(Scoped(J))
<1> DEFINE l == Top.left - 1
           J == Remaining(kont, l)
<1>1. /\ mode = "return" /\ kont # <<>> /\ Top.k = k /\ Top.high + Operands(Top) = Over(kont)
      /\ Operands(Top) \in Nat
  BY ReturningIs
<1>2. /\ Callers = Front(kont) /\ Settles(Callers)
      /\ Over(Callers) = Top.high /\ Top.high \in Nat
      /\ Top \in Entry /\ Sized(Top) /\ Fits(Top)
      /\ Len(frames) = Cardinality(Scoped(Callers)) + Opens(Top)
  BY <1>1, CallersAre
<1>3. l \in Nat /\ Top.left = l + 1 /\ Stacked(kont)
  BY <1>2 DEF Entry, LispInv, KontInv
<1> DEFINE e == [Top EXCEPT !.left = l]
<1>4. /\ e \in Entry /\ Sized(e) /\ Fits(e) /\ e.high = Top.high /\ Opens(e) = Opens(Top) /\ e.k = k
      /\ Operands(e) = Operands(Top) + (IF k \in {"let", "args"} THEN 1 ELSE 0)
  <2> HIDE DEF l
  <2>1. e \in Entry /\ e.k = k /\ e.total = Top.total /\ e.left = l /\ e.high = Top.high
        /\ e.names = Top.names
    BY <1>1, <1>2, <1>3 DEF Entry
  <2>2. e.total \in Nat /\ e.left \in Nat
    BY <2>1 DEF Entry
  <2> HIDE DEF e
  <2>3. Operands(e) = Operands(Top) + (IF k \in {"let", "args"} THEN 1 ELSE 0)
    BY <1>1, <1>3, <2>1, <2>2 DEF Operands
  <2>4. Fits(e)
    BY <1>1, <1>2, <1>3, <2>1, <2>2 DEF Fits
  <2>5. QED
    BY <1>1, <1>2, <2>1, <2>3, <2>4 DEF Sized, Opens
<1>5. CASE k = "body" /\ l = 0
  <2>1. J = Front(kont)
    BY <1>1, <1>5 DEF Remaining, Top
  <2>2. Opens(Top) = 0 /\ Operands(Top) = 0
    BY <1>1, <1>5 DEF Opens, Operands
  <2>3. Cardinality(Scoped(Callers)) \in Nat
    BY <1>2, ScopedIs DEF Settles, Stacked
  <2> HIDE DEF J, l
  <2>4. QED
    BY <1>1, <1>2, <1>5, <2>1, <2>2, <2>3 DEF J, l
<1>6. CASE ~(k = "body" /\ l = 0)
  <2> HIDE DEF l
  <2>1. kont[Len(kont)].k # "body" \/ l # 0
    BY <1>1, <1>6 DEF Top
  <2>2. J = Append(Callers, e)
    BY <1>1, <1>2, <1>3, <2>1, EntryAhead DEF Top
  <2> HIDE DEF J, e
  <2>3. /\ Settles(J) /\ Over(J) = e.high + Operands(e)
        /\ Cardinality(Scoped(J)) = Cardinality(Scoped(Callers)) + Opens(e)
    BY <1>2, <1>4, <2>2, EntryAdded
  <2>4. QED
    BY <1>1, <1>2, <1>4, <2>3 DEF J, l
<1>7. QED
  BY <1>5, <1>6

\* The present memory with values taken from the stack or put onto it.
LEMMA PoppedHere ==
  ASSUME MemoryInv, NEW k \in 0 .. Len(stack)
  PROVE  LET n == Popped(Memory, k) IN
         /\ n \in Memories /\ n.stack = SubSeq(stack, 1, Len(stack) - k)
         /\ Len(n.stack) = Len(stack) - k
         /\ n.heap = heap /\ n.frames = frames /\ n.globals = globals
<1>1. /\ Memory \in Memories /\ Memory.stack = stack /\ Memory.frames = frames
      /\ Memory.globals = globals /\ Memory.heap = heap
  BY PartsAre
<1> DEFINE n == Popped(Memory, k)
<1>2. /\ n \in Memories
      /\ n.stack = SubSeq(Memory.stack, 1, Len(Memory.stack) - k)
      /\ Len(n.stack) = Len(Memory.stack) - k
      /\ n.heap = Memory.heap /\ n.frames = Memory.frames /\ n.globals = Memory.globals
  BY <1>1, PoppedIs
<1> HIDE DEF n
<1>3. QED
  BY <1>1, <1>2 DEF n

\* The last value replaced by another.
LEMMA ReplacedHere ==
  ASSUME MemoryInv, Len(stack) >= 1, NEW v \in Val
  PROVE  LET n == Pushed(Popped(Memory, 1), <<v>>) IN
         /\ n \in Memories
         /\ n.stack = SubSeq(stack, 1, Len(stack) - 1) \o <<v>>
         /\ Len(n.stack) = Len(stack)
         /\ n.heap = heap /\ n.frames = frames /\ n.globals = globals
<1> DEFINE p == Popped(Memory, 1)
           n == Pushed(p, <<v>>)
<1>1. 1 \in 0 .. Len(stack) /\ Len(stack) \in Nat
  BY PartsAre
<1>2. /\ p \in Memories /\ p.stack = SubSeq(stack, 1, Len(stack) - 1)
      /\ Len(p.stack) = Len(stack) - 1
      /\ p.heap = heap /\ p.frames = frames /\ p.globals = globals
  BY <1>1, PoppedHere
<1> HIDE DEF p
<1>3. <<v>> \in Seq(Val) /\ Len(<<v>>) = 1
  OBVIOUS
<1>4. /\ n \in Memories /\ n.stack = p.stack \o <<v>>
      /\ Len(n.stack) = Len(p.stack) + 1
      /\ n.heap = p.heap /\ n.frames = p.frames /\ n.globals = p.globals
  BY <1>2, <1>3, PushedIs
<1> HIDE DEF n
<1>5. n.stack = SubSeq(stack, 1, Len(stack) - 1) \o <<v>> /\ Len(n.stack) = Len(stack)
      /\ n.heap = heap /\ n.frames = frames /\ n.globals = globals
  BY <1>1, <1>2, <1>4
<1>6. QED
  BY <1>4, <1>5 DEF n, p

\* The next operand is evaluated with the ones before it on the stack,
LEMMA NextOperandKeeps ==
  ASSUME LispInv, NextOperand
  PROVE  LispInv'
<1>1. PICK k \in {"let", "args"} : Returning(k)
  BY DEF NextOperand
<1> DEFINE J == Remaining(kont, Top.left - 1)
<1>2. /\ Top.left > 0 /\ kont' = J /\ mode' = "eval"
      /\ UNCHANGED <<stack, frames, globals, heap>>
  BY DEF NextOperand, Enter
<1>3. Settles(J) /\ Over(J) = Over(kont) + 1 /\ Len(frames) = Cardinality(Scoped(J))
  BY <1>1, <1>2, Ahead
<1> HIDE DEF J
<1>4. Len(stack) = Over(kont) + 1
  BY <1>1, ReturningIs
<1>5. MemoryInv'
  BY <1>2, SameMemory DEF LispInv
<1>6. QED
  BY <1>2, <1>3, <1>4, <1>5, Entered

\* the next form with the value of the one before dropped.
LEMMA NextFormKeeps ==
  ASSUME LispInv, NextForm
  PROVE  LispInv'
<1>1. PICK k \in {"body", "scope"} : Returning(k)
  BY DEF NextForm
<1> DEFINE J == Remaining(kont, Top.left - 1)
<1>2. Top.left > 0 /\ kont' = J /\ mode' = "eval" /\ Become(Popped(Memory, 1))
  BY DEF NextForm, Enter
<1>3. Settles(J) /\ Over(J) = Over(kont) /\ Len(frames) = Cardinality(Scoped(J))
  <2>1. Settles(kont)
    BY <1>1, ReturningIs DEF LispInv, KontInv
  <2>2. Over(kont) \in Nat
    BY <2>1, OverIs
  <2> HIDE DEF J
  <2>3. QED
    BY <1>1, <1>2, <2>2, Ahead DEF J
<1> HIDE DEF J
<1>4. Len(stack) = Over(kont) + 1 /\ 1 \in 0 .. Len(stack)
  <2>1. Len(stack) = Over(kont) + 1 /\ Settles(kont)
    BY <1>1, ReturningIs DEF LispInv, KontInv
  <2>2. Over(kont) \in Nat
    BY <2>1, OverIs
  <2>3. QED
    BY <2>1, <2>2
<1> DEFINE n == Popped(Memory, 1)
<1>5. n \in Memories /\ Len(n.stack) = Len(stack) - 1 /\ n.frames = frames
  BY <1>4, PoppedHere DEF LispInv
<1> HIDE DEF n
<1>6. MemoryInv' /\ Len(stack') = Len(stack) - 1 /\ Len(frames') = Len(frames)
  BY <1>2, <1>5, NextMemory DEF n
<1>7. Len(stack') = Over(kont)
  <2>1. Settles(kont)
    BY <1>1, ReturningIs DEF LispInv, KontInv
  <2>2. Over(kont) \in Nat
    BY <2>1, OverIs
  <2>3. QED
    BY <1>4, <1>6, <2>2
<1>8. QED
  BY <1>2, <1>3, <1>6, <1>7, Entered

\* A form that ends, its value or another one in place of the value on the stack.
LEMMA EndsWith ==
  ASSUME LispInv, NEW k \in {"body", "if", "define", "set"}, Returning(k),
         NEW m \in Memories, Len(m.stack) = Len(stack), Len(m.frames) = Len(frames),
         Return(m), kont' = Callers
  PROVE  LispInv'
<1>1. /\ mode = "return" /\ kont # <<>> /\ Top.k = k /\ Operands(Top) \in Nat
      /\ Len(stack) = Top.high + Operands(Top) + 1
  BY ReturningIs
<1>2. /\ Settles(Callers) /\ Over(Callers) = Top.high /\ Top.high \in Nat
      /\ Len(frames) = Cardinality(Scoped(Callers)) + Opens(Top)
  BY <1>1, CallersAre
<1>3. Operands(Top) = 0 /\ Opens(Top) = 0
  BY <1>1 DEF Operands, Opens
<1>4. Cardinality(Scoped(Callers)) \in Nat
  BY <1>2, ScopedIs DEF Settles, Stacked
<1>5. Len(m.stack) = Over(Callers) + 1 /\ Len(m.frames) = Cardinality(Scoped(Callers))
  BY <1>1, <1>2, <1>3, <1>4
<1>6. QED
  BY <1>2, <1>5, Returned

\* While a value is on the stack.
LEMMA ValueThere ==
  ASSUME LispInv, mode = "return"
  PROVE  /\ Len(stack) >= 1 /\ 1 \in 0 .. Len(stack) /\ Value \in Val /\ MemoryInv
         /\ Value \in Roots(Memory)
<1>1. Settles(kont) /\ Len(stack) = Over(kont) + 1
  BY DEF LispInv, KontInv, HeightInv
<1>2. Over(kont) \in Nat
  BY <1>1, OverIs
<1>3. stack \in Seq(Val) /\ Len(stack) \in 1 .. Len(stack) /\ Len(stack) \in DOMAIN stack
  BY <1>1, <1>2, PartsAre DEF LispInv
<1>4. Value \in Val
  BY <1>3 DEF Value
<1>5. Value \in Roots(Memory)
  BY <1>3, PartsAre, RootsAre DEF Value, LispInv
<1>6. QED
  BY <1>1, <1>2, <1>4, <1>5 DEF LispInv

\* A decided and or or returns one value,
LEMMA DecidedKeeps ==
  ASSUME LispInv, Decided
  PROVE  LispInv'
<1>1. Returning("body") /\ kont' = Callers /\ Return(Pushed(Popped(Memory, 1), <<Value>>))
  BY DEF Decided
<1>2. mode = "return"
  BY <1>1 DEF Returning
<1>3. Len(stack) >= 1 /\ Value \in Val /\ MemoryInv
  BY <1>2, ValueThere
<1> DEFINE n == Pushed(Popped(Memory, 1), <<Value>>)
<1>4. n \in Memories /\ Len(n.stack) = Len(stack) /\ n.frames = frames
  BY <1>3, ReplacedHere
<1> HIDE DEF n
<1>5. QED
  BY <1>1, <1>4, EndsWith DEF n

\* an if without the branch returns nil,
LEMMA SkipBranchKeeps ==
  ASSUME LispInv, SkipBranch
  PROVE  LispInv'
<1>1. Returning("if") /\ kont' = Callers /\ Return(Pushed(Popped(Memory, 1), <<Imm>>))
  BY DEF SkipBranch
<1>2. mode = "return"
  BY <1>1 DEF Returning
<1>3. Len(stack) >= 1 /\ Imm \in Val /\ MemoryInv
  BY <1>2, ValueThere, WordsAre
<1> DEFINE n == Pushed(Popped(Memory, 1), <<Imm>>)
<1>4. n \in Memories /\ Len(n.stack) = Len(stack) /\ n.frames = frames
  BY <1>3, ReplacedHere
<1> HIDE DEF n
<1>5. QED
  BY <1>1, <1>4, EndsWith DEF n

\* a branch is evaluated where the if was.
LEMMA TakeBranchKeeps ==
  ASSUME LispInv, TakeBranch
  PROVE  LispInv'
<1>1. Returning("if") /\ kont' = Callers /\ mode' = "eval" /\ Become(Popped(Memory, 1))
  BY DEF TakeBranch, Enter
<1>2. /\ mode = "return" /\ kont # <<>> /\ Top.k = "if" /\ Operands(Top) \in Nat
      /\ Len(stack) = Top.high + Operands(Top) + 1
  BY <1>1, ReturningIs
<1>3. /\ Settles(Callers) /\ Over(Callers) = Top.high /\ Top.high \in Nat
      /\ Len(frames) = Cardinality(Scoped(Callers)) + Opens(Top)
  BY <1>2, CallersAre
<1>4. Operands(Top) = 0 /\ Opens(Top) = 0
  BY <1>2 DEF Operands, Opens
<1>5. 1 \in 0 .. Len(stack) /\ MemoryInv
  BY <1>2, ValueThere
<1> DEFINE n == Popped(Memory, 1)
<1>6. n \in Memories /\ Len(n.stack) = Len(stack) - 1 /\ n.frames = frames
  BY <1>5, PoppedHere
<1> HIDE DEF n
<1>7. MemoryInv' /\ Len(stack') = Len(stack) - 1 /\ Len(frames') = Len(frames)
  BY <1>1, <1>6, NextMemory DEF n
<1>8. Len(stack') = Over(Callers) /\ Len(frames') = Cardinality(Scoped(Callers))
  <2>1. Cardinality(Scoped(Callers)) \in Nat
    BY <1>3, ScopedIs DEF Settles, Stacked
  <2>2. QED
    BY <1>2, <1>3, <1>4, <1>7, <2>1
<1>9. QED
  BY <1>1, <1>3, <1>7, <1>8, Entered

\* The present memory without the values above the height of the present entry.
LEMMA BelowHere ==
  ASSUME MemoryInv, Top.high \in 0 .. Len(stack)
  PROVE  LET n == Below(Memory) IN
         /\ n \in Memories /\ n.stack = SubSeq(stack, 1, Top.high) /\ Len(n.stack) = Top.high
         /\ n.heap = heap /\ n.frames = frames /\ n.globals = globals
<1>1. /\ Memory \in Memories /\ Memory.stack = stack /\ Memory.frames = frames
      /\ Memory.globals = globals /\ Memory.heap = heap
  BY PartsAre
<1> DEFINE n == Below(Memory)
<1>2. /\ n \in Memories
      /\ n.stack = SubSeq(Memory.stack, 1, Top.high) /\ Len(n.stack) = Top.high
      /\ n.heap = Memory.heap /\ n.frames = Memory.frames /\ n.globals = Memory.globals
  BY <1>1, BelowIs
<1> HIDE DEF n
<1>3. QED
  BY <1>1, <1>2 DEF n

\* A new frame binds each name to its value.
LEMMA FrameIs ==
  ASSUME NEW names \in Seq(Name), NEW values \in Seq(Val), Len(names) = Len(values)
  PROVE  /\ Frame(names, values) \in Scopes
         /\ DOMAIN Frame(names, values) = 1 .. Len(names)
         /\ \A i \in 1 .. Len(names) : Frame(names, values)[i][2] = values[i]
<1> DEFINE k == Len(names)
<1>1. k \in Nat /\ DOMAIN names = 1 .. k
  OBVIOUS
<1>2. \A i \in 1 .. k : <<names[i], values[i]>> \in Name \X Val
  OBVIOUS
<1>3. Frame(names, values) = [i \in 1 .. k |-> <<names[i], values[i]>>]
  BY <1>1 DEF Frame
<1> HIDE DEF k
<1>4. Frame(names, values) \in Seq(Name \X Val)
  BY <1>1, <1>2, <1>3
<1>5. QED
  BY <1>3, <1>4 DEF Scopes, k

\* The memory with one more, or one less, frame.
LEMMA FrameOpened ==
  ASSUME NEW m \in Memories, NEW f \in Scopes
  PROVE  LET n == [m EXCEPT !.frames = Append(@, f)] IN
         /\ n \in Memories /\ n.frames = Append(m.frames, f)
         /\ Len(n.frames) = Len(m.frames) + 1
         /\ n.stack = m.stack /\ n.heap = m.heap /\ n.globals = m.globals
<1>1. Append(m.frames, f) \in Seq(Scopes) /\ Len(Append(m.frames, f)) = Len(m.frames) + 1
  BY MemoryIs
<1>2. [m EXCEPT !.frames = Append(m.frames, f)] \in Memories
  BY <1>1, Remade, MemoryIs
<1>3. QED
  BY <1>1, <1>2 DEF Memories

\* Frames dropped from the end.
LEMMA FramesDropped ==
  ASSUME NEW m \in Memories, NEW k \in 0 .. Len(m.frames)
  PROVE  LET n == [m EXCEPT !.frames = SubSeq(@, 1, Len(@) - k)] IN
         /\ n \in Memories /\ n.frames = SubSeq(m.frames, 1, Len(m.frames) - k)
         /\ Len(n.frames) = Len(m.frames) - k
         /\ n.stack = m.stack /\ n.heap = m.heap /\ n.globals = m.globals
<1> DEFINE f == SubSeq(m.frames, 1, Len(m.frames) - k)
<1>1. Len(m.frames) - k \in 0 .. Len(m.frames) /\ m.frames \in Seq(Scopes)
  BY MemoryIs
<1>2. f \in Seq(Scopes) /\ Len(f) = Len(m.frames) - k
  BY <1>1, Shortened
<1>3. [m EXCEPT !.frames = f] \in Memories
  <2> HIDE DEF f
  <2>1. QED
    BY <1>2, Remade, MemoryIs
<1>4. QED
  BY <1>2, <1>3 DEF Memories

\* The name that a define or a set! is about.
LEMMA TopName ==
  ASSUME LispInv, NEW k \in {"define", "set"}, Returning(k)
  PROVE  Top.names[1] \in Name
<1>1. mode = "return" /\ kont # <<>> /\ Top.k = k
  BY ReturningIs
<1>2. Top \in Entry /\ Sized(Top)
  BY <1>1, CallersAre
<1>3. Top.names \in Seq(Name) /\ Len(Top.names) = 1
  BY <1>1, <1>2 DEF Entry, Sized
<1>4. QED
  BY <1>3

\* A global defined.
With(g, x, v) == [y \in DOMAIN g \cup {x} |-> IF y = x THEN v ELSE g[y]]
WithGlobal(m, x, v) == [m EXCEPT !.globals = With(m.globals, x, v)]

\* A global defined, or set when it is defined already.
LEMMA GlobalSet ==
  ASSUME NEW m \in Memories, NEW x \in Name, NEW v \in Val
  PROVE  LET n == WithGlobal(m, x, v) IN
         /\ n \in Memories /\ n.stack = m.stack /\ n.frames = m.frames /\ n.heap = m.heap
         /\ DOMAIN n.globals = DOMAIN m.globals \cup {x}
         /\ n.globals[x] = v /\ \A y \in DOMAIN m.globals : n.globals[y] = IF y = x THEN v ELSE m.globals[y]
<1> DEFINE g == With(m.globals, x, v)
<1>1. g \in [DOMAIN m.globals \cup {x} -> Val] /\ DOMAIN m.globals \cup {x} \in SUBSET Name
  BY MemoryIs DEF With
<1>2. g \in Globals
  BY <1>1 DEF Globals
<1>3. /\ DOMAIN g = DOMAIN m.globals \cup {x} /\ g[x] = v
      /\ \A y \in DOMAIN m.globals : g[y] = IF y = x THEN v ELSE m.globals[y]
  BY DEF With
<1> DEFINE n == [m EXCEPT !.globals = g]
<1> HIDE DEF g
<1>4. n \in Memories
  BY <1>2, Remade, MemoryIs
<1>5. n.globals = g /\ n.stack = m.stack /\ n.frames = m.frames /\ n.heap = m.heap
  BY DEF Memories
<1> HIDE DEF n
<1>6. /\ n \in Memories /\ n.stack = m.stack /\ n.frames = m.frames /\ n.heap = m.heap
      /\ DOMAIN n.globals = DOMAIN m.globals \cup {x} /\ n.globals[x] = v
      /\ \A y \in DOMAIN m.globals : n.globals[y] = IF y = x THEN v ELSE m.globals[y]
  BY <1>3, <1>4, <1>5
<1>7. QED
  BY <1>6 DEF n, g, WithGlobal

\* A local assigned.
LEMMA LocalSet ==
  ASSUME NEW m \in Memories, NEW f \in DOMAIN m.frames, NEW b \in DOMAIN m.frames[f], NEW v \in Val
  PROVE  LET n == [m EXCEPT !.frames[f][b][2] = v] IN
         /\ n \in Memories /\ n.stack = m.stack /\ n.heap = m.heap /\ n.globals = m.globals
         /\ Len(n.frames) = Len(m.frames) /\ DOMAIN n.frames = DOMAIN m.frames
         /\ \A g \in DOMAIN m.frames : DOMAIN n.frames[g] = DOMAIN m.frames[g]
         /\ \A g \in DOMAIN m.frames : \A a \in DOMAIN m.frames[g] :
              n.frames[g][a][2] = IF g = f /\ a = b THEN v ELSE m.frames[g][a][2]
<1> DEFINE slot == m.frames[f][b]
           s == [m.frames[f] EXCEPT ![b] = <<slot[1], v>>]
           fs == [m.frames EXCEPT ![f] = s]
           n == [m EXCEPT !.frames[f][b][2] = v]
<1>1. m.frames \in Seq(Scopes) /\ m.frames[f] \in Seq(Name \X Val)
  BY MemoryIs DEF Scopes
<1>2. slot \in Name \X Val /\ [slot EXCEPT ![2] = v] = <<slot[1], v>> /\ <<slot[1], v>> \in Name \X Val
  <2>1. slot \in Name \X Val
    BY <1>1
  <2>2. slot = <<slot[1], slot[2]>> /\ slot[1] \in Name
    BY <2>1
  <2> HIDE DEF slot
  <2>3. QED
    BY <2>1, <2>2
<1>3. n = [m EXCEPT !.frames = [m.frames EXCEPT ![f] = [m.frames[f] EXCEPT ![b] = [slot EXCEPT ![2] = v]]]]
  BY <1>1, MemoryIs
<1>4. n = [m EXCEPT !.frames = fs]
  BY <1>2, <1>3
<1> HIDE DEF n
<1>5. s \in Scopes /\ DOMAIN s = DOMAIN m.frames[f] /\ s[b] = <<slot[1], v>>
      /\ \A a \in DOMAIN m.frames[f] : a # b => s[a] = m.frames[f][a]
  <2> HIDE DEF slot
  <2>1. QED
    BY <1>1, <1>2 DEF Scopes
<1> HIDE DEF s
<1>6. fs \in Seq(Scopes) /\ Len(fs) = Len(m.frames) /\ DOMAIN fs = DOMAIN m.frames /\ fs[f] = s
      /\ \A g \in DOMAIN m.frames : g # f => fs[g] = m.frames[g]
  BY <1>1, <1>5
<1> HIDE DEF fs
<1>7. n \in Memories /\ n.frames = fs /\ n.stack = m.stack /\ n.heap = m.heap /\ n.globals = m.globals
  <2>1. [m EXCEPT !.frames = fs] \in Memories
    BY <1>6, Remade, MemoryIs
  <2>2. QED
    BY <1>4, <2>1 DEF Memories
<1>8. ASSUME NEW g \in DOMAIN m.frames
      PROVE  /\ DOMAIN fs[g] = DOMAIN m.frames[g]
             /\ \A a \in DOMAIN m.frames[g] :
                  fs[g][a][2] = IF g = f /\ a = b THEN v ELSE m.frames[g][a][2]
  BY <1>5, <1>6
<1>9. QED
  BY <1>6, <1>7, <1>8 DEF n

\* set! of a global is that too.
LEMMA GlobalAssigned ==
  ASSUME NEW m \in Memories, NEW x \in DOMAIN m.globals, NEW v \in Val
  PROVE  LET n == [m EXCEPT !.globals[x] = v] IN
         /\ n \in Memories /\ n.stack = m.stack /\ n.frames = m.frames /\ n.heap = m.heap
         /\ DOMAIN n.globals = DOMAIN m.globals
         /\ \A y \in DOMAIN m.globals : n.globals[y] = IF y = x THEN v ELSE m.globals[y]
<1> DEFINE g == [m.globals EXCEPT ![x] = v]
           n == [m EXCEPT !.globals[x] = v]
<1>1. g \in [DOMAIN m.globals -> Val] /\ DOMAIN m.globals \in SUBSET Name
      /\ DOMAIN g = DOMAIN m.globals
      /\ \A y \in DOMAIN m.globals : g[y] = IF y = x THEN v ELSE m.globals[y]
  BY MemoryIs
<1>2. g \in Globals
  BY <1>1 DEF Globals
<1>3. n = [m EXCEPT !.globals = g]
  OBVIOUS
<1> HIDE DEF g, n
<1>4. [m EXCEPT !.globals = g] \in Memories
  BY <1>2, Remade, MemoryIs
<1>5. n \in Memories /\ n.globals = g /\ n.stack = m.stack /\ n.frames = m.frames /\ n.heap = m.heap
  BY <1>3, <1>4 DEF Memories
<1>6. QED
  BY <1>1, <1>5 DEF n

\* The memory in which a define ends.
Defined(x, v) ==
  [Popped(Memory, 1) EXCEPT
     !.globals = [y \in DOMAIN @ \cup {x} |-> IF y = x THEN v ELSE @[y]],
     !.stack = Append(@, Imm)]

\* What define leaves: the value in the global, an immediate on the stack.
LEMMA DefineMemory ==
  ASSUME MemoryInv, Len(stack) >= 1, NEW x \in Name, NEW v \in Val
  PROVE  LET n == Defined(x, v) IN
         /\ n \in Memories /\ n.stack = Append(SubSeq(stack, 1, Len(stack) - 1), Imm)
         /\ Len(n.stack) = Len(stack)
         /\ n.frames = frames /\ n.heap = heap
         /\ DOMAIN n.globals = DOMAIN globals \cup {x}
         /\ n.globals[x] = v
         /\ \A y \in DOMAIN globals : n.globals[y] = IF y = x THEN v ELSE globals[y]
<1> DEFINE p == Popped(Memory, 1)
           q == WithGlobal(p, x, v)
           n == Defined(x, v)
<1>1. 1 \in 0 .. Len(stack) /\ Len(stack) \in Nat
  BY PartsAre
<1>2. /\ p \in Memories /\ p.stack = SubSeq(stack, 1, Len(stack) - 1)
      /\ Len(p.stack) = Len(stack) - 1
      /\ p.heap = heap /\ p.frames = frames /\ p.globals = globals
  BY <1>1, PoppedHere
<1>3. n = [p EXCEPT !.globals = With(p.globals, x, v), !.stack = Append(p.stack, Imm)]
  BY DEF Defined, With
<1> HIDE DEF p, n
<1>4. /\ q \in Memories /\ q.stack = p.stack /\ q.frames = p.frames /\ q.heap = p.heap
      /\ DOMAIN q.globals = DOMAIN p.globals \cup {x} /\ q.globals[x] = v
      /\ \A y \in DOMAIN p.globals : q.globals[y] = IF y = x THEN v ELSE p.globals[y]
  BY <1>2, GlobalSet
<1>5. n = [q EXCEPT !.stack = Append(q.stack, Imm)]
  BY <1>2, <1>3 DEF Memories, WithGlobal
<1> HIDE DEF q
<1> DEFINE s == Append(q.stack, Imm)
<1>6. s \in Seq(Val) /\ Len(s) = Len(q.stack) + 1
  BY <1>4, MemoryIs, WordsAre
<1> HIDE DEF s
<1>7. [q EXCEPT !.stack = s] \in Memories
  BY <1>4, <1>6, Remade, MemoryIs
<1>8. n \in Memories /\ n.stack = s /\ n.heap = q.heap /\ n.frames = q.frames /\ n.globals = q.globals
  BY <1>4, <1>5, <1>7 DEF Memories, s
<1>9. Len(n.stack) = Len(stack) /\ n.stack = Append(SubSeq(stack, 1, Len(stack) - 1), Imm)
  BY <1>1, <1>2, <1>4, <1>6, <1>8 DEF s
<1>10. QED
  BY <1>2, <1>4, <1>8, <1>9 DEF n, p

\* define keeps the invariant.
LEMMA DefineKeeps ==
  ASSUME LispInv, Define
  PROVE  LispInv'
<1> DEFINE x == Top.names[1]
           n == Defined(x, Value)
<1>1. Returning("define") /\ kont' = Callers /\ Return(n)
  BY DEF Define, Defined
<1>2. mode = "return"
  BY <1>1 DEF Returning
<1>3. Len(stack) >= 1 /\ Value \in Val /\ MemoryInv /\ x \in Name
  BY <1>1, <1>2, ValueThere, TopName
<1> HIDE DEF x
<1>4. n \in Memories /\ Len(n.stack) = Len(stack) /\ n.frames = frames
  BY <1>3, DefineMemory
<1> HIDE DEF n
<1>5. QED
  BY <1>1, <1>4, EndsWith

\* The memory in which a set! ends: the slot of x, a local or a global, holds v.
Assigned(x, v) ==
  LET m == Pushed(Popped(Memory, 1), <<Imm>>)
  IN  IF Binders(x) # {} THEN [m EXCEPT !.frames[Slot(x)[1]][Slot(x)[2]][2] = v]
      ELSE [m EXCEPT !.globals[x] = v]

\* What set! leaves: no value that was not there.
LEMMA AssignMemory ==
  ASSUME MemoryInv, Len(stack) >= 1, NEW x \in Name, Bound(x), NEW v \in Val
  PROVE  LET n == Assigned(x, v) IN
         /\ n \in Memories /\ n.heap = heap
         /\ Len(n.stack) = Len(stack) /\ Len(n.frames) = Len(frames)
         /\ Roots(n) \subseteq Roots(Memory) \cup {v, Imm}
<1> DEFINE m == Pushed(Popped(Memory, 1), <<Imm>>)
           s == SubSeq(stack, 1, Len(stack) - 1) \o <<Imm>>
<1>1. Imm \in Val
  BY WordsAre
<1>2. /\ m \in Memories /\ m.stack = s
      /\ Len(m.stack) = Len(stack)
      /\ m.heap = heap /\ m.frames = frames /\ m.globals = globals
  BY <1>1, ReplacedHere
<1>3. /\ Memory \in Memories /\ Memory.stack = stack /\ Memory.frames = frames
      /\ Memory.globals = globals /\ Memory.heap = heap /\ stack \in Seq(Val) /\ Len(stack) \in Nat
  BY PartsAre
<1>4. \A i \in DOMAIN s : s[i] \in Roots(Memory) \cup {Imm}
  <2>1. Len(stack) - 1 \in 0 .. Len(stack)
    BY <1>3
  <2> DEFINE k == Len(stack) - 1
             t == SubSeq(stack, 1, k)
  <2>2. t \in Seq(Val) /\ Len(t) = k /\ \A i \in 1 .. k : t[i] = stack[i]
    <3>1. k \in 0 .. Len(stack) /\ stack \in Seq(Val)
      BY <1>3, <2>1
    <3> HIDE DEF k
    <3>2. QED
      BY <3>1, Shortened
  <2>3. k \in Nat /\ \A i \in 1 .. k : stack[i] \in Roots(Memory)
    BY <1>3, RootsAre
  <2>4. <<Imm>> \in Seq(Val) /\ Len(<<Imm>>) = 1 /\ <<Imm>>[1] = Imm
    BY <1>1
  <2> HIDE DEF t, k
  <2>5. t \o <<Imm>> \in Seq(Val) /\ Len(t \o <<Imm>>) = k + 1
        /\ (\A i \in 1 .. k : (t \o <<Imm>>)[i] = t[i]) /\ (t \o <<Imm>>)[k + 1] = Imm
    BY <2>2, <2>3, <2>4
  <2>6. s = t \o <<Imm>>
    BY DEF t, k
  <2>7. \A i \in DOMAIN s : i \in 1 .. k \/ i = k + 1
    BY <2>3, <2>5, <2>6
  <2>8. QED
    BY <2>2, <2>3, <2>5, <2>6, <2>7
<1> HIDE DEF m, s
<1>5. CASE Binders(x) # {}
  <2> DEFINE f == Slot(x)[1]
             b == Slot(x)[2]
             n == [m EXCEPT !.frames[f][b][2] = v]
  <2>1. f \in DOMAIN m.frames /\ b \in DOMAIN m.frames[f]
    BY <1>2, <1>5, SlotIs
  <2> HIDE DEF f, b
  <2>2. /\ n \in Memories /\ n.stack = m.stack /\ n.heap = m.heap /\ n.globals = m.globals
        /\ Len(n.frames) = Len(m.frames) /\ DOMAIN n.frames = DOMAIN m.frames
        /\ \A g \in DOMAIN m.frames : DOMAIN n.frames[g] = DOMAIN m.frames[g]
        /\ \A g \in DOMAIN m.frames : \A a \in DOMAIN m.frames[g] :
             n.frames[g][a][2] = IF g = f /\ a = b THEN v ELSE m.frames[g][a][2]
    BY <1>2, <2>1, LocalSet
  <2> HIDE DEF n
  <2>3. Roots(n) \subseteq Roots(Memory) \cup {v, Imm}
    <3> SUFFICES ASSUME NEW w \in Roots(n) PROVE w \in Roots(Memory) \cup {v, Imm}
      OBVIOUS
    <3>1. CASE \E i \in DOMAIN n.stack : w = n.stack[i]
      BY <1>2, <1>4, <2>2, <3>1
    <3>2. CASE \E g \in DOMAIN n.frames : \E a \in DOMAIN n.frames[g] : w = n.frames[g][a][2]
      BY <1>2, <1>3, <2>2, <3>2, RootsAre
    <3>3. CASE \E y \in DOMAIN n.globals : w = n.globals[y]
      BY <1>2, <1>3, <2>2, <3>3, RootsAre
    <3>4. QED
      BY <2>2, <3>1, <3>2, <3>3, RootsAre
  <2>4. QED
    BY <1>2, <1>5, <2>2, <2>3 DEF n, m, f, b, Assigned
<1>6. CASE Binders(x) = {}
  <2> DEFINE n == [m EXCEPT !.globals[x] = v]
  <2>1. x \in DOMAIN m.globals
    BY <1>2, <1>6 DEF Bound
  <2>2. /\ n \in Memories /\ n.stack = m.stack /\ n.frames = m.frames /\ n.heap = m.heap
        /\ DOMAIN n.globals = DOMAIN m.globals
        /\ \A y \in DOMAIN m.globals : n.globals[y] = IF y = x THEN v ELSE m.globals[y]
    BY <1>2, <2>1, GlobalAssigned
  <2> HIDE DEF n
  <2>3. Roots(n) \subseteq Roots(Memory) \cup {v, Imm}
    <3> SUFFICES ASSUME NEW w \in Roots(n) PROVE w \in Roots(Memory) \cup {v, Imm}
      OBVIOUS
    <3>1. CASE \E i \in DOMAIN n.stack : w = n.stack[i]
      BY <1>2, <1>4, <2>2, <3>1
    <3>2. CASE \E g \in DOMAIN n.frames : \E a \in DOMAIN n.frames[g] : w = n.frames[g][a][2]
      BY <1>2, <1>3, <2>2, <3>2, RootsAre
    <3>3. CASE \E y \in DOMAIN n.globals : w = n.globals[y]
      BY <1>2, <1>3, <2>2, <3>3, RootsAre
    <3>4. QED
      BY <2>2, <3>1, <3>2, <3>3, RootsAre
  <2>4. QED
    BY <1>2, <1>6, <2>2, <2>3 DEF n, m, Assigned
<1>7. QED
  BY <1>5, <1>6

\* set! keeps the invariant.
LEMMA AssignKeeps ==
  ASSUME LispInv, Assign
  PROVE  LispInv'
<1> DEFINE x == Top.names[1]
           n == Assigned(x, Value)
<1>1. Returning("set") /\ Bound(x) /\ kont' = Callers /\ Return(n)
  BY DEF Assign, Assigned
<1>2. mode = "return"
  BY <1>1 DEF Returning
<1>3. Len(stack) >= 1 /\ Value \in Val /\ MemoryInv /\ x \in Name
  BY <1>1, <1>2, ValueThere, TopName
<1> HIDE DEF x
<1>4. n \in Memories /\ Len(n.stack) = Len(stack) /\ Len(n.frames) = Len(frames)
  BY <1>1, <1>3, AssignMemory
<1> HIDE DEF n
<1>5. QED
  BY <1>1, <1>4, EndsWith

\* The values of a let are exactly those above the height it began at.
LEMMA LetValues ==
  ASSUME LispInv, Returning("let"), Top.left = 0
  PROVE  /\ Top.high \in 0 .. Len(stack)
         /\ Frame(Top.names, Above) \in Scopes
         /\ Above \in Seq(Val) /\ Len(Above) = Len(Top.names)
         /\ Len(Above) = Len(stack) - Top.high
         /\ \A i \in 1 .. Len(Above) : Above[i] = stack[Top.high + i]
<1>1. /\ mode = "return" /\ kont # <<>> /\ Top.k = "let" /\ Operands(Top) \in Nat
      /\ Len(stack) = Top.high + Operands(Top) + 1
  BY ReturningIs
<1>2. Top.high \in Nat /\ Top \in Entry /\ Sized(Top) /\ stack \in Seq(Val)
  BY <1>1, CallersAre, PartsAre DEF LispInv
<1>3. Operands(Top) = Top.total - 1 /\ Len(Top.names) = Top.total /\ Top.names \in Seq(Name)
      /\ Top.total \in Nat
  BY <1>1, <1>2 DEF Operands, Sized, Entry
<1> DEFINE t == Top.high
<1>4. t \in 0 .. Len(stack) /\ Len(stack) - t = Top.total
  BY <1>1, <1>2, <1>3
<1> HIDE DEF t
<1>5. /\ SubSeq(stack, t + 1, Len(stack)) \in Seq(Val)
      /\ Len(SubSeq(stack, t + 1, Len(stack))) = Len(stack) - t
      /\ \A i \in 1 .. Len(stack) - t : SubSeq(stack, t + 1, Len(stack))[i] = stack[t + i]
  BY <1>2, <1>4, Rest
<1>6. Above \in Seq(Val) /\ Len(Above) = Top.total /\ Len(Above) = Len(stack) - t
      /\ \A i \in 1 .. Len(Above) : Above[i] = stack[t + i]
  BY <1>4, <1>5 DEF Above, t
<1>7. Frame(Top.names, Above) \in Scopes
  BY <1>3, <1>6, FrameIs
<1>8. QED
  BY <1>3, <1>4, <1>6, <1>7 DEF t

\* A scope or a body entered on top of callers J.
LEMMA ScopeEntered ==
  ASSUME NEW J, Settles(J), NEW e \in Entry, e.k \in {"scope", "call"}, e.high = Over(J),
         NEW m \in Memories, Become(m), mode' = "eval", kont' = Append(J, e),
         Len(m.stack) = Over(J), Len(m.frames) = Cardinality(Scoped(J)) + 1
  PROVE  LispInv'
<1>1. Sized(e) /\ Fits(e) /\ Operands(e) = 0 /\ Opens(e) = 1
  BY DEF Sized, Fits, Operands, Opens
<1>2. Over(J) \in Nat
  BY OverIs
<1>3. /\ Settles(Append(J, e)) /\ Over(Append(J, e)) = Over(J)
      /\ Cardinality(Scoped(Append(J, e))) = Cardinality(Scoped(J)) + 1
  BY <1>1, <1>2, EntryAdded
<1>4. MemoryInv' /\ Len(stack') = Len(m.stack) /\ Len(frames') = Len(m.frames)
  BY NextMemory
<1>5. QED
  BY <1>3, <1>4, Entered

\* A let that opens its scope keeps the invariant: one frame for one entry,
LEMMA OpenScopeKeeps ==
  ASSUME LispInv, OpenScope
  PROVE  LispInv'
<1>1. PICK n \in 0 .. MaxArgs - 1 :
        \/ /\ Returning("let") /\ Top.left = 0
           /\ Enter(Append(Callers, [Top EXCEPT !.k = "scope", !.total = 1, !.left = n,
                                                !.names = <<>>]))
           /\ Become([Below(Memory) EXCEPT !.frames = Append(@, Frame(Top.names, Above))])
        \/ /\ mode = "eval"
           /\ Enter(Append(kont, [Pending("scope", 1, <<>>) EXCEPT !.left = n]))
           /\ Become([Memory EXCEPT !.frames = Append(@, <<>>)])
  BY DEF OpenScope
<1>2. n \in Nat
  BY BoundsAssumption
<1>3. CASE /\ Returning("let") /\ Top.left = 0
           /\ Enter(Append(Callers, [Top EXCEPT !.k = "scope", !.total = 1, !.left = n,
                                                !.names = <<>>]))
           /\ Become([Below(Memory) EXCEPT !.frames = Append(@, Frame(Top.names, Above))])
  <2> DEFINE f == Frame(Top.names, Above)
             b == Below(Memory)
             m == [b EXCEPT !.frames = Append(@, f)]
             none == <<>>
             e == [Top EXCEPT !.k = "scope", !.total = 1, !.left = n, !.names = none]
  <2>1. mode = "return" /\ kont # <<>> /\ Top.k = "let"
    BY <1>3, ReturningIs
  <2>2. /\ Settles(Callers) /\ Over(Callers) = Top.high /\ Top \in Entry
        /\ Len(frames) = Cardinality(Scoped(Callers)) + Opens(Top)
    BY <2>1, CallersAre
  <2>3. Opens(Top) = 0 /\ Cardinality(Scoped(Callers)) \in Nat
    BY <2>1, <2>2, ScopedIs DEF Opens, Settles, Stacked
  <2>4. e \in Entry /\ e.k = "scope" /\ e.high = Top.high
    <3>1. "scope" \in Keyword /\ 1 \in Nat /\ <<>> \in Seq(Name)
      BY DEF Keyword
    <3> DEFINE word == "scope"
    <3>2. none \in Seq(Name) /\ word \in Keyword
      BY <3>1
    <3> HIDE DEF none, word
    <3>3. \A d \in Entry : [d EXCEPT !.k = word, !.total = 1, !.left = n, !.names = none] \in Entry
      BY <1>2, <3>1, <3>2 DEF Entry
    <3>4. \A d \in Entry :
            /\ [d EXCEPT !.k = word, !.total = 1, !.left = n, !.names = none].k = word
            /\ [d EXCEPT !.k = word, !.total = 1, !.left = n, !.names = none].high = d.high
      BY DEF Entry
    <3>5. QED
      BY <2>2, <3>3, <3>4 DEF word
  <2>5. f \in Scopes /\ Top.high \in 0 .. Len(stack)
    BY <1>3, LetValues
  <2>6. b \in Memories /\ Len(b.stack) = Top.high /\ b.frames = frames
    BY <2>5, BelowHere DEF LispInv
  <2>7. kont' = Append(Callers, e) /\ mode' = "eval" /\ Become(m)
    BY <1>3 DEF Enter
  <2> HIDE DEF b, f, e
  <2>8. m \in Memories /\ Len(m.frames) = Len(b.frames) + 1 /\ m.stack = b.stack
    BY <2>5, <2>6, FrameOpened
  <2> HIDE DEF m
  <2>9. Len(m.stack) = Over(Callers) /\ Len(m.frames) = Cardinality(Scoped(Callers)) + 1
    BY <2>2, <2>3, <2>6, <2>8
  <2>10. QED
    BY <2>2, <2>4, <2>7, <2>8, <2>9, ScopeEntered
<1>4. CASE /\ mode = "eval"
           /\ Enter(Append(kont, [Pending("scope", 1, <<>>) EXCEPT !.left = n]))
           /\ Become([Memory EXCEPT !.frames = Append(@, <<>>)])
  <2> DEFINE d == Pending("scope", 1, <<>>)
             e == [d EXCEPT !.left = n]
             f == <<>>
             m == [Memory EXCEPT !.frames = Append(@, f)]
  <2>1. /\ MemoryInv /\ Settles(kont) /\ Len(stack) = Over(kont)
        /\ Len(frames) = Cardinality(Scoped(kont))
    BY <1>4, EvalIs
  <2>2. d \in Entry /\ d.high = Len(stack) /\ d.k = "scope"
    <3>1. "scope" \in Keyword /\ 1 \in Nat \ {0} /\ <<>> \in Seq(Name)
      BY DEF Keyword
    <3>2. QED
      BY <2>1, <3>1, PendingIs
  <2>3. kont' = Append(kont, e) /\ mode' = "eval" /\ Become(m)
    BY <1>4 DEF Enter
  <2>4. f \in Scopes
    BY DEF Scopes
  <2> HIDE DEF d, f
  <2>5. e \in Entry /\ e.k = "scope" /\ e.high = Len(stack)
    BY <1>2, <2>2 DEF Entry
  <2> HIDE DEF e
  <2>6. Memory \in Memories /\ Memory.stack = stack /\ Memory.frames = frames
    BY <2>1, PartsAre
  <2>7. m \in Memories /\ Len(m.frames) = Len(Memory.frames) + 1 /\ m.stack = Memory.stack
    BY <2>4, <2>6, FrameOpened
  <2> HIDE DEF m
  <2>8. Len(m.stack) = Over(kont) /\ Len(m.frames) = Cardinality(Scoped(kont)) + 1
    BY <2>1, <2>6, <2>7
  <2>9. QED
    BY <2>1, <2>3, <2>5, <2>7, <2>8, ScopeEntered
<1>5. QED
  BY <1>1, <1>3, <1>4

\* which is gone with it.
LEMMA EndScopeKeeps ==
  ASSUME LispInv, EndScope
  PROVE  LispInv'
<1>1. PICK k \in {"scope", "call"} : Returning(k)
  BY DEF EndScope
<1> DEFINE m == [Memory EXCEPT !.frames = Front(@)]
<1>2. Return(m) /\ kont' = Callers
  BY DEF EndScope
<1>3. /\ mode = "return" /\ kont # <<>> /\ Top.k = k /\ Operands(Top) \in Nat
      /\ Len(stack) = Top.high + Operands(Top) + 1
  BY <1>1, ReturningIs
<1>4. /\ Settles(Callers) /\ Over(Callers) = Top.high /\ Top.high \in Nat
      /\ Len(frames) = Cardinality(Scoped(Callers)) + Opens(Top)
  BY <1>3, CallersAre
<1>5. Operands(Top) = 0 /\ Opens(Top) = 1 /\ Cardinality(Scoped(Callers)) \in Nat
  BY <1>3, <1>4, ScopedIs DEF Operands, Opens, Settles, Stacked
<1>6. /\ Memory \in Memories /\ Memory.stack = stack /\ Memory.frames = frames
  BY PartsAre DEF LispInv
<1>7. 1 \in 0 .. Len(Memory.frames)
  BY <1>4, <1>5, <1>6
<1>8. m = [Memory EXCEPT !.frames = SubSeq(@, 1, Len(@) - 1)]
  BY DEF Front
<1> HIDE DEF m
<1>9. m \in Memories /\ Len(m.frames) = Len(Memory.frames) - 1 /\ m.stack = Memory.stack
  BY <1>6, <1>7, <1>8, FramesDropped
<1>10. Len(m.stack) = Over(Callers) + 1 /\ Len(m.frames) = Cardinality(Scoped(Callers))
  BY <1>3, <1>4, <1>5, <1>6, <1>9
<1>11. QED
  BY <1>2, <1>4, <1>9, <1>10, Returned

\* The end of a top-level form keeps the invariant.
LEMMA EndFormKeeps ==
  ASSUME LispInv, EndForm
  PROVE  LispInv'
<1>1. mode = "return" /\ kont = <<>> /\ mode' = "idle" /\ kont' = kont
  BY DEF EndForm
<1>2. PICK m \in MaybeGc(Popped(Memory, 1)) : Become(m)
  BY DEF EndForm
<1>3. 1 \in 0 .. Len(stack) /\ MemoryInv
  BY <1>1, ValueThere
<1> DEFINE p == Popped(Memory, 1)
<1>4. p \in Memories
  BY <1>3, PoppedHere
<1> HIDE DEF p
<1>5. m \in Memories
  BY <1>2, <1>4, MaybeGcIs DEF p
<1>6. MemoryInv'
  BY <1>2, <1>5, NextMemory
<1>7. KontInv'
  BY <1>1 DEF LispInv, KontInv, Settles
<1>8. QED
  BY <1>1, <1>6, <1>7 DEF LispInv, HeightInv

\* Calls of user functions are among the entries that have frames.
LEMMA CallsAreScopes ==
  ASSUME Stacked(kont)
  PROVE  Cardinality({i \in DOMAIN kont : kont[i].k = "call"})
           \in 0 .. Cardinality(Scoped(kont))
<1> DEFINE C == {i \in DOMAIN kont : kont[i].k = "call"}
           S == Scoped(kont)
<1>1. IsFiniteSet(S) /\ Cardinality(S) \in Nat
  BY ScopedIs DEF Stacked
<1>2. C \subseteq S
  BY DEF Scoped
<1> HIDE DEF C, S
<1>3. IsFiniteSet(C) /\ Cardinality(C) <= Cardinality(S) /\ Cardinality(C) \in Nat
  BY <1>1, <1>2, FS_Subset, FS_CardinalityType
<1>4. QED
  BY <1>1, <1>3 DEF C, S

\* What an error leaves: the values below the failing call, the frames that no
\* call has popped.
LEMMA FailMemory ==
  ASSUME LispInv, Fail
  PROVE  \E m \in Memories, k \in Nat :
           /\ \/ Calling /\ m = Below(Memory)
              \/ mode = "return" /\ m = Popped(Memory, 1)
              \/ m = Memory
           /\ k \in 0 .. Len(m.frames)
           /\ Become([m EXCEPT !.frames = SubSeq(@, 1, Len(@) - k)])
<1> DEFINE m == IF Calling THEN Below(Memory)
                ELSE IF mode = "return" THEN Popped(Memory, 1) ELSE Memory
           k == Cardinality({i \in DOMAIN kont : kont[i].k = "call"})
<1>1. Become([m EXCEPT !.frames = SubSeq(@, 1, Len(@) - k)])
  BY DEF Fail
<1>2. mode # "idle" /\ MemoryInv /\ Stacked(kont)
  <2>1. mode # "idle"
    BY CallingIs DEF Fail, Returning
  <2>2. QED
    BY <2>1 DEF LispInv, KontInv
<1>3. m \in Memories /\ m.frames = frames
  <2>1. CASE Calling
    BY <1>2, <2>1, CallingIs, BelowHere
  <2>2. CASE ~Calling /\ mode = "return"
    BY <1>2, <2>2, ValueThere, PoppedHere
  <2>3. CASE ~Calling /\ mode # "return"
    BY <1>2, <2>3, PartsAre
  <2>4. QED
    BY <2>1, <2>2, <2>3
<1>4. k \in 0 .. Len(frames) /\ k \in Nat
  <2>1. Len(frames) = Cardinality(Scoped(kont)) /\ Len(frames) \in Nat
    BY <1>2, PartsAre DEF LispInv, HeightInv
  <2>2. QED
    BY <1>2, <2>1, CallsAreScopes
<1>5. \/ Calling /\ m = Below(Memory)
      \/ mode = "return" /\ m = Popped(Memory, 1)
      \/ m = Memory
  OBVIOUS
<1> HIDE DEF m, k
<1>6. QED
  BY <1>1, <1>3, <1>4, <1>5

\* An error keeps the invariant: every Rust frame is gone, values and local frames are not.
LEMMA FailKeeps ==
  ASSUME LispInv, Fail
  PROVE  LispInv'
<1>1. PICK m \in Memories, k \in Nat :
        /\ k \in 0 .. Len(m.frames)
        /\ Become([m EXCEPT !.frames = SubSeq(@, 1, Len(@) - k)])
  BY FailMemory
<1> DEFINE n == [m EXCEPT !.frames = SubSeq(@, 1, Len(@) - k)]
<1>2. n \in Memories
  BY <1>1, FramesDropped
<1> HIDE DEF n
<1>3. MemoryInv'
  BY <1>1, <1>2, NextMemory DEF n
<1>4. mode' = "idle" /\ kont' = <<>>
  BY DEF Fail
<1>5. KontInv'
  BY <1>4 DEF KontInv, Settles, Stacked
<1>6. QED
  BY <1>3, <1>4, <1>5 DEF LispInv, HeightInv

\* A user function is entered with one frame for its parameters.
LEMMA CallKeeps ==
  ASSUME LispInv, Call
  PROVE  LispInv'
<1> DEFINE b == Below(Memory)
           e == [Top EXCEPT !.k = "call", !.total = 1, !.left = 0]
<1>1. PICK params \in Names(Len(Args)) :
        Become([b EXCEPT !.frames = Append(@, Frame(params, Args))])
  BY DEF Call
<1>2. Calling /\ kont' = Append(Callers, e) /\ mode' = "eval"
  BY DEF Call, Enter
<1>3. /\ kont # <<>> /\ mode # "idle" /\ Top.high \in 0 .. Len(stack)
      /\ Args \in Seq(Val) /\ Len(Args) \in Nat /\ Len(frames) = Cardinality(Scoped(Callers))
  BY <1>2, CallingIs
<1>4. Settles(Callers) /\ Over(Callers) = Top.high /\ Top \in Entry
  BY <1>3, CallersAre
<1>5. e \in Entry /\ e.k = "call" /\ e.high = Top.high
  <2> DEFINE word == "call"
  <2>1. word \in Keyword
    BY DEF Keyword
  <2> HIDE DEF word
  <2>2. \A d \in Entry : [d EXCEPT !.k = word, !.total = 1, !.left = 0] \in Entry
    BY <2>1 DEF Entry
  <2>3. \A d \in Entry : /\ [d EXCEPT !.k = word, !.total = 1, !.left = 0].k = word
                         /\ [d EXCEPT !.k = word, !.total = 1, !.left = 0].high = d.high
    BY DEF Entry
  <2>4. QED
    BY <1>4, <2>2, <2>3 DEF word
<1> DEFINE f == Frame(params, Args)
           m == [b EXCEPT !.frames = Append(@, f)]
<1>6. f \in Scopes
  <2>1. params \in Seq(Name) /\ Len(params) = Len(Args)
    BY <1>3, NamesAre
  <2>2. QED
    BY <1>3, <2>1, FrameIs
<1>7. b \in Memories /\ Len(b.stack) = Top.high /\ b.frames = frames
  BY <1>3, BelowHere DEF LispInv
<1>8. Become(m)
  BY <1>1
<1> HIDE DEF b, e, f
<1>9. m \in Memories /\ Len(m.frames) = Len(b.frames) + 1 /\ m.stack = b.stack
  BY <1>6, <1>7, FrameOpened
<1> HIDE DEF m
<1>10. Len(m.stack) = Over(Callers) /\ Len(m.frames) = Cardinality(Scoped(Callers)) + 1
  BY <1>3, <1>4, <1>7, <1>9
<1>11. QED
  BY <1>2, <1>4, <1>5, <1>8, <1>9, <1>10, ScopeEntered

-----------------------------------------------------------------------------
(* Builtins: whatever moves while they run, variables and pending values   *)
(* are what they were.                                                     *)

\* An immediate, or a word of an object that is where it says.
Sound(v, h) == v = Imm \/ (v \in Words /\ Current(v, h))
Good(m) == Solid(m.heap) /\ \A v \in Roots(m) : Sound(v, m.heap)

\* The variables of n, and the first k values on its stack, are the present ones.
Keeps(n, k) ==
  /\ n \in Memories
  /\ k \in Nat /\ k <= Len(n.stack) /\ k <= Len(stack)
  /\ \A i \in 1 .. k : Alike(stack[i], n.stack[i], heap, n.heap)
  /\ Len(n.frames) = Len(frames)
  /\ \A f \in DOMAIN frames :
       /\ Len(n.frames[f]) = Len(frames[f])
       /\ \A b \in DOMAIN frames[f] :
            /\ n.frames[f][b][1] = frames[f][b][1]
            /\ Alike(frames[f][b][2], n.frames[f][b][2], heap, n.heap)
  /\ DOMAIN n.globals = DOMAIN globals
  /\ \A x \in DOMAIN globals : Alike(globals[x], n.globals[x], heap, n.heap)

\* A builtin may end in n: one value, its result, on what was below its arguments.
Yields(n) ==
  /\ Keeps(n, Top.high)
  /\ Len(n.stack) = Top.high + 1
  /\ AnyInit = FALSE /\ Good(Memory) => Good(n)

\* A safepoint keeps everything.
LEMMA KeepsAll ==
  ASSUME LispInv, NEW m \in Memories, Follows(Memory, m)
  PROVE  Keeps(m, Len(stack)) /\ Len(m.stack) = Len(stack)
BY PartsAre DEF LispInv, Follows, SameSlots, Keeps

\* So does an operation that leaves the variables, the first values and what was current.
LEMMA KeepsOn ==
  ASSUME NEW k, NEW m, Keeps(m, k), NEW n \in Memories, NEW j \in Nat, j <= k, j <= Len(n.stack),
         n.frames = m.frames, n.globals = m.globals,
         \A i \in 1 .. j : n.stack[i] = m.stack[i],
         \A v : Current(v, m.heap) => Current(v, n.heap)
  PROVE  Keeps(n, j)
<1>1. k \in Nat /\ Len(n.stack) \in Nat /\ j <= Len(stack) /\ \A i \in 1 .. j : i \in 1 .. k
  <2>1. Len(n.stack) \in Nat
    BY MemoryIs
  <2>2. QED
    BY <2>1 DEF Keeps
<1>2. \A v, w : Alike(v, w, heap, m.heap) => Alike(v, w, heap, n.heap)
  BY DEF Alike
<1>3. QED
  BY <1>1, <1>2 DEF Keeps

\* A present value after whatever kept it is settled to itself.
LEMMA NowAlike ==
  ASSUME NEW g \in Heaps, NEW v \in Val, NEW w \in Val, Alike(v, w, heap, g),
         v \in Words => Current(v, heap) /\ v[3] = 0
  PROVE  NowIn(w, g) = v
<1>1. CASE v \notin Words
  BY <1>1, NowIs DEF Alike
<1>2. CASE v \in Words
  <2>1. w \in Words /\ Current(w, g) /\ w[1] = v[1] /\ w[2] = v[2]
    BY <1>2 DEF Alike
  <2>2. NowIn(w, g) = <<v[1], v[2], 0>>
    BY <2>1, NowIs
  <2>3. v = <<v[1], v[2], 0>>
    BY <1>2, WordsAre
  <2>4. QED
    BY <2>2, <2>3
<1>3. QED
  BY <1>1, <1>2

\* After a step to n the variables and the first k values are unchanged.
LEMMA KeptIs ==
  ASSUME MemoryInv, NEW k, NEW n, Keeps(n, k), Become(n)
  PROVE  /\ frames' = frames /\ globals' = globals
         /\ SubSeq(stack', 1, k) = SubSeq(stack, 1, k)
         /\ Len(stack') = Len(n.stack)
<1> DEFINE s == Settled(n)
<1>1. n \in Memories /\ k \in Nat /\ k <= Len(n.stack) /\ k <= Len(stack)
  BY DEF Keeps
<1>2. /\ Memory \in Memories /\ Memory.stack = stack /\ Memory.frames = frames
      /\ Memory.globals = globals /\ Memory.heap = heap
      /\ stack \in Seq(Val) /\ frames \in Seq(Scopes) /\ Len(stack) \in Nat
  BY PartsAre
<1>3. /\ s \in Memories /\ SameSlots(n, s)
      /\ \A i \in DOMAIN n.stack : s.stack[i] = NowIn(n.stack[i], n.heap)
      /\ \A f \in DOMAIN n.frames : \A b \in DOMAIN n.frames[f] :
           s.frames[f][b][2] = NowIn(n.frames[f][b][2], n.heap)
      /\ \A x \in DOMAIN n.globals : s.globals[x] = NowIn(n.globals[x], n.heap)
  BY <1>1, SettledIs
<1>4. stack' = s.stack /\ frames' = s.frames /\ globals' = s.globals
  BY DEF Become
<1> HIDE DEF s
<1>5. ASSUME NEW v \in Roots(Memory), NEW w \in Roots(n), Alike(v, w, heap, n.heap)
      PROVE  NowIn(w, n.heap) = v
  <2>1. v \in Val /\ w \in Val /\ n.heap \in Heaps
    BY <1>1, <1>2, RootsAre, MemoryIs
  <2>2. v \in Words => Current(v, heap) /\ v[3] = 0
    BY <1>2 DEF MemoryInv, RootsCurrent
  <2>3. QED
    BY <1>5, <2>1, <2>2, NowAlike
<1>6. /\ DOMAIN s.stack = DOMAIN n.stack /\ DOMAIN s.frames = DOMAIN n.frames
      /\ DOMAIN s.globals = DOMAIN n.globals
      /\ \A f \in DOMAIN n.frames : DOMAIN s.frames[f] = DOMAIN n.frames[f]
  BY <1>1, <1>3, SlotsAre
<1>7. SubSeq(s.stack, 1, k) = SubSeq(stack, 1, k)
  <2>1. \A i \in 1 .. k : i \in DOMAIN stack /\ i \in DOMAIN n.stack
    BY <1>1, <1>2, MemoryIs
  <2>2. \A i \in 1 .. k : s.stack[i] = stack[i]
    <3> SUFFICES ASSUME NEW i \in 1 .. k PROVE s.stack[i] = stack[i]
      OBVIOUS
    <3>1. stack[i] \in Roots(Memory) /\ n.stack[i] \in Roots(n)
      BY <1>1, <1>2, <2>1, RootsAre
    <3>2. Alike(stack[i], n.stack[i], heap, n.heap)
      BY DEF Keeps
    <3>3. QED
      BY <1>3, <1>5, <2>1, <3>1, <3>2
  <2>3. s.stack \in Seq(Val) /\ Len(s.stack) = Len(n.stack)
    BY <1>3, MemoryIs DEF SameSlots
  <2>4. k \in 0 .. Len(s.stack) /\ k \in 0 .. Len(stack)
    BY <1>1, <1>2, <2>3
  <2>5. /\ SubSeq(s.stack, 1, k) \in Seq(Val) /\ Len(SubSeq(s.stack, 1, k)) = k
        /\ \A i \in 1 .. k : SubSeq(s.stack, 1, k)[i] = s.stack[i]
    BY <2>3, <2>4, Shortened
  <2>6. /\ SubSeq(stack, 1, k) \in Seq(Val) /\ Len(SubSeq(stack, 1, k)) = k
        /\ \A i \in 1 .. k : SubSeq(stack, 1, k)[i] = stack[i]
    BY <1>2, <2>4, Shortened
  <2> DEFINE a == SubSeq(s.stack, 1, k)
             b == SubSeq(stack, 1, k)
  <2>7. a \in Seq(Val) /\ b \in Seq(Val) /\ Len(a) = k /\ Len(b) = k /\ \A i \in 1 .. k : a[i] = b[i]
    BY <2>2, <2>5, <2>6
  <2> HIDE DEF a, b
  <2>8. a = b
    BY <2>7
  <2>9. QED
    BY <2>8 DEF a, b
<1>8. s.frames = frames
  <2>1. DOMAIN n.frames = DOMAIN frames /\ \A f \in DOMAIN frames : DOMAIN n.frames[f] = DOMAIN frames[f]
    <3>1. n.frames \in Seq(Scopes) /\ Len(n.frames) = Len(frames)
      BY <1>1, MemoryIs DEF Keeps
    <3>2. DOMAIN n.frames = DOMAIN frames
      BY <1>2, <3>1
    <3>3. \A f \in DOMAIN frames : n.frames[f] \in Scopes /\ frames[f] \in Scopes
                                   /\ Len(n.frames[f]) = Len(frames[f])
      BY <1>2, <3>1, <3>2 DEF Keeps
    <3>4. QED
      BY <3>2, <3>3 DEF Scopes
  <2>2. ASSUME NEW f \in DOMAIN frames PROVE s.frames[f] = frames[f]
    <3>1. s.frames[f] \in Seq(Name \X Val) /\ frames[f] \in Seq(Name \X Val)
      BY <1>2, <1>3, <1>6, <2>1, MemoryIs DEF Scopes
    <3>2. DOMAIN s.frames[f] = DOMAIN frames[f]
      BY <1>6, <2>1
    <3>3. ASSUME NEW b \in DOMAIN frames[f] PROVE s.frames[f][b] = frames[f][b]
      <4>1. n.frames[f][b][1] = frames[f][b][1]
            /\ Alike(frames[f][b][2], n.frames[f][b][2], heap, n.heap)
        BY DEF Keeps
      <4>2. frames[f][b][2] \in Roots(Memory) /\ n.frames[f][b][2] \in Roots(n)
        BY <1>1, <1>2, <2>1, RootsAre
      <4>3. s.frames[f][b][2] = frames[f][b][2]
        BY <1>3, <1>5, <2>1, <4>1, <4>2
      <4>4. s.frames[f][b][1] = frames[f][b][1]
        BY <1>3, <2>1, <4>1 DEF SameSlots
      <4>5. s.frames[f][b] \in Name \X Val /\ frames[f][b] \in Name \X Val
        BY <3>1, <3>2
      <4>6. QED
        BY <4>3, <4>4, <4>5
    <3> DEFINE a == s.frames[f]
               c == frames[f]
    <3>4. a \in Seq(Name \X Val) /\ c \in Seq(Name \X Val) /\ DOMAIN a = DOMAIN c
          /\ \A b \in DOMAIN c : a[b] = c[b]
      BY <3>1, <3>2, <3>3
    <3> HIDE DEF a, c
    <3>5. a = c
      BY <3>4
    <3>6. QED
      BY <3>5 DEF a, c
  <2>3. s.frames \in Seq(Scopes) /\ DOMAIN s.frames = DOMAIN frames
    BY <1>3, <1>6, <2>1, MemoryIs
  <2>4. QED
    BY <1>2, <2>2, <2>3
<1>9. s.globals = globals
  <2>1. /\ DOMAIN s.globals = DOMAIN globals /\ s.globals \in [DOMAIN s.globals -> Val]
        /\ globals \in [DOMAIN globals -> Val]
    BY <1>2, <1>3, <1>6, MemoryIs DEF Keeps
  <2>2. ASSUME NEW x \in DOMAIN globals PROVE s.globals[x] = globals[x]
    <3>1. Alike(globals[x], n.globals[x], heap, n.heap) /\ x \in DOMAIN n.globals
      BY DEF Keeps
    <3>2. globals[x] \in Roots(Memory) /\ n.globals[x] \in Roots(n)
      BY <1>1, <1>2, <3>1, RootsAre
    <3>3. QED
      BY <1>3, <1>5, <3>1, <3>2
  <2>3. QED
    BY <2>1, <2>2
<1>10. QED
  BY <1>3, <1>4, <1>7, <1>8, <1>9 DEF SameSlots

\* A builtin that ends in n.
LEMMA ResultIs ==
  ASSUME LispInv, Calling \/ mode = "list", NEW n, Keeps(n, Top.high), Len(n.stack) = Top.high + 1,
         Result(n)
  PROVE  /\ LispInv'
         /\ frames' = frames /\ globals' = globals
         /\ SubSeq(stack', 1, Top.high) = SubSeq(stack, 1, Top.high)
         /\ Len(stack') = Top.high + 1
<1>1. /\ kont # <<>> /\ mode # "idle" /\ Opens(Top) = 0
      /\ Settles(Callers) /\ Over(Callers) = Top.high /\ Top.high \in Nat
      /\ Len(frames) = Cardinality(Scoped(Callers))
  <2>1. kont # <<>> /\ mode # "idle" /\ Top.k = "args"
    BY DEF Calling, Returning, LispInv, KontInv
  <2>2. /\ Settles(Callers) /\ Over(Callers) = Top.high /\ Top.high \in Nat /\ Opens(Top) = 0
        /\ Len(frames) = Cardinality(Scoped(Callers)) + Opens(Top)
    BY <2>1, CallersAre DEF Opens
  <2>3. Cardinality(Scoped(Callers)) \in Nat
    BY <2>2, ScopedIs DEF Settles, Stacked
  <2>4. QED
    BY <2>1, <2>2, <2>3
<1>2. n \in Memories /\ Len(n.frames) = Len(frames)
  BY DEF Keeps
<1>3. Return(n) /\ kont' = Callers /\ Become(n)
  BY DEF Result, Return
<1>4. LispInv'
  BY <1>1, <1>2, <1>3, Returned
<1>5. QED
  BY <1>3, <1>4, KeptIs DEF LispInv

\* Roots that are all sound stay so when the stack holds sound values only.
LEMMA GoodOn ==
  ASSUME NEW m \in Memories, Good(m), NEW n \in Memories,
         n.frames = m.frames, n.globals = m.globals, Solid(n.heap),
         \A v : Current(v, m.heap) => Current(v, n.heap),
         \A i \in DOMAIN n.stack : Sound(n.stack[i], n.heap)
  PROVE  Good(n)
<1>1. \A v \in Roots(m) : Sound(v, n.heap)
  BY DEF Good, Sound
<1>2. ASSUME NEW v \in Roots(n) PROVE Sound(v, n.heap)
  <2>1. CASE \E f \in DOMAIN n.frames : \E b \in DOMAIN n.frames[f] : v = n.frames[f][b][2]
    BY <1>1, <2>1, RootsAre
  <2>2. CASE \E x \in DOMAIN n.globals : v = n.globals[x]
    BY <1>1, <2>2, RootsAre
  <2>3. QED
    BY <2>1, <2>2, RootsAre
<1>3. QED
  BY <1>2 DEF Good

\* A memory with fewer values, or with other values of the same memory, on its stack.
LEMMA GoodStack ==
  ASSUME NEW m \in Memories, Good(m), NEW n \in Memories,
         n.frames = m.frames, n.globals = m.globals, n.heap = m.heap,
         \A i \in DOMAIN n.stack : n.stack[i] = Imm \/ n.stack[i] \in Roots(m)
  PROVE  Good(n)
<1>1. \A i \in DOMAIN n.stack : Sound(n.stack[i], n.heap)
  BY DEF Good, Sound
<1>2. QED
  BY <1>1, GoodOn DEF Good

\* A safepoint leaves no stale word.
LEMMA GoodFollows ==
  ASSUME NEW m \in Memories, Good(m), NEW n \in Memories, Follows(m, n), Solid(n.heap)
  PROVE  Good(n)
<1>1. /\ DOMAIN n.stack = DOMAIN m.stack /\ DOMAIN n.frames = DOMAIN m.frames
      /\ DOMAIN n.globals = DOMAIN m.globals
      /\ \A f \in DOMAIN m.frames : DOMAIN n.frames[f] = DOMAIN m.frames[f]
  BY SlotsAre DEF Follows
<1>2. \A v \in Roots(m) : \A w : Alike(v, w, m.heap, n.heap) => Sound(w, n.heap)
  BY WordsAre DEF Good, Sound, Alike
<1>3. ASSUME NEW w \in Roots(n) PROVE Sound(w, n.heap)
  <2>1. CASE \E i \in DOMAIN n.stack : w = n.stack[i]
    BY <1>1, <1>2, <2>1, RootsAre DEF Follows
  <2>2. CASE \E f \in DOMAIN n.frames : \E b \in DOMAIN n.frames[f] : w = n.frames[f][b][2]
    BY <1>1, <1>2, <2>2, RootsAre DEF Follows
  <2>3. CASE \E x \in DOMAIN n.globals : w = n.globals[x]
    BY <1>1, <1>2, <2>3, RootsAre DEF Follows
  <2>4. QED
    BY <2>1, <2>2, <2>3, RootsAre
<1>4. QED
  BY <1>3 DEF Good

\* An object with sound fields is allocated; its card may be clean only when it
\* holds no word.
LEMMA GoodGrown ==
  ASSUME NEW m \in Memories, Good(m), NEW n, NEW w, NEW fields \in Seq(Val), NEW dirty \in BOOLEAN,
         OneMore(m, n, w, fields, dirty),
         \A k \in DOMAIN fields : Sound(fields[k], m.heap),
         dirty \/ \A k \in DOMAIN fields : fields[k] \notin Words
  PROVE  Good(n)
<1>1. /\ n \in Memories /\ n.frames = m.frames /\ n.globals = m.globals
      /\ DOMAIN n.heap = DOMAIN m.heap \cup {w[2]}
      /\ \A v : Current(v, m.heap) => Current(v, n.heap)
      /\ n.stack = Append(m.stack, w) /\ w \in Words /\ Current(w, n.heap)
  BY DEF OneMore
<1>2. ASSUME NEW i \in DOMAIN n.stack PROVE Sound(n.stack[i], n.heap)
  <2>1. m.stack \in Seq(Val) /\ Len(m.stack) \in Nat /\ w \in Val
    BY <1>1, MemoryIs DEF Val
  <2>2. i \in DOMAIN m.stack \/ i = Len(m.stack) + 1
    BY <1>1, <2>1
  <2>3. CASE i \in DOMAIN m.stack
    <3>1. n.stack[i] = m.stack[i] /\ m.stack[i] \in Roots(m)
      BY <1>1, <2>1, <2>3, RootsAre
    <3>2. QED
      BY <1>1, <3>1 DEF Good, Sound
  <2>4. CASE i = Len(m.stack) + 1
    BY <1>1, <2>1, <2>4 DEF Sound
  <2>5. QED
    BY <2>2, <2>3, <2>4
<1>3. Solid(n.heap)
  <2>1. ASSUME NEW i \in DOMAIN n.heap, NEW k \in DOMAIN n.heap[i].fields
        PROVE  Sound(n.heap[i].fields[k], n.heap)
    <3>1. CASE i = w[2]
      BY <1>1, <3>1 DEF OneMore, Sound
    <3>2. CASE i # w[2]
      <4>1. i \in DOMAIN m.heap /\ n.heap[i] = m.heap[i]
        BY <1>1, <3>2 DEF OneMore
      <4>2. QED
        BY <1>1, <4>1 DEF Good, Solid, Sound
    <3>3. QED
      BY <3>1, <3>2
  <2>2. ASSUME NEW i \in DOMAIN n.heap
        PROVE  n.heap[i].dirty \/ WordsIn(ToSet(n.heap[i].fields)) = {}
    <3>1. CASE i = w[2]
      <4>1. n.heap[i].fields = fields /\ n.heap[i].dirty = dirty
        BY <3>1 DEF OneMore
      <4>2. ASSUME \A k \in DOMAIN fields : fields[k] \notin Words
            PROVE  WordsIn(ToSet(fields)) = {}
        <5>1. \A v \in ToSet(fields) : v \in Val /\ v \notin Words
          BY <4>2 DEF ToSet
        <5>2. QED
          BY <5>1, WordsAre DEF WordsIn
      <4>3. QED
        BY <4>1, <4>2
    <3>2. CASE i # w[2]
      <4>1. i \in DOMAIN m.heap /\ n.heap[i] = m.heap[i]
        BY <1>1, <3>2 DEF OneMore
      <4>2. m.heap[i].dirty \/ WordsIn(ToSet(m.heap[i].fields)) = {}
        BY <4>1 DEF Good, Solid, Noted
      <4>3. QED
        BY <4>1, <4>2
    <3>3. QED
      BY <3>1, <3>2
  <2>3. QED
    BY <2>1, <2>2 DEF Solid, Noted, Sound
<1>4. QED
  BY <1>1, <1>2, <1>3, GoodOn

\* What lies between two steps is good when what was settled was.
LEMMA GoodNext ==
  ASSUME NEW m \in Memories, Good(m), Become(m)
  PROVE  Good(Memory)'
<1> DEFINE n == Settled(m)
<1>1. Memory' = n
  BY BecomeIs
<1>2. /\ n \in Memories /\ SameSlots(m, n) /\ RootsCurrent(n)
      /\ \A i \in DOMAIN m.stack : n.stack[i] = NowIn(m.stack[i], m.heap)
      /\ \A f \in DOMAIN m.frames : \A b \in DOMAIN m.frames[f] :
           n.frames[f][b][2] = NowIn(m.frames[f][b][2], m.heap)
      /\ \A x \in DOMAIN m.globals : n.globals[x] = NowIn(m.globals[x], m.heap)
      /\ DOMAIN n.heap \subseteq DOMAIN m.heap
      /\ \A i \in DOMAIN n.heap :
           /\ DOMAIN n.heap[i].fields = DOMAIN m.heap[i].fields
           /\ \A k \in DOMAIN m.heap[i].fields :
                /\ n.heap[i].fields[k] = NowIn(m.heap[i].fields[k], m.heap)
                /\ n.heap[i].fields[k] \in Words => Current(n.heap[i].fields[k], n.heap)
      /\ Noted(m.heap) => \A i \in DOMAIN n.heap : n.heap[i].dirty
  BY SettledIs
<1> HIDE DEF n
<1>3. /\ DOMAIN n.stack = DOMAIN m.stack /\ DOMAIN n.frames = DOMAIN m.frames
      /\ DOMAIN n.globals = DOMAIN m.globals
      /\ \A f \in DOMAIN m.frames : DOMAIN n.frames[f] = DOMAIN m.frames[f]
  BY <1>2, SlotsAre
<1>4. \A v : Sound(v, m.heap) => NowIn(v, m.heap) = Imm \/ NowIn(v, m.heap) \in Words
  <2>1. m.heap \in Heaps /\ \A v : Sound(v, m.heap) => v \in Val
    BY MemoryIs, WordsAre DEF Sound, Val
  <2>2. QED
    BY <2>1, NowIs, WordsAre DEF Sound
<1>5. ASSUME NEW w \in Roots(n) PROVE Sound(w, n.heap)
  <2>1. w = Imm \/ w \in Words
    <3>1. CASE \E i \in DOMAIN n.stack : w = n.stack[i]
      BY <1>2, <1>3, <1>4, <3>1, RootsAre DEF Good
    <3>2. CASE \E f \in DOMAIN n.frames : \E b \in DOMAIN n.frames[f] : w = n.frames[f][b][2]
      BY <1>2, <1>3, <1>4, <3>2, RootsAre DEF Good
    <3>3. CASE \E x \in DOMAIN n.globals : w = n.globals[x]
      BY <1>2, <1>3, <1>4, <3>3, RootsAre DEF Good
    <3>4. QED
      BY <1>2, <3>1, <3>2, <3>3, RootsAre
  <2>2. QED
    BY <1>2, <2>1 DEF RootsCurrent, Sound
<1>6. ASSUME NEW i \in DOMAIN n.heap, NEW k \in DOMAIN n.heap[i].fields
      PROVE  Sound(n.heap[i].fields[k], n.heap)
  <2>1. Sound(m.heap[i].fields[k], m.heap)
    BY <1>2 DEF Good, Solid, Sound
  <2>2. n.heap[i].fields[k] = Imm \/ n.heap[i].fields[k] \in Words
    BY <1>2, <1>4, <2>1
  <2>3. QED
    BY <1>2, <2>2 DEF Sound
<1>7. Noted(n.heap)
  BY <1>2 DEF Good, Solid, Noted
<1>8. Good(n)
  BY <1>5, <1>6, <1>7 DEF Good, Solid, Sound
<1>9. QED
  BY <1>1, <1>8

\* New fields, or a new field, that are sound.
LEMMA GoodFilled ==
  ASSUME NEW m \in Memories, Good(m), NEW i \in DOMAIN m.heap, NEW n \in Memories,
         NEW values \in Seq(Val), NEW h,
         n.stack = m.stack, n.frames = m.frames, n.globals = m.globals,
         h = n.heap, DOMAIN h = DOMAIN m.heap,
         \A k \in DOMAIN m.heap : h[k].kind = m.heap[k].kind /\ h[k].moves = m.heap[k].moves,
         \A k \in DOMAIN m.heap \ {i} : h[k] = m.heap[k],
         h[i].fields = values, h[i].dirty \/ values = <<>>,
         \A k \in DOMAIN values : Sound(values[k], m.heap)
  PROVE  Good(n)
<1>1. \A v : Current(v, m.heap) => Current(v, h)
  BY DEF Current
<1>2. ASSUME NEW j \in DOMAIN h, NEW k \in DOMAIN h[j].fields
      PROVE  Sound(h[j].fields[k], h)
  <2>1. CASE j = i
    BY <1>1, <2>1 DEF Sound
  <2>2. CASE j # i
    <3>1. j \in DOMAIN m.heap /\ h[j] = m.heap[j]
      BY <2>2
    <3>2. QED
      BY <1>1, <3>1 DEF Good, Solid, Sound
  <2>3. QED
    BY <2>1, <2>2
<1>3. ASSUME NEW j \in DOMAIN h PROVE h[j].dirty \/ WordsIn(ToSet(h[j].fields)) = {}
  <2>1. CASE j = i
    <3>1. WordsIn(ToSet(<<>>)) = {}
      BY DEF WordsIn, ToSet
    <3>2. QED
      BY <2>1, <3>1
  <2>2. CASE j # i
    <3>1. j \in DOMAIN m.heap /\ h[j] = m.heap[j]
      BY <2>2
    <3>2. m.heap[j].dirty \/ WordsIn(ToSet(m.heap[j].fields)) = {}
      BY <3>1 DEF Good, Solid, Noted
    <3>3. QED
      BY <3>1, <3>2
  <2>3. QED
    BY <2>1, <2>2
<1>4. Solid(h)
  BY <1>2, <1>3 DEF Solid, Noted, Sound
<1>5. \A j \in DOMAIN n.stack : Sound(n.stack[j], h)
  BY <1>1, RootsAre DEF Good, Sound
<1>6. QED
  BY <1>1, <1>4, <1>5, GoodOn

\* A safepoint before a builtin goes on.
LEMMA SafeHere ==
  ASSUME LispInv, NEW m \in MaybeGc(Memory)
  PROVE  /\ m \in Memories /\ Keeps(m, Len(stack)) /\ Len(m.stack) = Len(stack)
         /\ Good(Memory) => Good(m)
<1>1. Memory \in Memories
  BY PartsAre DEF LispInv
<1>2. m \in Memories /\ Follows(Memory, m) /\ (Solid(Memory.heap) => Solid(m.heap))
  BY <1>1, MaybeGcIs
<1>3. Good(Memory) => Good(m)
  BY <1>1, <1>2, GoodFollows DEF Good
<1>4. QED
  BY <1>2, <1>3, KeepsAll

\* So does no safepoint.
LEMMA NoSafepoint ==
  ASSUME LispInv
  PROVE  /\ Memory \in Memories /\ Keeps(Memory, Len(stack)) /\ Len(Memory.stack) = Len(stack)
         /\ Memory.heap = heap
BY PartsAre, FollowsItself, KeepsAll DEF LispInv

\* The arguments are taken off the stack.
LEMMA BelowKeeps ==
  ASSUME LispInv, Calling, NEW m \in Memories, Keeps(m, Len(stack)), Len(m.stack) = Len(stack)
  PROVE  LET b == Below(m) IN
         /\ b \in Memories /\ Keeps(b, Top.high) /\ Len(b.stack) = Top.high
         /\ b.heap = m.heap /\ b.frames = m.frames /\ b.globals = m.globals
         /\ Good(m) => Good(b)
<1> DEFINE b == Below(m)
           t == Top.high
<1>1. t \in 0 .. Len(stack) /\ t \in Nat /\ Len(stack) \in Nat
  BY CallingIs, PartsAre DEF LispInv
<1>2. /\ b \in Memories /\ b.stack = SubSeq(m.stack, 1, t) /\ Len(b.stack) = t
      /\ b.heap = m.heap /\ b.frames = m.frames /\ b.globals = m.globals
  BY <1>1, BelowIs
<1>3. m.stack \in Seq(Val) /\ \A i \in 1 .. t : SubSeq(m.stack, 1, t)[i] = m.stack[i]
  <2> HIDE DEF t
  <2>1. QED
    BY <1>1, MemoryIs, Shortened
<1> HIDE DEF b, t
<1>4. \A i \in 1 .. t : b.stack[i] = m.stack[i] /\ i \in DOMAIN m.stack
  BY <1>1, <1>2, <1>3
<1>5. Keeps(b, t)
  BY <1>1, <1>2, <1>4, KeepsOn
<1>6. ASSUME Good(m) PROVE Good(b)
  <2>1. b.stack \in Seq(Val)
    BY <1>2, MemoryIs
  <2>2. \A i \in DOMAIN b.stack : b.stack[i] \in Roots(m)
    BY <1>2, <1>4, <2>1, RootsAre
  <2>3. QED
    BY <1>2, <1>6, <2>2, GoodStack
<1>7. QED
  BY <1>2, <1>5, <1>6 DEF b, t

\* The result is pushed.
LEMMA PushedYields ==
  ASSUME NEW m, Keeps(m, Top.high), Len(m.stack) = Top.high, NEW v \in Val,
         AnyInit = FALSE /\ Good(Memory) => Good(m) /\ Sound(v, m.heap)
  PROVE  Yields(Pushed(m, <<v>>))
<1> DEFINE n == Pushed(m, <<v>>)
           t == Top.high
<1>1. m \in Memories /\ <<v>> \in Seq(Val) /\ Len(<<v>>) = 1 /\ <<v>>[1] = v /\ t \in Nat
  BY Literals DEF Keeps
<1>2. /\ n \in Memories /\ n.stack = m.stack \o <<v>> /\ Len(n.stack) = t + 1
      /\ n.heap = m.heap /\ n.frames = m.frames /\ n.globals = m.globals
  BY <1>1, PushedIs
<1>3. /\ \A i \in 1 .. t : n.stack[i] = m.stack[i] /\ i \in DOMAIN m.stack
      /\ n.stack[t + 1] = v
  <2>1. m.stack \in Seq(Val) /\ Len(m.stack) = t
    BY <1>1, MemoryIs
  <2>2. \A i \in 1 .. t : (m.stack \o <<v>>)[i] = m.stack[i] /\ i \in DOMAIN m.stack
    BY <1>1, <2>1, SMTT(30)
  <2>3. (m.stack \o <<v>>)[t + 1] = v
    BY <1>1, <2>1, SMTT(30)
  <2>4. QED
    BY <1>2, <2>2, <2>3
<1>4. Keeps(m, t)
  OBVIOUS
<1> HIDE DEF n, t
<1>5. Keeps(n, t)
  <2>1. t <= t /\ t <= Len(n.stack) /\ \A u : Current(u, m.heap) => Current(u, n.heap)
    BY <1>1, <1>2
  <2>2. QED
    BY <1>1, <1>2, <1>3, <1>4, <2>1, KeepsOn
<1>6. ASSUME AnyInit = FALSE, Good(Memory) PROVE Good(n)
  <2>1. Good(m) /\ Sound(v, m.heap)
    BY <1>6
  <2>2. n.stack \in Seq(Val)
    BY <1>2, MemoryIs
  <2>3. ASSUME NEW i \in DOMAIN n.stack PROVE Sound(n.stack[i], n.heap)
    <3>1. i \in 1 .. t \/ i = t + 1
      BY <1>1, <1>2, <2>2
    <3>2. CASE i \in 1 .. t
      BY <1>1, <1>2, <1>3, <2>1, <3>2, RootsAre DEF Good
    <3>3. CASE i = t + 1
      BY <1>2, <1>3, <2>1, <3>3
    <3>4. QED
      BY <3>1, <3>2, <3>3
  <2>4. QED
    BY <1>1, <1>2, <2>1, <2>3, GoodOn DEF Good
<1>7. QED
  BY <1>2, <1>5, <1>6 DEF Yields, n, t

\* OneMore is kept and good.
LEMMA GrownKeeps ==
  ASSUME NEW m, NEW k, Keeps(m, k), NEW n, NEW w, NEW fields \in Seq(Val), NEW dirty \in BOOLEAN,
         OneMore(m, n, w, fields, dirty)
  PROVE  Keeps(n, k)
<1>1. /\ m \in Memories /\ n \in Memories /\ k \in Nat /\ k <= Len(m.stack) /\ w \in Words
      /\ n.stack = Append(m.stack, w) /\ Len(n.stack) = Len(m.stack) + 1
      /\ n.frames = m.frames /\ n.globals = m.globals
      /\ \A v : Current(v, m.heap) => Current(v, n.heap)
  BY DEF Keeps, OneMore
<1>2. m.stack \in Seq(Val) /\ Len(m.stack) \in Nat /\ w \in Val
  BY <1>1, MemoryIs DEF Val
<1>3. \A i \in 1 .. k : n.stack[i] = m.stack[i]
  BY <1>1, <1>2
<1>4. k <= k /\ k <= Len(n.stack)
  BY <1>1, <1>2
<1>5. QED
  BY <1>1, <1>3, <1>4, KeepsOn

\* Two values are taken off the stack of a collected memory and consed.
LEMMA ConsIs ==
  ASSUME LispInv, NEW m \in MaybeGc(Memory), NEW i \in Unused(m), Len(stack) >= 2
  PROVE  LET q == Len(m.stack)
             n == AllocPair(Popped(m, 2), i, m.stack[q - 1], m.stack[q])
         IN  /\ Keeps(n, Len(stack) - 2) /\ Len(n.stack) = Len(stack) - 1
             /\ Good(Memory) => Good(n)
             /\ n.stack[Len(stack) - 1] = <<"pair", i, Elsewhere>>
             /\ Current(<<"pair", i, Elsewhere>>, n.heap)
             /\ n.heap[i].fields = <<m.stack[q - 1], m.stack[q]>>
             /\ Alike(stack[Len(stack) - 1], m.stack[q - 1], heap, n.heap)
             /\ Alike(stack[Len(stack)], m.stack[q], heap, n.heap)
             /\ m.stack[q - 1] \in Val /\ m.stack[q] \in Val
<1> DEFINE q == Len(m.stack)
           l == Len(stack)
           car == m.stack[q - 1]
           cdr == m.stack[q]
           p == Popped(m, 2)
           n == AllocPair(p, i, car, cdr)
           w == <<"pair", i, Elsewhere>>
<1>1. /\ m \in Memories /\ Keeps(m, l) /\ q = l /\ (Good(Memory) => Good(m))
      /\ l \in Nat /\ 2 \in 0 .. q
  BY SafeHere, PartsAre DEF LispInv
<1>2. /\ p \in Memories /\ p.stack = SubSeq(m.stack, 1, q - 2) /\ Len(p.stack) = q - 2
      /\ p.heap = m.heap /\ p.frames = m.frames /\ p.globals = m.globals
  BY <1>1, PoppedIs
<1>3. m.stack \in Seq(Val) /\ car \in Val /\ cdr \in Val /\ car \in Roots(m) /\ cdr \in Roots(m)
  <2>1. m.stack \in Seq(Val) /\ q - 1 \in DOMAIN m.stack /\ q \in DOMAIN m.stack
    BY <1>1, MemoryIs
  <2>2. QED
    BY <1>1, <2>1, RootsAre
<1>4. Alike(stack[l - 1], car, heap, m.heap) /\ Alike(stack[l], cdr, heap, m.heap)
  BY <1>1 DEF Keeps
<1> HIDE DEF q, l, p, car, cdr
<1>5. i \in Unused(p)
  BY <1>2 DEF Unused
<1>6. OneMore(p, n, w, <<car, cdr>>, TRUE)
  BY <1>2, <1>3, <1>5, AllocPairIs
<1> HIDE DEF n, w
<1>7. \A j \in 1 .. l - 2 : p.stack[j] = m.stack[j] /\ j \in DOMAIN m.stack
  <2>1. q - 2 \in 0 .. q
    BY <1>1
  <2>2. \A j \in 1 .. q - 2 : SubSeq(m.stack, 1, q - 2)[j] = m.stack[j]
    BY <1>3, <2>1, Shortened DEF q
  <2>3. \A j \in 1 .. q - 2 : j \in DOMAIN m.stack
    BY <1>1, <1>3 DEF q
  <2>4. QED
    BY <1>1, <1>2, <2>2, <2>3
<1>8. Keeps(p, l - 2)
  <2>1. l - 2 \in Nat /\ l - 2 <= l /\ l - 2 <= Len(p.stack)
    BY <1>1, <1>2
  <2>2. \A u : Current(u, m.heap) => Current(u, p.heap)
    BY <1>2
  <2>3. QED
    BY <1>1, <1>2, <1>7, <2>1, <2>2, KeepsOn
<1>9. <<car, cdr>> \in Seq(Val) /\ Len(<<car, cdr>>) = 2 /\ <<car, cdr>>[1] = car /\ <<car, cdr>>[2] = cdr
  BY <1>3
<1>10. Keeps(n, l - 2)
  BY <1>6, <1>8, <1>9, GrownKeeps
<1>11. ASSUME Good(Memory) PROVE Good(n)
  <2>1. Good(m)
    BY <1>1, <1>11
  <2>2. \A j \in DOMAIN p.stack : p.stack[j] \in Roots(m)
    <3>1. \A j \in DOMAIN p.stack : j \in 1 .. l - 2
      BY <1>1, <1>2, MemoryIs
    <3>2. QED
      BY <1>1, <1>7, <3>1, RootsAre
  <2>3. Good(p)
    BY <1>1, <1>2, <2>1, <2>2, GoodStack
  <2>4. Sound(car, p.heap) /\ Sound(cdr, p.heap)
    BY <1>2, <1>3, <2>1 DEF Good
  <2> DEFINE fields == <<car, cdr>>
  <2>5. \A k \in DOMAIN fields : Sound(fields[k], p.heap)
    BY <2>4
  <2>6. fields \in Seq(Val) /\ OneMore(p, n, w, fields, TRUE)
    BY <1>6, <1>9
  <2> HIDE DEF fields
  <2>7. QED
    BY <1>2, <2>3, <2>5, <2>6, GoodGrown
<1>12. /\ Len(n.stack) = l - 1 /\ n.stack[l - 1] = w
       /\ Current(w, n.heap) /\ n.heap[i].fields = <<car, cdr>>
       /\ \A u : Current(u, m.heap) => Current(u, n.heap)
  <2>1. /\ n.stack = Append(p.stack, w) /\ Len(n.stack) = Len(p.stack) + 1 /\ w \in Words
        /\ Current(w, n.heap) /\ n.heap[w[2]].fields = <<car, cdr>>
        /\ \A u : Current(u, p.heap) => Current(u, n.heap)
    BY <1>6 DEF OneMore
  <2>2. w[2] = i
    BY DEF w
  <2>3. p.stack \in Seq(Val) /\ w \in Val
    BY <1>2, <2>1, MemoryIs DEF Val
  <2>4. n.stack[l - 1] = w
    BY <1>1, <1>2, <2>1, <2>3
  <2>5. Len(n.stack) = l - 1
    BY <1>1, <1>2, <2>1
  <2>6. QED
    BY <1>2, <2>1, <2>2, <2>4, <2>5
<1>13. Alike(stack[l - 1], car, heap, n.heap) /\ Alike(stack[l], cdr, heap, n.heap)
  BY <1>4, <1>12 DEF Alike
<1>14. QED
  BY <1>1, <1>3, <1>10, <1>11, <1>12, <1>13 DEF n, w, p, q, l, car, cdr

\* The arguments of a call are the values above the height it began at.
LEMMA ArgsAre ==
  ASSUME LispInv, Calling
  PROVE  /\ Top.high \in Nat /\ Len(stack) \in Nat /\ Len(Args) \in Nat
         /\ Len(stack) = Top.high + Len(Args)
         /\ \A i \in 1 .. Len(Args) :
              /\ Args[i] = stack[Top.high + i] /\ Top.high + i \in DOMAIN stack
              /\ Args[i] \in Val /\ Args[i] \in Roots(Memory)
<1> DEFINE t == Top.high
           a == Len(Args)
           l == Len(stack)
<1>1. /\ t \in 0 .. l /\ a = l - t /\ a \in Nat /\ l \in Nat
      /\ \A i \in 1 .. a : Args[i] = stack[t + i]
      /\ Memory \in Memories /\ Memory.stack = stack /\ DOMAIN stack = 1 .. l
  BY CallingIs, PartsAre DEF LispInv
<1> HIDE DEF t, a, l
<1>2. t \in Nat /\ l = t + a /\ \A i \in 1 .. a : t + i \in DOMAIN stack
  BY <1>1
<1>3. \A i \in 1 .. a : Args[i] \in Val /\ Args[i] \in Roots(Memory)
  BY <1>1, <1>2, RootsAre
<1>4. QED
  BY <1>1, <1>2, <1>3 DEF t, a, l

\* cons: the pair is on the stack in place of its two arguments.
LEMMA ConsPairMemory ==
  ASSUME LispInv, ConsPair
  PROVE  \E n : /\ Yields(n) /\ Result(n)
                /\ \E i \in Id : \E car, cdr \in Val :
                     /\ n.stack[Len(n.stack)] = <<"pair", i, Elsewhere>>
                     /\ Current(<<"pair", i, Elsewhere>>, n.heap)
                     /\ n.heap[i].fields = <<car, cdr>>
                     /\ Len(Args) = 2
                     /\ Alike(Args[1], car, heap, n.heap) /\ Alike(Args[2], cdr, heap, n.heap)
<1>1. Calling /\ Len(Args) = 2
  BY DEF ConsPair, Applying
<1>2. PICK m \in MaybeGc(Memory) : \E i \in Unused(m) :
        LET n == Len(m.stack)
        IN  Result(AllocPair(Popped(m, 2), i, m.stack[n - 1], m.stack[n]))
  BY DEF ConsPair
<1>3. PICK i \in Unused(m) :
        LET n == Len(m.stack)
        IN  Result(AllocPair(Popped(m, 2), i, m.stack[n - 1], m.stack[n]))
  BY <1>2
<1> DEFINE car == m.stack[Len(m.stack) - 1]
           cdr == m.stack[Len(m.stack)]
           n == AllocPair(Popped(m, 2), i, car, cdr)
           t == Top.high
<1>4. Result(n)
  BY <1>3
<1>5. /\ t \in Nat /\ Len(stack) = t + 2
      /\ Args[1] = stack[t + 1] /\ Args[2] = stack[t + 2]
  BY <1>1, ArgsAre
<1>6. /\ Len(stack) >= 2 /\ Len(stack) - 2 = t /\ Len(stack) - 1 = t + 1
  BY <1>5
<1>7. /\ Keeps(n, t) /\ Len(n.stack) = t + 1
      /\ Good(Memory) => Good(n)
      /\ n.stack[t + 1] = <<"pair", i, Elsewhere>>
      /\ Current(<<"pair", i, Elsewhere>>, n.heap)
      /\ n.heap[i].fields = <<car, cdr>>
      /\ Alike(stack[t + 1], car, heap, n.heap)
      /\ Alike(stack[t + 2], cdr, heap, n.heap)
      /\ car \in Val /\ cdr \in Val
  <2> HIDE DEF t
  <2>1. Len(stack) = t + 2
    BY <1>5
  <2>2. QED
    BY <1>6, <2>1, ConsIs
<1> HIDE DEF car, cdr, n
<1>8. Yields(n)
  BY <1>7 DEF Yields
<1>9. i \in Id
  BY DEF Unused
<1>10. /\ n.stack[Len(n.stack)] = <<"pair", i, Elsewhere>>
       /\ Alike(Args[1], car, heap, n.heap) /\ Alike(Args[2], cdr, heap, n.heap)
  BY <1>5, <1>7
<1>11. QED
  BY <1>1, <1>4, <1>7, <1>8, <1>9, <1>10

\* So the new pair holds the arguments.
LEMMA ConsPairHolds ==
  ASSUME LispInv, ConsPair
  PROVE  heap'[stack'[Len(stack')][2]].fields = Args
<1>1. PICK n : /\ Yields(n) /\ Result(n)
               /\ \E i \in Id : \E car, cdr \in Val :
                    /\ n.stack[Len(n.stack)] = <<"pair", i, Elsewhere>>
                    /\ Current(<<"pair", i, Elsewhere>>, n.heap)
                    /\ n.heap[i].fields = <<car, cdr>>
                    /\ Len(Args) = 2
                    /\ Alike(Args[1], car, heap, n.heap) /\ Alike(Args[2], cdr, heap, n.heap)
  BY ConsPairMemory
<1>2. PICK i \in Id : \E car, cdr \in Val :
        /\ n.stack[Len(n.stack)] = <<"pair", i, Elsewhere>>
        /\ Current(<<"pair", i, Elsewhere>>, n.heap)
        /\ n.heap[i].fields = <<car, cdr>>
        /\ Len(Args) = 2
        /\ Alike(Args[1], car, heap, n.heap) /\ Alike(Args[2], cdr, heap, n.heap)
  BY <1>1
<1>3. PICK car \in Val, cdr \in Val :
        /\ n.stack[Len(n.stack)] = <<"pair", i, Elsewhere>>
        /\ Current(<<"pair", i, Elsewhere>>, n.heap)
        /\ n.heap[i].fields = <<car, cdr>>
        /\ Len(Args) = 2
        /\ Alike(Args[1], car, heap, n.heap) /\ Alike(Args[2], cdr, heap, n.heap)
  BY <1>2
<1> DEFINE w == <<"pair", i, Elsewhere>>
           s == Settled(n)
<1>4. n \in Memories /\ Become(n) /\ Top.high \in Nat /\ Len(n.stack) = Top.high + 1
  BY <1>1 DEF Yields, Keeps, Result, Return
<1>5. /\ s \in Memories /\ SameSlots(n, s) /\ RootsCurrent(s)
      /\ \A j \in DOMAIN n.stack : s.stack[j] = NowIn(n.stack[j], n.heap)
      /\ \A j \in DOMAIN s.heap :
           /\ DOMAIN s.heap[j].fields = DOMAIN n.heap[j].fields
           /\ \A k \in DOMAIN n.heap[j].fields :
                s.heap[j].fields[k] = NowIn(n.heap[j].fields[k], n.heap)
  BY <1>4, SettledIs
<1>6. stack' = s.stack /\ heap' = s.heap
  BY <1>4 DEF Become
<1> HIDE DEF s
<1>7. Len(s.stack) = Len(n.stack) /\ Len(n.stack) \in DOMAIN n.stack /\ Len(s.stack) \in DOMAIN s.stack
  BY <1>4, <1>5, MemoryIs DEF SameSlots
<1>8. w \in Words /\ w[1] = "pair" /\ w[2] = i
  BY DEF Words, Kind, Elsewhere
<1>9. s.stack[Len(s.stack)] = <<"pair", i, 0>>
  <2>1. n.heap \in Heaps /\ w \in Val /\ Current(w, n.heap)
    BY <1>3, <1>4, <1>8, MemoryIs DEF Val
  <2> HIDE DEF w
  <2>2. NowIn(w, n.heap) = <<"pair", i, 0>>
    BY <1>8, <2>1, NowIs
  <2>3. QED
    BY <1>3, <1>5, <1>7, <2>2 DEF w
<1>10. i \in DOMAIN s.heap
  <2> DEFINE u == <<"pair", i, 0>>
  <2>1. u \in Words /\ u[2] = i
    BY DEF Words, Kind
  <2>2. u \in Roots(s)
    BY <1>5, <1>7, <1>9, RootsAre
  <2> HIDE DEF u
  <2>3. QED
    BY <1>5, <2>1, <2>2 DEF RootsCurrent, Current
<1>11. Args \in Seq(Val) /\ Args[1] \in Roots(Memory) /\ Args[2] \in Roots(Memory)
       /\ Args[1] \in Val /\ Args[2] \in Val
  <2>1. Calling
    BY DEF ConsPair, Applying
  <2>2. Args \in Seq(Val)
    BY <2>1, CallingIs
  <2>3. 1 \in 1 .. Len(Args) /\ 2 \in 1 .. Len(Args)
    BY <1>3
  <2>4. QED
    BY <2>1, <2>2, <2>3, ArgsAre
<1>12. ASSUME NEW v \in Roots(Memory), NEW c \in Val, Alike(v, c, heap, n.heap)
       PROVE  NowIn(c, n.heap) = v
  <2>1. v \in Val /\ n.heap \in Heaps /\ (v \in Words => Current(v, heap) /\ v[3] = 0)
    BY <1>4, PartsAre, RootsAre, MemoryIs DEF LispInv, MemoryInv, RootsCurrent
  <2>2. QED
    BY <1>12, <2>1, NowAlike
<1>13. /\ DOMAIN s.heap[i].fields = 1 .. 2
       /\ s.heap[i].fields[1] = Args[1] /\ s.heap[i].fields[2] = Args[2]
  <2> DEFINE f == n.heap[i].fields
  <2>1. DOMAIN f = 1 .. 2 /\ f[1] = car /\ f[2] = cdr
    BY <1>3
  <2> HIDE DEF f
  <2>2. DOMAIN s.heap[i].fields = 1 .. 2 /\ s.heap[i].fields[1] = NowIn(car, n.heap)
        /\ s.heap[i].fields[2] = NowIn(cdr, n.heap)
    BY <1>5, <1>10, <2>1 DEF f
  <2>3. NowIn(car, n.heap) = Args[1] /\ NowIn(cdr, n.heap) = Args[2]
    BY <1>3, <1>11, <1>12
  <2>4. QED
    BY <2>2, <2>3
<1>14. s.heap[i].fields = Args
  <2> DEFINE a == s.heap[i].fields
             b == Args
  <2>1. a \in Seq(Val) /\ b \in Seq(Val)
    BY <1>5, <1>10, <1>11, MemoryIs DEF Object
  <2>2. DOMAIN a = 1 .. 2 /\ a[1] = b[1] /\ a[2] = b[2] /\ Len(b) = 2
    BY <1>3, <1>13
  <2> HIDE DEF a, b
  <2>3. a = b
    BY <2>1, <2>2
  <2>4. QED
    BY <2>3 DEF a, b
<1>15. QED
  BY <1>6, <1>9, <1>14

\* list: the empty list first.
LEMMA ListMemory ==
  ASSUME LispInv, List
  PROVE  LET n == Pushed(Memory, <<Imm>>) IN
         /\ n \in Memories /\ Become(n) /\ Len(n.stack) = Len(stack) + 1 /\ n.frames = frames
         /\ Good(Memory) => Good(n)
<1> DEFINE n == Pushed(Memory, <<Imm>>)
<1>1. /\ Memory \in Memories /\ Memory.stack = stack /\ Memory.frames = frames
      /\ Memory.globals = globals /\ Memory.heap = heap
      /\ stack \in Seq(Val) /\ Len(stack) \in Nat
  BY PartsAre DEF LispInv
<1>2. <<Imm>> \in Seq(Val) /\ Len(<<Imm>>) = 1 /\ <<Imm>>[1] = Imm
  BY Literals
<1>3. /\ n \in Memories /\ n.stack = stack \o <<Imm>> /\ Len(n.stack) = Len(stack) + 1
      /\ n.heap = heap /\ n.frames = frames /\ n.globals = globals
  BY <1>1, <1>2, PushedIs
<1>4. Become(n)
  BY DEF List
<1> HIDE DEF n
<1>5. \A i \in DOMAIN n.stack : n.stack[i] = Imm \/ n.stack[i] \in Roots(Memory)
  <2> SUFFICES ASSUME NEW i \in DOMAIN n.stack PROVE n.stack[i] = Imm \/ n.stack[i] \in Roots(Memory)
    OBVIOUS
  <2>1. i \in DOMAIN stack \/ i = Len(stack) + 1
    BY <1>1, <1>2, <1>3
  <2>2. i \in DOMAIN stack => n.stack[i] = stack[i]
    BY <1>1, <1>2, <1>3
  <2>3. n.stack[Len(stack) + 1] = Imm
    BY <1>1, <1>2, <1>3
  <2>4. QED
    BY <1>1, <2>1, <2>2, <2>3, RootsAre
<1>6. Good(Memory) => Good(n)
  BY <1>1, <1>3, <1>5, GoodStack
<1>7. QED
  BY <1>3, <1>4, <1>6 DEF n

\* The entry of a list that conses its arguments.
LEMMA Listing ==
  ASSUME LispInv, NEW left \in Nat, kont # <<>>, Top.k = "args", MemoryInv',
         kont' = Append(Callers, [Top EXCEPT !.left = left]), mode' = "list", mode # "idle",
         Len(stack') = Top.high + left + 1, Len(frames') = Len(frames)
  PROVE  LispInv'
<1> DEFINE e == [Top EXCEPT !.left = left]
<1>1. /\ Settles(Callers) /\ Over(Callers) = Top.high /\ Top.high \in Nat /\ Top \in Entry
      /\ Len(frames) = Cardinality(Scoped(Callers)) + Opens(Top)
  BY CallersAre
<1>2. e \in Entry /\ e.k = "args" /\ e.high = Top.high /\ e.left = left
  BY <1>1 DEF Entry
<1> HIDE DEF e
<1>3. Sized(e) /\ Opens(e) = 0 /\ Opens(Top) = 0 /\ Cardinality(Scoped(Callers)) \in Nat
  BY <1>1, <1>2, ScopedIs DEF Sized, Opens, Settles, Stacked
<1>4. kont' = Append(Callers, e)
  BY DEF e
<1>5. /\ Stacked(Append(Callers, e)) /\ Append(Callers, e) # <<>>
      /\ Append(Callers, e)[Len(Append(Callers, e))] = e
      /\ Cardinality(Scoped(Append(Callers, e))) = Cardinality(Scoped(Callers)) + Opens(e)
  BY <1>1, <1>2, <1>3, EntryAdded
<1>6. Top' = e /\ Stacked(kont)' /\ (kont # <<>>)' /\ Cardinality(Scoped(kont))' = Len(frames)
  BY <1>1, <1>3, <1>4, <1>5 DEF Top
<1>7. KontInv'
  BY <1>2, <1>6 DEF KontInv
<1>8. HeightInv'
  BY <1>2, <1>6 DEF HeightInv
<1>9. QED
  BY <1>7, <1>8 DEF LispInv

\* list keeps the invariant with its first value,
LEMMA ListKeeps ==
  ASSUME LispInv, List
  PROVE  LispInv'
<1>1. Calling /\ mode' = "list" /\ kont' = Remaining(kont, Len(Args))
  <2>1. Calling
    BY DEF List
  <2>2. kont[Len(kont)].k = "args"
    BY <2>1, CallingIs DEF Top
  <2>3. QED
    BY <2>1, <2>2 DEF List, Remaining
<1>2. /\ kont # <<>> /\ Top.k = "args" /\ mode # "idle" /\ Stacked(kont)
      /\ Len(Args) \in Nat /\ Len(stack) = Top.high + Len(Args) /\ Top.high \in Nat
  BY <1>1, CallingIs, ArgsAre DEF LispInv, KontInv
<1>3. kont' = Append(Callers, [Top EXCEPT !.left = Len(Args)])
  <2>1. kont[Len(kont)].k # "body" /\ Callers = Front(kont)
    BY <1>2, CallersAre DEF Top
  <2>2. QED
    BY <1>1, <1>2, <2>1, EntryAhead DEF Top
<1> DEFINE n == Pushed(Memory, <<Imm>>)
<1>4. n \in Memories /\ Become(n) /\ Len(n.stack) = Len(stack) + 1 /\ n.frames = frames
  BY ListMemory
<1> HIDE DEF n
<1>5. MemoryInv' /\ Len(stack') = Len(stack) + 1 /\ Len(frames') = Len(frames)
  BY <1>4, NextMemory
<1>6. Len(stack') = Top.high + Len(Args) + 1
  BY <1>2, <1>5
<1>7. QED
  BY <1>1, <1>2, <1>3, <1>5, <1>6, Listing

\* One more pair of the list.
LEMMA ListConsMemory ==
  ASSUME LispInv, ListCons
  PROVE  \E n \in Memories : /\ Become(n) /\ Len(n.stack) = Len(stack) - 1
                             /\ Len(n.frames) = Len(frames)
                             /\ Good(Memory) => Good(n)
<1>1. PICK m \in MaybeGc(Memory) : \E i \in Unused(m) :
        LET n == Len(m.stack)
        IN  Become(AllocPair(Popped(m, 2), i, m.stack[n - 1], m.stack[n]))
  BY DEF ListCons
<1>2. PICK i \in Unused(m) :
        LET n == Len(m.stack)
        IN  Become(AllocPair(Popped(m, 2), i, m.stack[n - 1], m.stack[n]))
  BY <1>1
<1> DEFINE car == m.stack[Len(m.stack) - 1]
           cdr == m.stack[Len(m.stack)]
           n == AllocPair(Popped(m, 2), i, car, cdr)
<1>3. Become(n)
  BY <1>2
<1>4. Len(stack) >= 2
  <2>1. mode = "list" /\ Top.left > 0 /\ Len(stack) = Top.high + Top.left + 1
    BY DEF ListCons, LispInv, HeightInv
  <2>2. kont # <<>>
    BY <2>1 DEF LispInv, KontInv
  <2>3. Top \in Entry
    BY <2>1, <2>2, CallersAre
  <2>4. Top.high \in Nat /\ Top.left \in Nat
    BY <2>3 DEF Entry
  <2>5. QED
    BY <2>1, <2>4
<1>5. /\ Keeps(n, Len(stack) - 2) /\ Len(n.stack) = Len(stack) - 1
      /\ Good(Memory) => Good(n)
  BY <1>4, ConsIs
<1> HIDE DEF n
<1>6. n \in Memories /\ Len(n.frames) = Len(frames)
  BY <1>5 DEF Keeps
<1>7. QED
  BY <1>3, <1>5, <1>6

\* and with each pair it conses.
LEMMA ListConsKeeps ==
  ASSUME LispInv, ListCons
  PROVE  LispInv'
<1>1. /\ mode = "list" /\ mode' = "list" /\ Top.left > 0
      /\ kont' = Remaining(kont, Top.left - 1)
  BY DEF ListCons
<1>2. /\ kont # <<>> /\ Top.k = "args" /\ Stacked(kont)
      /\ Len(stack) = Top.high + Top.left + 1
  BY <1>1 DEF LispInv, KontInv, HeightInv
<1>3. Top.left \in Nat /\ Top.high \in Nat /\ Callers = Front(kont)
  <2>1. Top \in Entry /\ Callers = Front(kont)
    BY <1>1, <1>2, CallersAre
  <2>2. QED
    BY <2>1 DEF Entry
<1> DEFINE l == Top.left - 1
<1>4. l \in Nat
  BY <1>1, <1>3
<1>5. kont' = Append(Callers, [Top EXCEPT !.left = l])
  <2>1. kont[Len(kont)].k # "body"
    BY <1>2 DEF Top
  <2> HIDE DEF l
  <2>2. Remaining(kont, l) = Append(Front(kont), [kont[Len(kont)] EXCEPT !.left = l])
    BY <1>2, <1>4, <2>1, EntryAhead
  <2>3. QED
    BY <1>1, <1>3, <2>2 DEF Top, l
<1>6. PICK n \in Memories : Become(n) /\ Len(n.stack) = Len(stack) - 1 /\ Len(n.frames) = Len(frames)
  BY ListConsMemory
<1>7. MemoryInv' /\ Len(stack') = Len(stack) - 1 /\ Len(frames') = Len(frames)
  BY <1>6, NextMemory
<1>8. Len(stack') = Top.high + l + 1
  BY <1>1, <1>2, <1>3, <1>7
<1> HIDE DEF l
<1>9. QED
  BY <1>1, <1>2, <1>4, <1>5, <1>7, <1>8, Listing

\* The list is the result.
LEMMA ListDoneMemory ==
  ASSUME LispInv, ListDone
  PROVE  /\ Yields(Memory) /\ Result(Memory) /\ mode = "list"
<1>1. mode = "list" /\ Top.left = 0 /\ Result(Memory) /\ Len(stack) = Top.high + Top.left + 1
  BY DEF ListDone, LispInv, HeightInv
<1>2. Top.high \in Nat
  <2>1. kont # <<>>
    BY <1>1 DEF LispInv, KontInv
  <2>2. QED
    BY <1>1, <2>1, CallersAre
<1> DEFINE t == Top.high
<1>3. t \in Nat /\ Len(stack) = t + 1 /\ t <= Len(stack)
  BY <1>1, <1>2
<1>4. /\ Memory \in Memories /\ Keeps(Memory, Len(stack)) /\ Len(Memory.stack) = Len(stack)
  BY NoSafepoint
<1>5. Keeps(Memory, t)
  <2> HIDE DEF t
  <2>1. QED
    BY <1>3, <1>4, KeepsOn
<1>6. QED
  BY <1>1, <1>3, <1>4, <1>5 DEF Yields

\* gc-minor and gc-major, and builtins that only look at their arguments.
LEMMA InspectMemory ==
  ASSUME LispInv, Inspect
  PROVE  \E n : Yields(n) /\ Result(n)
<1> DEFINE b == Below(Memory)
           n == Pushed(b, <<Imm>>)
<1>1. Calling /\ Result(n)
  BY DEF Inspect
<1>2. Memory \in Memories /\ Keeps(Memory, Len(stack)) /\ Len(Memory.stack) = Len(stack)
  BY NoSafepoint
<1>3. Keeps(b, Top.high) /\ Len(b.stack) = Top.high /\ (Good(Memory) => Good(b))
  BY <1>1, <1>2, BelowKeeps
<1> HIDE DEF b
<1>4. Imm \in Val /\ Sound(Imm, b.heap)
  BY WordsAre DEF Sound
<1>5. Yields(n)
  BY <1>3, <1>4, PushedYields
<1> HIDE DEF n
<1>6. QED
  BY <1>1, <1>5

\* gc-minor and gc-major yield an immediate.
LEMMA CollectNowMemory ==
  ASSUME LispInv, CollectNow
  PROVE  \E n : Yields(n) /\ Result(n)
<1>1. Calling /\ Len(Args) = 0
  BY DEF CollectNow, Applying
<1>2. PICK c \in Cycles : Result(Pushed(Collected(Memory, c), <<Imm>>))
  BY DEF CollectNow
<1> DEFINE m == Collected(Memory, c)
           n == Pushed(m, <<Imm>>)
<1>3. m \in MaybeGc(Memory) /\ Result(n)
  BY <1>2 DEF MaybeGc
<1> HIDE DEF m
<1>4. m \in Memories /\ Keeps(m, Len(stack)) /\ Len(m.stack) = Len(stack) /\ (Good(Memory) => Good(m))
  BY <1>3, SafeHere
<1>5. Len(stack) = Top.high
  BY <1>1, ArgsAre
<1>6. Imm \in Val /\ Sound(Imm, m.heap)
  BY WordsAre DEF Sound
<1>7. Yields(n)
  BY <1>4, <1>5, <1>6, PushedYields
<1> HIDE DEF n
<1>8. QED
  BY <1>3, <1>7

\* car, cdr, vector-ref.
LEMMA AccessMemory ==
  ASSUME LispInv, Access
  PROVE  \E n : Yields(n) /\ Result(n)
<1>1. Calling /\ Len(Args) = 1 /\ IsWord(Args[1])
  BY DEF Access, Applying
<1>2. PICK k \in DOMAIN heap[Args[1][2]].fields :
        Result(Pushed(Below(Memory), <<heap[Args[1][2]].fields[k]>>))
  BY DEF Access
<1> DEFINE i == Args[1][2]
           v == heap[i].fields[k]
           b == Below(Memory)
           n == Pushed(b, <<v>>)
<1>3. Result(n)
  BY <1>2
<1>4. i \in DOMAIN heap
  <2>1. 1 \in 1 .. Len(Args)
    BY <1>1
  <2>2. Args[1] \in Roots(Memory) /\ Args[1] \in Val
    BY <1>1, <2>1, ArgsAre
  <2>3. Current(Args[1], Memory.heap) /\ Memory.heap = heap
    BY <1>1, <2>2, WordsAre, PartsAre DEF LispInv, MemoryInv, RootsCurrent
  <2>4. QED
    BY <2>3 DEF Current
<1>5. v \in Val
  <2>1. Memory \in Memories /\ Memory.heap = heap
    BY PartsAre DEF LispInv
  <2>2. heap[i] \in Object
    BY <1>4, <2>1, MemoryIs
  <2>3. heap[i].fields \in Seq(Val)
    BY <2>2 DEF Object
  <2>4. QED
    BY <2>3
<1>6. Memory \in Memories /\ Keeps(Memory, Len(stack)) /\ Len(Memory.stack) = Len(stack)
      /\ Memory.heap = heap
  BY NoSafepoint
<1>7. Good(Memory) => Sound(v, heap)
  BY <1>4, <1>6 DEF Good, Solid, Sound
<1>8. Keeps(b, Top.high) /\ Len(b.stack) = Top.high /\ (Good(Memory) => Good(b))
      /\ b.heap = heap
  BY <1>1, <1>6, BelowKeeps
<1> HIDE DEF b, v, i
<1>9. Yields(n)
  BY <1>5, <1>7, <1>8, PushedYields
<1> HIDE DEF n
<1>10. QED
  BY <1>3, <1>9

\* A memory that yields, with other fields in an object.
LEMMA FilledYields ==
  ASSUME NEW m, Yields(m), NEW i \in DOMAIN m.heap, NEW n \in Memories, NEW values \in Seq(Val),
         n.stack = m.stack, n.frames = m.frames, n.globals = m.globals,
         DOMAIN n.heap = DOMAIN m.heap,
         \A k \in DOMAIN m.heap : n.heap[k].kind = m.heap[k].kind /\ n.heap[k].moves = m.heap[k].moves,
         \A k \in DOMAIN m.heap \ {i} : n.heap[k] = m.heap[k],
         n.heap[i].fields = values, n.heap[i].dirty \/ values = <<>>,
         AnyInit = FALSE /\ Good(Memory) => \A k \in DOMAIN values : Sound(values[k], m.heap)
  PROVE  Yields(n)
<1> DEFINE t == Top.high
<1>1. m \in Memories /\ Keeps(m, t) /\ t \in Nat /\ Len(m.stack) = t + 1
  BY DEF Yields, Keeps
<1>2. Len(n.stack) = t + 1 /\ t <= t /\ t <= Len(n.stack)
      /\ \A u : Current(u, m.heap) => Current(u, n.heap)
  BY <1>1 DEF Current
<1> HIDE DEF t
<1>3. Keeps(n, t)
  BY <1>1, <1>2, KeepsOn
<1>4. ASSUME AnyInit = FALSE, Good(Memory) PROVE Good(n)
  <2>1. Good(m) /\ \A k \in DOMAIN values : Sound(values[k], m.heap)
    BY <1>4 DEF Yields
  <2> DEFINE h == n.heap
  <2>2. h = n.heap /\ DOMAIN h = DOMAIN m.heap
        /\ (\A k \in DOMAIN m.heap : h[k].kind = m.heap[k].kind /\ h[k].moves = m.heap[k].moves)
        /\ (\A k \in DOMAIN m.heap \ {i} : h[k] = m.heap[k])
        /\ h[i].fields = values /\ (h[i].dirty \/ values = <<>>)
    OBVIOUS
  <2> HIDE DEF h
  <2>3. QED
    BY <1>1, <2>1, <2>2, GoodFilled
<1>5. QED
  BY <1>2, <1>3, <1>4 DEF Yields, t

\* vector-set!.
LEMMA VectorSetMemory ==
  ASSUME LispInv, VectorSet
  PROVE  \E n : Yields(n) /\ Result(n)
<1>1. Calling /\ Len(Args) = 2 /\ IsWord(Args[1])
  BY DEF VectorSet, Applying
<1>2. PICK k \in DOMAIN heap[Args[1][2]].fields :
        Result(StoredField(Pushed(Below(Memory), <<Imm>>), Args[1][2], k, Args[2]))
  BY DEF VectorSet
<1> DEFINE i == Args[1][2]
           v == Args[2]
           b == Below(Memory)
           m == Pushed(b, <<Imm>>)
           n == StoredField(m, i, k, v)
<1>3. Result(n)
  BY <1>2
<1>4. Args[1] \in Roots(Memory) /\ Args[1] \in Val /\ v \in Roots(Memory) /\ v \in Val
  <2>1. 1 \in 1 .. Len(Args) /\ 2 \in 1 .. Len(Args)
    BY <1>1
  <2>2. QED
    BY <1>1, <2>1, ArgsAre
<1>5. i \in DOMAIN heap
  <2>1. Current(Args[1], Memory.heap) /\ Memory.heap = heap
    BY <1>1, <1>4, WordsAre, PartsAre DEF LispInv, MemoryInv, RootsCurrent
  <2>2. QED
    BY <2>1 DEF Current
<1>6. Memory \in Memories /\ Keeps(Memory, Len(stack)) /\ Len(Memory.stack) = Len(stack)
      /\ Memory.heap = heap
  BY NoSafepoint
<1>7. b \in Memories /\ Keeps(b, Top.high) /\ Len(b.stack) = Top.high
      /\ (Good(Memory) => Good(b)) /\ b.heap = heap
  BY <1>1, <1>6, BelowKeeps
<1> HIDE DEF b, v, i
<1>8. Imm \in Val /\ Sound(Imm, b.heap)
  BY WordsAre DEF Sound
<1>9. Yields(m)
  BY <1>7, <1>8, PushedYields
<1>10. m.heap = heap /\ m \in Memories
  <2>1. <<Imm>> \in Seq(Val)
    BY Literals
  <2>2. QED
    BY <1>7, <2>1, PushedIs
<1> HIDE DEF m
<1> DEFINE values == [m.heap[i].fields EXCEPT ![k] = v]
<1>11. m.heap[i].fields \in Seq(Val)
  <2>1. m.heap[i] \in Object
    BY <1>5, <1>10, MemoryIs
  <2>2. QED
    BY <2>1 DEF Object
<1>12. k \in DOMAIN m.heap[i].fields
  BY <1>2, <1>10 DEF i
<1>13. /\ values \in Seq(Val) /\ DOMAIN values = DOMAIN m.heap[i].fields
       /\ \A j \in DOMAIN values : values[j] = IF j = k THEN v ELSE m.heap[i].fields[j]
  BY <1>4, <1>11, <1>12
<1>14. /\ n \in Memories
       /\ n.stack = m.stack /\ n.frames = m.frames /\ n.globals = m.globals
       /\ DOMAIN n.heap = DOMAIN m.heap
       /\ \A j \in DOMAIN m.heap : n.heap[j].kind = m.heap[j].kind /\ n.heap[j].moves = m.heap[j].moves
       /\ \A j \in DOMAIN m.heap \ {i} : n.heap[j] = m.heap[j]
       /\ n.heap[i].fields = values /\ n.heap[i].dirty
  BY <1>4, <1>5, <1>10, <1>12, StoredIs
<1> HIDE DEF n, values
<1>15. ASSUME Good(Memory) PROVE \A j \in DOMAIN values : Sound(values[j], m.heap)
  <2>1. Sound(v, m.heap)
    BY <1>4, <1>6, <1>10, <1>15 DEF Good
  <2>2. \A j \in DOMAIN m.heap[i].fields : Sound(m.heap[i].fields[j], m.heap)
    BY <1>5, <1>6, <1>10, <1>15 DEF Good, Solid, Sound
  <2>3. QED
    BY <1>13, <2>1, <2>2
<1>16. i \in DOMAIN m.heap
  BY <1>5, <1>10
<1>17. Yields(n)
  <2>1. AnyInit = FALSE /\ Good(Memory) => \A j \in DOMAIN values : Sound(values[j], m.heap)
    BY <1>15
  <2>2. values \in Seq(Val) /\ Yields(m) /\ (n.heap[i].dirty \/ values = <<>>)
    BY <1>9, <1>13, <1>14
  <2>3. QED
    BY <1>14, <1>16, <2>1, <2>2, FilledYields
<1>18. QED
  BY <1>3, <1>17

\* The result is a new object.
LEMMA GrownYields ==
  ASSUME NEW m, Keeps(m, Top.high), Len(m.stack) = Top.high, NEW n, NEW w,
         NEW fields \in Seq(Val), NEW dirty \in BOOLEAN, OneMore(m, n, w, fields, dirty),
         AnyInit = FALSE /\ Good(Memory) =>
           /\ Good(m) /\ \A k \in DOMAIN fields : Sound(fields[k], m.heap)
           /\ dirty \/ \A k \in DOMAIN fields : fields[k] \notin Words
  PROVE  Yields(n)
<1>1. Keeps(n, Top.high)
  BY GrownKeeps
<1>2. m \in Memories /\ Len(n.stack) = Top.high + 1
  BY DEF Keeps, OneMore
<1>3. ASSUME AnyInit = FALSE, Good(Memory) PROVE Good(n)
  <2>1. Good(m) /\ (\A k \in DOMAIN fields : Sound(fields[k], m.heap))
        /\ (dirty \/ \A k \in DOMAIN fields : fields[k] \notin Words)
    BY <1>3
  <2>2. QED
    BY <1>2, <2>1, GoodGrown
<1>4. QED
  BY <1>1, <1>2, <1>3 DEF Yields

\* make-vector: its init value in every field, on a clean card.
LEMMA MakeVectorMemory ==
  ASSUME LispInv, MakeVector
  PROVE  \E n : Yields(n) /\ Result(n)
<1>1. Calling /\ Len(Args) = 1 /\ (AnyInit \/ ~IsWord(Args[1]))
  BY DEF MakeVector, Applying
<1>2. PICK m \in MaybeGc(Memory), n \in 0 .. MaxCells : \E i \in Unused(m) :
        Result(AllocVector(Popped(m, 1), i, n, m.stack[Len(m.stack)]))
  BY DEF MakeVector
<1>3. PICK i \in Unused(m) :
        Result(AllocVector(Popped(m, 1), i, n, m.stack[Len(m.stack)]))
  BY <1>2
<1> DEFINE q == Len(m.stack)
           t == Top.high
           v == m.stack[q]
           p == Popped(m, 1)
           o == AllocVector(p, i, n, v)
           w == <<"vector", i, Elsewhere>>
           fields == [k \in 1 .. n |-> v]
<1>4. Result(o)
  BY <1>3
<1>5. /\ m \in Memories /\ Keeps(m, Len(stack)) /\ q = Len(stack) /\ (Good(Memory) => Good(m))
      /\ t \in Nat /\ Len(stack) = t + 1 /\ Args[1] = stack[t + 1] /\ n \in Nat
  BY <1>1, SafeHere, ArgsAre, BoundsAssumption
<1>6. q = t + 1 /\ 1 \in 0 .. q /\ q - 1 = t
  BY <1>5
<1>7. /\ p \in Memories /\ p.stack = SubSeq(m.stack, 1, q - 1) /\ Len(p.stack) = q - 1
      /\ p.heap = m.heap /\ p.frames = m.frames /\ p.globals = m.globals
  BY <1>5, <1>6, PoppedIs
<1>8. m.stack \in Seq(Val) /\ q \in DOMAIN m.stack /\ v \in Val /\ v \in Roots(m)
      /\ Args[1] \in Val
  <2>1. m.stack \in Seq(Val) /\ q \in DOMAIN m.stack
    BY <1>5, <1>6, MemoryIs
  <2>2. Args[1] \in Val
    BY <1>1, ArgsAre
  <2>3. QED
    BY <1>5, <2>1, <2>2, RootsAre
<1>9. AnyInit = FALSE => v \notin Words
  <2>1. Alike(Args[1], v, heap, m.heap)
    BY <1>5, <1>6 DEF Keeps
  <2>2. AnyInit = FALSE => Args[1] \notin Words
    BY <1>1, <1>8, WordsAre
  <2>3. QED
    BY <2>1, <2>2 DEF Alike
<1>10. Keeps(m, t + 1)
  BY <1>5
<1>11. /\ p \in Memories /\ Len(p.stack) = t
       /\ p.heap = m.heap /\ p.frames = m.frames /\ p.globals = m.globals
  BY <1>6, <1>7
<1>12. p.stack = SubSeq(m.stack, 1, t)
  BY <1>6, <1>7
<1> HIDE DEF q, t, v, p
<1>13. \A j \in 1 .. t : p.stack[j] = m.stack[j] /\ j \in DOMAIN m.stack
  <2>1. Len(m.stack) = t + 1
    BY <1>6 DEF q
  <2>2. t \in 0 .. Len(m.stack)
    BY <1>5, <2>1
  <2>3. \A j \in 1 .. t : SubSeq(m.stack, 1, t)[j] = m.stack[j]
    BY <1>8, <2>2, Shortened
  <2>4. \A j \in 1 .. t : j \in DOMAIN m.stack
    BY <1>8, <2>1, <2>2
  <2>5. QED
    BY <1>12, <2>3, <2>4
<1>14. Keeps(p, t)
  <2>1. t <= t + 1 /\ t <= Len(p.stack) /\ t \in Nat
    BY <1>5, <1>11
  <2>2. \A u : Current(u, m.heap) => Current(u, p.heap)
    BY <1>11
  <2>3. QED
    BY <1>11, <1>13, <1>10, <2>1, <2>2, KeepsOn
<1>15. i \in Unused(p)
  BY <1>11 DEF Unused
<1>16. OneMore(p, o, w, fields, FALSE)
  BY <1>5, <1>11, <1>8, <1>15, AllocVectorIs
<1>17. fields \in Seq(Val) /\ DOMAIN fields = 1 .. n /\ \A k \in 1 .. n : fields[k] = v
  BY <1>5, <1>8
<1> HIDE DEF fields, w, o
<1>18. ASSUME AnyInit = FALSE, Good(Memory)
       PROVE  /\ Good(p) /\ \A k \in DOMAIN fields : Sound(fields[k], p.heap)
              /\ \A k \in DOMAIN fields : fields[k] \notin Words
  <2>1. Good(m)
    BY <1>5, <1>18
  <2>2. \A j \in DOMAIN p.stack : p.stack[j] \in Roots(m)
    <3>1. \A j \in DOMAIN p.stack : j \in 1 .. t
      BY <1>11, MemoryIs
    <3>2. QED
      BY <1>5, <1>13, <3>1, RootsAre
  <2>3. Good(p)
    BY <1>5, <1>11, <2>1, <2>2, GoodStack
  <2>4. Sound(v, p.heap)
    BY <1>11, <1>8, <2>1 DEF Good
  <2>5. QED
    BY <1>9, <1>17, <1>18, <2>3, <2>4
<1>19. Yields(o)
  <2>1. Keeps(p, Top.high) /\ Len(p.stack) = Top.high
    BY <1>11, <1>14 DEF t
  <2>2. QED
    BY <1>16, <1>17, <1>18, <2>1, GrownYields
<1>20. QED
  BY <1>4, <1>19

\* vector: its arguments, stored one by one.
LEMMA VectorMemory ==
  ASSUME LispInv, Vector
  PROVE  \E n : Yields(n) /\ Result(n)
<1>1. Calling
  BY DEF Vector
<1>2. PICK m \in MaybeGc(Memory) : \E i \in Unused(m) :
        LET n == Len(Args)
            values == SubSeq(m.stack, Top.high + 1, Top.high + n)
        IN  Result(Filled(AllocVector(Below(m), i, n, Imm), i, values))
  BY DEF Vector
<1>3. PICK i \in Unused(m) :
        LET n == Len(Args)
            values == SubSeq(m.stack, Top.high + 1, Top.high + n)
        IN  Result(Filled(AllocVector(Below(m), i, n, Imm), i, values))
  BY <1>2
<1> DEFINE t == Top.high
           n == Len(Args)
           values == SubSeq(m.stack, t + 1, t + n)
           b == Below(m)
           a == AllocVector(b, i, n, Imm)
           f == Filled(a, i, values)
           w == <<"vector", i, Elsewhere>>
           fields == [k \in 1 .. n |-> Imm]
<1>4. Result(f)
  BY <1>3
<1>5. /\ m \in Memories /\ Keeps(m, Len(stack)) /\ Len(m.stack) = Len(stack)
      /\ Good(Memory) => Good(m)
      /\ t \in Nat /\ n \in Nat /\ Len(stack) = t + n
  BY <1>1, SafeHere, ArgsAre
<1>6. /\ b \in Memories /\ Keeps(b, Top.high) /\ Len(b.stack) = Top.high
      /\ b.heap = m.heap /\ (Good(m) => Good(b))
  BY <1>1, <1>5, BelowKeeps
<1>7. /\ values \in Seq(Val)
      /\ \A k \in DOMAIN values : values[k] \in Roots(m)
  <2> HIDE DEF t, n
  <2>1. m.stack \in Seq(Val) /\ t \in 0 .. Len(m.stack) /\ Len(m.stack) = t + n
    BY <1>5, MemoryIs
  <2>2. /\ SubSeq(m.stack, t + 1, Len(m.stack)) \in Seq(Val)
        /\ Len(SubSeq(m.stack, t + 1, Len(m.stack))) = n
        /\ \A k \in 1 .. n : SubSeq(m.stack, t + 1, Len(m.stack))[k] = m.stack[t + k]
    <3>1. Len(m.stack) - t = n
      BY <1>5, <2>1
    <3>2. QED
      BY <2>1, <3>1, Rest
  <2>3. \A k \in 1 .. n : t + k \in DOMAIN m.stack
    BY <1>5, <2>1
  <2>4. values \in Seq(Val) /\ Len(values) = n /\ \A k \in 1 .. n : values[k] = m.stack[t + k]
    BY <2>1, <2>2
  <2> HIDE DEF values
  <2>5. DOMAIN values = 1 .. n
    BY <2>4
  <2>6. QED
    BY <1>5, <2>3, <2>4, <2>5, RootsAre
<1>8. i \in Unused(b)
  BY <1>6 DEF Unused
<1>9. OneMore(b, a, w, fields, FALSE)
  BY <1>5, <1>6, <1>8, AllocVectorIs, WordsAre
<1>10. fields \in Seq(Val) /\ DOMAIN fields = 1 .. n /\ \A k \in 1 .. n : fields[k] = Imm
  BY <1>5, WordsAre
<1>11. w[2] = i
  OBVIOUS
<1> HIDE DEF values, b, a, w, fields
<1>12. Yields(a)
  <2>1. \A k \in DOMAIN fields : Sound(fields[k], b.heap) /\ fields[k] \notin Words
    BY <1>10, WordsAre DEF Sound
  <2>2. QED
    BY <1>5, <1>6, <1>9, <1>10, <2>1, GrownYields
<1>13. i \in DOMAIN a.heap /\ a \in Memories /\ \A u : Current(u, m.heap) => Current(u, a.heap)
  BY <1>6, <1>9, <1>11 DEF OneMore
<1>14. /\ f \in Memories
       /\ f.stack = a.stack /\ f.frames = a.frames /\ f.globals = a.globals
       /\ DOMAIN f.heap = DOMAIN a.heap
       /\ \A k \in DOMAIN a.heap : f.heap[k].kind = a.heap[k].kind /\ f.heap[k].moves = a.heap[k].moves
       /\ \A k \in DOMAIN a.heap \ {i} : f.heap[k] = a.heap[k]
       /\ f.heap[i].fields = values /\ f.heap[i].dirty = (values # <<>>)
  BY <1>7, <1>13, FilledIs
<1> HIDE DEF f
<1>15. ASSUME Good(Memory) PROVE \A k \in DOMAIN values : Sound(values[k], a.heap)
  BY <1>5, <1>7, <1>13, <1>15 DEF Good, Sound
<1>16. f.heap[i].dirty \/ values = <<>>
  BY <1>14
<1>17. Yields(f)
  BY <1>7, <1>12, <1>13, <1>14, <1>15, <1>16, FilledYields
<1>18. QED
  BY <1>4, <1>17

\* Every builtin yields its result.
LEMMA BuiltinYields ==
  ASSUME LispInv,
         \/ ConsPair \/ Vector \/ MakeVector \/ Access \/ VectorSet \/ CollectNow \/ Inspect
  PROVE  Calling /\ \E n : Yields(n) /\ Result(n)
<1>1. Calling
  BY DEF ConsPair, Vector, MakeVector, Access, VectorSet, CollectNow, Inspect, Applying
<1>2. QED
  BY <1>1, ConsPairMemory, VectorMemory, MakeVectorMemory, AccessMemory, VectorSetMemory,
     CollectNowMemory, InspectMemory

-----------------------------------------------------------------------------
(* The theorems.                                                           *)

\* Every step keeps the stack, the frames and the pending Rust frames in step.
LEMMA StepKeeps ==
  ASSUME LispInv, [Next]_vars
  PROVE  LispInv'
<1>1. ASSUME NEW n, Yields(n), Result(n), Calling \/ mode = "list"
      PROVE  LispInv'
  <2>1. Keeps(n, Top.high) /\ Len(n.stack) = Top.high + 1
    BY <1>1 DEF Yields
  <2>2. QED
    BY <1>1, <2>1, ResultIs
<1>2. CASE UNCHANGED vars
  <2>1. MemoryInv'
    BY <1>2, SameMemory DEF LispInv, vars
  <2>2. KontInv' /\ HeightInv'
    BY <1>2 DEF LispInv, KontInv, HeightInv, vars, Top
  <2>3. QED
    BY <2>1, <2>2 DEF LispInv
<1>3. CASE StartForm \/ EndForm \/ Fail
  BY <1>3, StartFormKeeps, EndFormKeeps, FailKeeps
<1>4. CASE EvalAtom \/ EvalString \/ \E x \in Name : EvalSymbol(x)
  BY <1>4, AtomsKeep
<1>5. CASE EvalForm \/ EvalThunk
  BY <1>5, EvalFormKeeps, EvalThunkKeeps
<1>6. CASE NextOperand \/ NextForm \/ TakeBranch \/ SkipBranch \/ Decided
  BY <1>6, NextOperandKeeps, NextFormKeeps, TakeBranchKeeps, SkipBranchKeeps, DecidedKeeps
<1>7. CASE OpenScope \/ EndScope \/ Define \/ Assign \/ Call
  BY <1>7, OpenScopeKeeps, EndScopeKeeps, DefineKeeps, AssignKeeps, CallKeeps
<1>8. CASE List \/ ListCons
  BY <1>8, ListKeeps, ListConsKeeps
<1>9. CASE ListDone
  BY <1>1, <1>9, ListDoneMemory
<1>10. CASE \/ ConsPair \/ Vector \/ MakeVector \/ Access \/ VectorSet \/ CollectNow \/ Inspect
  BY <1>1, <1>10, BuiltinYields
<1>11. QED
  BY <1>2, <1>3, <1>4, <1>5, <1>6, <1>7, <1>8, <1>9, <1>10 DEF Next

\* The inductive invariant: memories are well formed and every pending Rust frame of
\* the evaluator (eval and its callees in eval.rs) began where the one around it had got
\* to, so that heights and frame counts add up.
THEOREM LispInvariance == Spec => []LispInv
<1>1. Init => LispInv
  BY InitHolds
<1>2. LispInv /\ [Next]_vars => LispInv'
  BY StepKeeps
<1>3. QED
  BY <1>1, <1>2, PTL DEF Spec

\* The invariant implies the discipline.
LEMMA DisciplineHolds ==
  ASSUME LispInv
  PROVE  StackDiscipline
<1> DEFINE Kept(k) == IF k.k \in {"let", "args"} THEN k.total - k.left - 1 ELSE 0
           Start(i) == IF i = 0 THEN 0 ELSE kont[i].high + Kept(kont[i])
           over == Len(stack) - Start(Len(kont))
<1>1. \A i : Start(i) = Height(kont, i)
  BY DEF Height, Operands
<1>2. \A i \in DOMAIN kont : kont[i].high = Start(i - 1)
  BY <1>1 DEF LispInv, KontInv, Stacked
<1>3. Over(kont) = Start(Len(kont)) /\ Len(stack) \in Nat
  BY <1>1, PartsAre DEF Over, LispInv
<1>4. mode \in {"eval", "return"} => Over(kont) \in Nat
  BY OverIs DEF LispInv, KontInv
<1>5. /\ mode \in {"eval", "return", "apply", "list", "idle"}
      /\ mode = "eval" => over = 0
      /\ mode = "return" => over = 1
      /\ mode = "apply" => Len(stack) = Top.high
      /\ mode = "list" => Len(stack) = Top.high + Top.left + 1
      /\ mode = "idle" => kont = <<>>
  <2> HIDE DEF Start
  <2>1. QED
    BY <1>3, <1>4 DEF LispInv, KontInv, HeightInv
<1>6. mode # "idle" =>
        Len(frames) = Cardinality({i \in DOMAIN kont : kont[i].k \in {"scope", "call"}})
  BY DEF LispInv, HeightInv, Scoped
<1>7. StackDiscipline <=>
        /\ \A i \in DOMAIN kont : kont[i].high = Start(i - 1)
        /\ CASE mode = "eval" -> over = 0
             [] mode = "return" -> over = 1
             [] mode = "apply" -> Len(stack) = Top.high
             [] mode = "list" -> Len(stack) = Top.high + Top.left + 1
             [] mode = "idle" -> kont = <<>>
        /\ mode # "idle" =>
             Len(frames) = Cardinality({i \in DOMAIN kont : kont[i].k \in {"scope", "call"}})
  BY DEF StackDiscipline
<1> HIDE DEF over, Start
<1>8. CASE mode = "eval"
  BY <1>2, <1>5, <1>6, <1>7, <1>8
<1>9. CASE mode = "return"
  BY <1>2, <1>5, <1>6, <1>7, <1>9
<1>10. CASE mode = "apply"
  BY <1>2, <1>5, <1>6, <1>7, <1>10
<1>11. CASE mode = "list"
  BY <1>2, <1>5, <1>6, <1>7, <1>11
<1>12. CASE mode = "idle"
  BY <1>2, <1>5, <1>6, <1>7, <1>12
<1>13. QED
  BY <1>5, <1>8, <1>9, <1>10, <1>11, <1>12

\* However forms nest, fail or collect, an expression leaves exactly one value on
\* value_stack and the frames as it found them; lets and calls find exactly their
\* operands above the high_water they began at (eval, eval_let, eval_call in eval.rs).
THEOREM StackIsDisciplined == Spec => []StackDiscipline
BY LispInvariance, DisciplineHolds, PTL

\* One step of a builtin: its result is all that can be told from the outside.
LEMMA BuiltinIsInvisible ==
  ASSUME LispInv, [Next]_vars, Calling, mode' = "return"
  PROVE  \/ UNCHANGED vars
         \/ /\ frames' = frames /\ globals' = globals
            /\ SubSeq(stack', 1, Top.high) = SubSeq(stack, 1, Top.high)
            /\ Len(stack') = Top.high + 1
            /\ ConsPair => heap'[stack'[Len(stack')][2]].fields = Args
<1>1. kont # <<>> /\ Top.k = "args" /\ mode \in {"apply", "return"}
      /\ (mode = "return" => Top.left = 0)
  BY CallingIs DEF Calling, Returning
<1>2. \/ UNCHANGED vars
      \/ ConsPair \/ Vector \/ MakeVector \/ Access \/ VectorSet \/ CollectNow \/ Inspect
  <2>1. ~StartForm /\ ~EndForm /\ ~Fail
    BY <1>1 DEF StartForm, EndForm, Fail
  <2>2. ~EvalAtom /\ ~EvalString /\ ~EvalForm /\ ~EvalThunk /\ ~(\E x \in Name : EvalSymbol(x))
    BY <1>1 DEF EvalAtom, EvalString, EvalForm, EvalThunk, EvalSymbol
  <2>3. ~NextOperand /\ ~NextForm /\ ~TakeBranch /\ ~SkipBranch /\ ~Decided
    BY <1>1 DEF NextOperand, NextForm, TakeBranch, SkipBranch, Decided, Returning, Enter
  <2>4. ~OpenScope /\ ~EndScope /\ ~Define /\ ~Assign /\ ~Call
    BY <1>1 DEF OpenScope, EndScope, Define, Assign, Call, Returning, Enter
  <2>5. ~List /\ ~ListCons /\ ~ListDone
    BY <1>1 DEF List, ListCons, ListDone
  <2>6. QED
    BY <2>1, <2>2, <2>3, <2>4, <2>5 DEF Next
<1>3. CASE UNCHANGED vars
  BY <1>3
<1>4. CASE ConsPair \/ Vector \/ MakeVector \/ Access \/ VectorSet \/ CollectNow \/ Inspect
  <2>1. PICK n : Yields(n) /\ Result(n)
    BY <1>4, BuiltinYields
  <2>2. Keeps(n, Top.high) /\ Len(n.stack) = Top.high + 1
    BY <2>1 DEF Yields
  <2>3. /\ frames' = frames /\ globals' = globals
        /\ SubSeq(stack', 1, Top.high) = SubSeq(stack, 1, Top.high)
        /\ Len(stack') = Top.high + 1
    BY <2>1, <2>2, ResultIs
  <2>4. ConsPair => heap'[stack'[Len(stack')][2]].fields = Args
    BY ConsPairHolds
  <2>5. QED
    BY <2>3, <2>4
<1>5. QED
  BY <1>2, <1>3, <1>4

\* A builtin changes no variable and no pending value, whatever its safepoints move, and
\* cons puts its two arguments into the new pair in order (try_builtin and maybe_gc).
THEOREM BuiltinsAreInvisible == Spec => CollectionsAreInvisible
<1> DEFINE A == Calling /\ mode' = "return" =>
                  /\ frames' = frames /\ globals' = globals
                  /\ SubSeq(stack', 1, Top.high) = SubSeq(stack, 1, Top.high)
                  /\ Len(stack') = Top.high + 1
                  /\ ConsPair => heap'[stack'[Len(stack')][2]].fields = Args
<1>1. LispInv /\ [Next]_vars => [A]_vars
  BY BuiltinIsInvisible
<1>2. QED
  BY <1>1, LispInvariance, PTL DEF Spec, CollectionsAreInvisible

-----------------------------------------------------------------------------
(* No stale word.  Every step settles a good memory, as long as no new     *)
(* vector starts with words on a clean card.                               *)

\* The same memory with a value more or less, or another one, on the stack.
LEMMA GoodHere ==
  ASSUME LispInv, Good(Memory)
  PROVE  /\ \A v \in Roots(Memory) \cup {Imm} : Good(Pushed(Memory, <<v>>))
         /\ \A k \in 0 .. Len(stack) : Good(Popped(Memory, k))
         /\ Len(stack) >= 1 =>
              \A v \in Roots(Memory) \cup {Imm} : Good(Pushed(Popped(Memory, 1), <<v>>))
         /\ Top.high \in 0 .. Len(stack) => Good(Below(Memory))
<1>1. /\ Memory \in Memories /\ Memory.stack = stack /\ Memory.frames = frames
      /\ Memory.globals = globals /\ Memory.heap = heap
      /\ stack \in Seq(Val) /\ Len(stack) \in Nat /\ Roots(Memory) \subseteq Val
  BY PartsAre, RootsAre DEF LispInv
<1>2. ASSUME NEW n \in Memories, n.frames = frames, n.globals = globals, n.heap = heap,
             NEW k \in 0 .. Len(stack), Len(n.stack) = k, n.stack = SubSeq(stack, 1, k)
      PROVE  Good(n) /\ \A v \in Roots(Memory) \cup {Imm} : Good(Pushed(n, <<v>>))
  <2>1. \A i \in 1 .. k : SubSeq(stack, 1, k)[i] = stack[i] /\ i \in DOMAIN stack
    BY <1>1, Shortened
  <2>2. n.stack \in Seq(Val) /\ DOMAIN n.stack = 1 .. k
    BY <1>2, MemoryIs
  <2>3. \A i \in 1 .. k : n.stack[i] \in Roots(Memory)
    BY <1>1, <1>2, <2>1, RootsAre
  <2>4. Good(n)
    BY <1>1, <1>2, <2>2, <2>3, GoodStack
  <2>5. ASSUME NEW v \in Roots(Memory) \cup {Imm} PROVE Good(Pushed(n, <<v>>))
    <3> DEFINE o == Pushed(n, <<v>>)
    <3>1. v \in Val /\ <<v>> \in Seq(Val) /\ Len(<<v>>) = 1 /\ <<v>>[1] = v
      BY <1>1, Literals
    <3>2. /\ o \in Memories /\ o.stack = n.stack \o <<v>> /\ Len(o.stack) = k + 1
          /\ o.heap = n.heap /\ o.frames = n.frames /\ o.globals = n.globals
      BY <1>2, <3>1, PushedIs
    <3> HIDE DEF o
    <3>3. o.stack \in Seq(Val) /\ DOMAIN o.stack = 1 .. k + 1
      BY <3>2, MemoryIs
    <3>4. (\A i \in 1 .. k : o.stack[i] = n.stack[i]) /\ o.stack[k + 1] = v
      BY <1>2, <2>2, <3>1, <3>2
    <3>5. \A i \in DOMAIN o.stack : o.stack[i] = Imm \/ o.stack[i] \in Roots(Memory)
      <4>1. \A i \in 1 .. k + 1 : i \in 1 .. k \/ i = k + 1
        OBVIOUS
      <4>2. QED
        BY <2>3, <3>3, <3>4, <4>1
    <3>6. Good(o)
      BY <1>1, <1>2, <3>2, <3>5, GoodStack
    <3>7. QED
      BY <3>6 DEF o
  <2>6. QED
    BY <2>4, <2>5
<1>3. \A v \in Roots(Memory) \cup {Imm} : Good(Pushed(Memory, <<v>>))
  <2>1. Len(stack) \in 0 .. Len(stack)
    BY <1>1
  <2>2. stack = SubSeq(stack, 1, Len(stack))
    <3> DEFINE l == Len(stack)
               t == SubSeq(stack, 1, l)
    <3>1. t \in Seq(Val) /\ Len(t) = l /\ \A i \in 1 .. l : t[i] = stack[i]
      BY <1>1, <2>1, Shortened
    <3> HIDE DEF t
    <3>2. stack = t
      BY <1>1, <3>1
    <3>3. QED
      BY <3>2 DEF t
  <2>3. QED
    BY <1>1, <1>2, <2>1, <2>2
<1>4. ASSUME NEW k \in 0 .. Len(stack)
      PROVE  /\ Good(Popped(Memory, k))
             /\ \A v \in Roots(Memory) \cup {Imm} : Good(Pushed(Popped(Memory, k), <<v>>))
  <2> DEFINE n == Popped(Memory, k)
  <2>1. /\ n \in Memories /\ n.stack = SubSeq(stack, 1, Len(stack) - k)
        /\ Len(n.stack) = Len(stack) - k
        /\ n.heap = heap /\ n.frames = frames /\ n.globals = globals
    BY PoppedHere DEF LispInv
  <2> HIDE DEF n
  <2>2. Len(stack) - k \in 0 .. Len(stack)
    BY <1>1
  <2>3. Good(n) /\ \A v \in Roots(Memory) \cup {Imm} : Good(Pushed(n, <<v>>))
    BY <1>2, <2>1, <2>2
  <2>4. QED
    BY <2>3 DEF n
<1>5. ASSUME Top.high \in 0 .. Len(stack) PROVE Good(Below(Memory))
  <2> DEFINE n == Below(Memory)
             t == Top.high
  <2>1. /\ n \in Memories /\ n.stack = SubSeq(stack, 1, t) /\ Len(n.stack) = t
        /\ n.heap = heap /\ n.frames = frames /\ n.globals = globals /\ t \in 0 .. Len(stack)
    BY <1>5, BelowHere DEF LispInv
  <2> HIDE DEF n, t
  <2>2. Good(n)
    BY <1>2, <2>1
  <2>3. QED
    BY <2>2 DEF n
<1>6. Len(stack) >= 1 => 1 \in 0 .. Len(stack)
  BY <1>1
<1>7. QED
  BY <1>3, <1>4, <1>5, <1>6

\* A frame is opened with sound values, or frames are dropped.
LEMMA GoodFrame ==
  ASSUME NEW m \in Memories, Good(m), NEW f \in Scopes,
         \A i \in DOMAIN f : f[i][2] \in Roots(m)
  PROVE  Good([m EXCEPT !.frames = Append(@, f)])
<1> DEFINE n == [m EXCEPT !.frames = Append(@, f)]
<1>1. /\ n \in Memories /\ n.frames = Append(m.frames, f)
      /\ n.stack = m.stack /\ n.heap = m.heap /\ n.globals = m.globals
  BY FrameOpened
<1> HIDE DEF n
<1>2. m.frames \in Seq(Scopes)
  BY MemoryIs
<1>3. \A g \in DOMAIN n.frames : \/ g \in DOMAIN m.frames /\ n.frames[g] = m.frames[g]
                                 \/ n.frames[g] = f
  BY <1>1, <1>2
<1>4. ASSUME NEW v \in Roots(n) PROVE v \in Roots(m)
  <2>1. CASE \E i \in DOMAIN n.stack : v = n.stack[i]
    BY <1>1, <2>1, RootsAre
  <2>2. CASE \E g \in DOMAIN n.frames : \E b \in DOMAIN n.frames[g] : v = n.frames[g][b][2]
    BY <1>3, <2>2, RootsAre
  <2>3. CASE \E x \in DOMAIN n.globals : v = n.globals[x]
    BY <1>1, <2>3, RootsAre
  <2>4. QED
    BY <1>1, <2>1, <2>2, <2>3, RootsAre
<1>5. Good(n)
  BY <1>1, <1>4 DEF Good
<1>6. QED
  BY <1>5 DEF n

\* So are frames dropped.
LEMMA GoodDropped ==
  ASSUME NEW m \in Memories, Good(m), NEW k \in 0 .. Len(m.frames)
  PROVE  Good([m EXCEPT !.frames = SubSeq(@, 1, Len(@) - k)])
<1> DEFINE n == [m EXCEPT !.frames = SubSeq(@, 1, Len(@) - k)]
           l == Len(m.frames) - k
<1>1. /\ n \in Memories /\ n.frames = SubSeq(m.frames, 1, l) /\ Len(n.frames) = l
      /\ n.stack = m.stack /\ n.heap = m.heap /\ n.globals = m.globals
  BY FramesDropped
<1>2. m.frames \in Seq(Scopes) /\ l \in 0 .. Len(m.frames)
  BY MemoryIs
<1> HIDE DEF n, l
<1>3. \A g \in 1 .. l : SubSeq(m.frames, 1, l)[g] = m.frames[g] /\ g \in DOMAIN m.frames
  BY <1>2, Shortened
<1>4. \A g \in DOMAIN n.frames : g \in DOMAIN m.frames /\ n.frames[g] = m.frames[g]
  <2>1. n \in Memories /\ Len(n.frames) = l
    BY <1>1
  <2>2. n.frames \in Seq(Scopes)
    BY <2>1, MemoryIs
  <2>3. DOMAIN n.frames = 1 .. l
    BY <2>1, <2>2
  <2>4. QED
    BY <1>1, <1>3, <2>3
<1>5. ASSUME NEW v \in Roots(n) PROVE v \in Roots(m)
  <2>1. CASE \E i \in DOMAIN n.stack : v = n.stack[i]
    BY <1>1, <2>1, RootsAre
  <2>2. CASE \E g \in DOMAIN n.frames : \E b \in DOMAIN n.frames[g] : v = n.frames[g][b][2]
    BY <1>4, <2>2, RootsAre
  <2>3. CASE \E x \in DOMAIN n.globals : v = n.globals[x]
    BY <1>1, <2>3, RootsAre
  <2>4. QED
    BY <1>1, <2>1, <2>2, <2>3, RootsAre
<1>6. Good(n)
  BY <1>1, <1>5 DEF Good
<1>7. QED
  BY <1>6 DEF n

\* Steps that leave the memory alone.
LEMMA IdleStepsAreGood ==
  ASSUME Good(Memory), UNCHANGED <<stack, frames, globals, heap>>
  PROVE  Good(Memory)'
<1>1. Memory' = Memory
  BY DEF Memory
<1>2. QED
  BY <1>1

\* Values, strings and variables.
LEMMA AtomsAreGood ==
  ASSUME LispInv, Good(Memory), EvalAtom \/ EvalString \/ \E x \in Name : EvalSymbol(x)
  PROVE  Good(Memory)'
<1>1. ASSUME NEW v \in Roots(Memory) \cup {Imm}, Become(Pushed(Memory, <<v>>)) PROVE Good(Memory)'
  <2> DEFINE n == Pushed(Memory, <<v>>)
  <2>1. Memory \in Memories /\ v \in Val /\ <<v>> \in Seq(Val)
    BY PartsAre, RootsAre, Literals DEF LispInv
  <2>2. n \in Memories /\ Good(n)
    BY <2>1, PushedIs, GoodHere
  <2> HIDE DEF n
  <2>3. QED
    BY <1>1, <2>2, GoodNext DEF n
<1>2. CASE EvalAtom
  BY <1>1, <1>2 DEF EvalAtom, Return
<1>3. CASE EvalString
  <2>1. PICK m \in MaybeGc(Memory) : \E i \in Unused(m) : Return(AllocString(m, i))
    BY <1>3 DEF EvalString
  <2>2. PICK i \in Unused(m) : Return(AllocString(m, i))
    BY <2>1
  <2>3. m \in Memories /\ Good(m)
    BY SafeHere
  <2> DEFINE n == AllocString(m, i)
             fields == <<>>
  <2>4. /\ Become(n) /\ OneMore(m, n, <<"string", i, Elsewhere>>, fields, FALSE)
        /\ fields \in Seq(Val) /\ DOMAIN fields = {}
    <3>1. fields \in Seq(Val) /\ DOMAIN fields = {}
      OBVIOUS
    <3>2. Become(n)
      BY <2>2 DEF Return
    <3>3. OneMore(m, n, <<"string", i, Elsewhere>>, fields, FALSE)
      BY <2>3, AllocStringIs
    <3>4. QED
      BY <3>1, <3>2, <3>3
  <2> HIDE DEF n, fields
  <2>5. n \in Memories
    BY <2>4 DEF OneMore
  <2>6. Good(n)
    BY <2>3, <2>4, GoodGrown
  <2>7. QED
    BY <2>4, <2>5, <2>6, GoodNext
<1>4. ASSUME NEW x \in Name, EvalSymbol(x) PROVE Good(Memory)'
  <2>1. ValueOf(x) \in Roots(Memory) /\ Become(Pushed(Memory, <<ValueOf(x)>>))
    BY <1>4, ValueOfIs DEF EvalSymbol, Return, LispInv
  <2>2. QED
    BY <1>1, <2>1
<1>5. QED
  BY <1>2, <1>3, <1>4

\* Values dropped from the stack, or replaced on it.
LEMMA ValuesAreGood ==
  ASSUME LispInv, Good(Memory), NextForm \/ TakeBranch \/ SkipBranch \/ Decided
  PROVE  Good(Memory)'
<1>1. mode = "return"
  BY DEF NextForm, TakeBranch, SkipBranch, Decided, Returning
<1>2. Len(stack) >= 1 /\ 1 \in 0 .. Len(stack) /\ Value \in Roots(Memory) /\ Value \in Val
      /\ MemoryInv /\ Imm \in Val
  BY <1>1, ValueThere, WordsAre
<1>3. CASE NextForm \/ TakeBranch
  <2> DEFINE n == Popped(Memory, 1)
  <2>1. Become(n)
    BY <1>3 DEF NextForm, TakeBranch
  <2>2. n \in Memories /\ Good(n)
    BY <1>2, PoppedHere, GoodHere
  <2> HIDE DEF n
  <2>3. QED
    BY <2>1, <2>2, GoodNext
<1>4. ASSUME NEW v \in Roots(Memory) \cup {Imm}, v \in Val, Become(Pushed(Popped(Memory, 1), <<v>>))
      PROVE  Good(Memory)'
  <2> DEFINE n == Pushed(Popped(Memory, 1), <<v>>)
  <2>1. n \in Memories /\ Good(n)
    BY <1>2, <1>4, ReplacedHere, GoodHere
  <2> HIDE DEF n
  <2>2. QED
    BY <1>4, <2>1, GoodNext DEF n
<1>5. CASE SkipBranch
  BY <1>2, <1>4, <1>5 DEF SkipBranch, Return
<1>6. CASE Decided
  BY <1>2, <1>4, <1>6 DEF Decided, Return
<1>7. QED
  BY <1>3, <1>5, <1>6

\* define and set!.
LEMMA BindingsAreGood ==
  ASSUME LispInv, Good(Memory), Define \/ Assign
  PROVE  Good(Memory)'
<1> DEFINE x == Top.names[1]
<1>1. mode = "return" /\ x \in Name
  BY TopName DEF Define, Assign, Returning
<1>2. Len(stack) >= 1 /\ Value \in Roots(Memory) /\ Value \in Val /\ MemoryInv
  BY <1>1, ValueThere
<1>3. /\ Memory \in Memories /\ Memory.stack = stack /\ Memory.frames = frames
      /\ Memory.globals = globals /\ Memory.heap = heap /\ stack \in Seq(Val) /\ Len(stack) \in Nat
  BY <1>2, PartsAre
<1>4. ASSUME NEW n \in Memories, n.heap = heap, Roots(n) \subseteq Roots(Memory) \cup {Value, Imm},
             Become(n)
      PROVE  Good(Memory)'
  <2>1. Good(n)
    BY <1>2, <1>3, <1>4 DEF Good, Sound
  <2>2. QED
    BY <1>4, <2>1, GoodNext
<1>5. CASE Define
  <2> DEFINE n == Defined(x, Value)
             k == Len(stack) - 1
             s == SubSeq(stack, 1, k)
  <2>1. Become(n)
    BY <1>5 DEF Define, Defined, Return
  <2>2. k \in Nat /\ k \in 0 .. Len(stack)
    BY <1>2, <1>3
  <2>3. /\ n \in Memories /\ n.stack = Append(s, Imm)
        /\ n.frames = frames /\ n.heap = heap
        /\ DOMAIN n.globals = DOMAIN globals \cup {x}
        /\ n.globals[x] = Value
        /\ \A y \in DOMAIN globals : n.globals[y] = IF y = x THEN Value ELSE globals[y]
    BY <1>1, <1>2, DefineMemory
  <2> HIDE DEF n, x, k
  <2>4. s \in Seq(Val) /\ Len(s) = k /\ \A i \in 1 .. k : s[i] = stack[i] /\ i \in DOMAIN stack
    BY <1>3, <2>2, Shortened
  <2> HIDE DEF s
  <2>5. \A i \in DOMAIN n.stack : n.stack[i] \in Roots(Memory) \cup {Imm}
    <3>1. /\ DOMAIN Append(s, Imm) = 1 .. k + 1 /\ Append(s, Imm)[k + 1] = Imm
          /\ \A i \in 1 .. k : Append(s, Imm)[i] = s[i]
      BY <2>2, <2>4, WordsAre
    <3>2. \A i \in 1 .. k + 1 : i \in 1 .. k \/ i = k + 1
      BY <2>2
    <3>3. \A i \in 1 .. k : s[i] \in Roots(Memory)
      BY <1>3, <2>4, RootsAre
    <3>4. QED
      BY <2>3, <3>1, <3>2, <3>3
  <2>6. ASSUME NEW v \in Roots(n) PROVE v \in Roots(Memory) \cup {Value, Imm}
    <3>1. CASE \E i \in DOMAIN n.stack : v = n.stack[i]
      BY <2>5, <3>1
    <3>2. CASE \E g \in DOMAIN n.frames : \E b \in DOMAIN n.frames[g] : v = n.frames[g][b][2]
      BY <1>3, <2>3, <3>2, RootsAre
    <3>3. CASE \E y \in DOMAIN n.globals : v = n.globals[y]
      BY <1>3, <2>3, <3>3, RootsAre
    <3>4. QED
      BY <2>3, <3>1, <3>2, <3>3, RootsAre
  <2>7. QED
    BY <1>4, <2>1, <2>3, <2>6
<1>6. CASE Assign
  <2> DEFINE n == Assigned(x, Value)
  <2>1. Become(n) /\ Bound(x)
    BY <1>6 DEF Assign, Assigned, Return
  <2> HIDE DEF x
  <2>2. n \in Memories /\ n.heap = heap /\ Roots(n) \subseteq Roots(Memory) \cup {Value, Imm}
    BY <1>1, <1>2, <2>1, AssignMemory
  <2> HIDE DEF n
  <2>3. QED
    BY <1>4, <2>1, <2>2
<1>7. QED
  BY <1>5, <1>6

\* Frames opened, with the values that were on the stack, and dropped.
LEMMA FramesAreGood ==
  ASSUME LispInv, Good(Memory), OpenScope \/ EndScope \/ Call
  PROVE  Good(Memory)'
<1>1. /\ Memory \in Memories /\ Memory.stack = stack /\ Memory.frames = frames
      /\ Memory.globals = globals /\ Memory.heap = heap
  BY PartsAre DEF LispInv
\* A frame whose values were above the height the present entry began at.
<1>2. ASSUME NEW names \in Seq(Name), NEW values \in Seq(Val), Len(names) = Len(values),
             Top.high \in 0 .. Len(stack),
             \A i \in 1 .. Len(values) : values[i] \in Roots(Memory),
             Become([Below(Memory) EXCEPT !.frames = Append(@, Frame(names, values))])
      PROVE  Good(Memory)'
  <2> DEFINE b == Below(Memory)
             f == Frame(names, values)
             m == [b EXCEPT !.frames = Append(@, f)]
  <2>1. b \in Memories /\ b.heap = heap /\ b.frames = frames /\ b.globals = globals
    BY <1>2, BelowHere DEF LispInv
  <2>2. Good(b)
    BY <1>2, GoodHere
  <2>3. /\ f \in Scopes /\ DOMAIN f = 1 .. Len(names)
        /\ \A i \in 1 .. Len(names) : f[i][2] = values[i]
    BY <1>2, FrameIs
  <2> HIDE DEF b, f
  <2>4. m \in Memories
    BY <2>1, <2>3, FrameOpened
  <2>5. ASSUME NEW v \in Roots(m) PROVE Sound(v, m.heap)
    <3>1. /\ m.frames = Append(b.frames, f) /\ m.stack = b.stack /\ m.heap = b.heap
          /\ m.globals = b.globals
      BY <2>1, <2>3, FrameOpened
    <3> HIDE DEF m
    <3>2. b.frames \in Seq(Scopes)
      BY <2>1, MemoryIs
    <3>3. \A j \in DOMAIN m.frames : \/ j \in DOMAIN b.frames /\ m.frames[j] = b.frames[j]
                                     \/ m.frames[j] = f
      BY <2>3, <3>1, <3>2
    <3>4. v \in Roots(b) \cup Roots(Memory)
      <4>1. CASE \E i \in DOMAIN m.stack : v = m.stack[i]
        BY <2>1, <3>1, <4>1, RootsAre
      <4>2. CASE \E j \in DOMAIN m.frames : \E k \in DOMAIN m.frames[j] : v = m.frames[j][k][2]
        <5>1. PICK j \in DOMAIN m.frames : \E k \in DOMAIN m.frames[j] : v = m.frames[j][k][2]
          BY <4>2
        <5>2. CASE j \in DOMAIN b.frames /\ m.frames[j] = b.frames[j]
          BY <2>1, <5>1, <5>2, RootsAre
        <5>3. CASE m.frames[j] = f
          <6>1. \E k \in DOMAIN f : v = f[k][2]
            BY <5>1, <5>3
          <6>2. DOMAIN f = 1 .. Len(values)
            BY <1>2, <2>3
          <6>3. \A k \in 1 .. Len(values) : f[k][2] \in Roots(Memory)
            BY <1>2, <2>3
          <6>4. QED
            BY <6>1, <6>2, <6>3
        <5>4. QED
          BY <3>3, <5>2, <5>3
      <4>3. CASE \E x \in DOMAIN m.globals : v = m.globals[x]
        BY <2>1, <3>1, <4>3, RootsAre
      <4>4. QED
        BY <2>4, <4>1, <4>2, <4>3, RootsAre
    <3>5. QED
      BY <1>1, <2>1, <2>2, <3>1, <3>4 DEF Good
  <2>6. Good(m)
    <3>1. m.heap = b.heap
      BY <2>1, <2>3, FrameOpened
    <3> HIDE DEF m
    <3>2. QED
      BY <2>2, <2>5, <3>1 DEF Good
  <2>7. Become(m)
    BY <1>2 DEF b, f
  <2> HIDE DEF m
  <2>8. QED
    BY <2>4, <2>6, <2>7, GoodNext
<1>3. CASE OpenScope
  <2>1. \/ /\ Returning("let") /\ Top.left = 0
           /\ Become([Below(Memory) EXCEPT !.frames = Append(@, Frame(Top.names, Above))])
        \/ Become([Memory EXCEPT !.frames = Append(@, <<>>)])
    BY <1>3 DEF OpenScope
  <2>2. CASE /\ Returning("let") /\ Top.left = 0
             /\ Become([Below(Memory) EXCEPT !.frames = Append(@, Frame(Top.names, Above))])
    <3>1. /\ Top.high \in 0 .. Len(stack) /\ Above \in Seq(Val) /\ Len(Above) = Len(Top.names)
          /\ Len(Above) = Len(stack) - Top.high
          /\ \A i \in 1 .. Len(Above) : Above[i] = stack[Top.high + i]
      BY <2>2, LetValues
    <3>2. Top.names \in Seq(Name)
      <4>1. mode = "return" /\ kont # <<>>
        BY <2>2, ReturningIs
      <4>2. Top \in Entry
        BY <4>1, CallersAre
      <4>3. QED
        BY <4>2 DEF Entry
    <3>3. \A i \in 1 .. Len(Above) : Above[i] \in Roots(Memory)
      <4> DEFINE t == Top.high
                 a == Len(Above)
      <4>1. /\ t \in 0 .. Len(stack) /\ a = Len(stack) - t /\ DOMAIN stack = 1 .. Len(stack)
            /\ Len(stack) \in Nat /\ \A i \in 1 .. a : Above[i] = stack[t + i]
        BY <3>1, PartsAre DEF LispInv
      <4> HIDE DEF t, a
      <4>2. \A i \in 1 .. a : t + i \in DOMAIN stack
        BY <4>1
      <4>3. \A i \in 1 .. a : Above[i] \in Roots(Memory)
        BY <1>1, <4>1, <4>2, RootsAre
      <4>4. QED
        BY <4>3 DEF a
    <3>4. QED
      BY <1>2, <2>2, <3>1, <3>2, <3>3
  <2>3. CASE Become([Memory EXCEPT !.frames = Append(@, <<>>)])
    <3> DEFINE f == <<>>
               m == [Memory EXCEPT !.frames = Append(@, f)]
    <3>1. f \in Scopes /\ DOMAIN f = {}
      BY DEF Scopes
    <3>2. Become(m)
      BY <2>3
    <3> HIDE DEF f
    <3>3. m \in Memories
      BY <1>1, <3>1, FrameOpened
    <3>4. Good(m)
      BY <1>1, <3>1, GoodFrame
    <3> HIDE DEF m
    <3>5. QED
      BY <3>2, <3>3, <3>4, GoodNext
  <2>4. QED
    BY <2>1, <2>2, <2>3
<1>4. CASE EndScope
  <2> DEFINE m == [Memory EXCEPT !.frames = SubSeq(@, 1, Len(@) - 1)]
  <2>1. Become([Memory EXCEPT !.frames = Front(@)])
    BY <1>4 DEF EndScope, Return
  <2>2. Become(m)
    BY <2>1 DEF Front
  <2>3. 1 \in 0 .. Len(Memory.frames)
    <3>1. PICK k \in {"scope", "call"} : Returning(k)
      BY <1>4 DEF EndScope
    <3>2. mode = "return" /\ kont # <<>> /\ Top.k = k
      BY <3>1, ReturningIs
    <3>3. Settles(Callers) /\ Len(frames) = Cardinality(Scoped(Callers)) + Opens(Top) /\ Opens(Top) = 1
      BY <3>2, CallersAre DEF Opens
    <3>4. Cardinality(Scoped(Callers)) \in Nat
      BY <3>3, ScopedIs DEF Settles, Stacked
    <3>5. QED
      BY <1>1, <3>3, <3>4
  <2>4. m \in Memories
    BY <1>1, <2>3, FramesDropped
  <2>5. Good(m)
    BY <1>1, <2>3, GoodDropped
  <2> HIDE DEF m
  <2>6. QED
    BY <2>2, <2>4, <2>5, GoodNext
<1>5. CASE Call
  <2>1. Calling
    BY <1>5 DEF Call
  <2>2. PICK params \in Names(Len(Args)) :
          Become([Below(Memory) EXCEPT !.frames = Append(@, Frame(params, Args))])
    BY <1>5 DEF Call
  <2>3. /\ Top.high \in 0 .. Len(stack) /\ Args \in Seq(Val) /\ Len(Args) \in Nat
        /\ \A i \in 1 .. Len(Args) : Args[i] \in Roots(Memory)
    BY <2>1, CallingIs, ArgsAre
  <2>4. params \in Seq(Name) /\ Len(params) = Len(Args)
    BY <2>3, NamesAre
  <2>5. QED
    BY <1>2, <2>2, <2>3, <2>4
<1>6. QED
  BY <1>3, <1>4, <1>5

\* The end of a top-level form, which lets the heap collect, and of a failed one.
LEMMA EndsAreGood ==
  ASSUME LispInv, Good(Memory), EndForm \/ Fail
  PROVE  Good(Memory)'
<1>1. /\ Memory \in Memories /\ MemoryInv
  BY PartsAre DEF LispInv
<1>2. mode = "return" => 1 \in 0 .. Len(stack) /\ Popped(Memory, 1) \in Memories
                         /\ Good(Popped(Memory, 1))
  BY ValueThere, PoppedHere, GoodHere
<1>3. CASE EndForm
  <2> DEFINE p == Popped(Memory, 1)
  <2>1. PICK m \in MaybeGc(p) : Become(m)
    BY <1>3 DEF EndForm
  <2>2. p \in Memories /\ Good(p)
    BY <1>2, <1>3 DEF EndForm
  <2> HIDE DEF p
  <2>3. m \in Memories /\ Follows(p, m) /\ Solid(m.heap)
    BY <2>1, <2>2, MaybeGcIs DEF Good
  <2>4. Good(m)
    BY <2>2, <2>3, GoodFollows
  <2>5. QED
    BY <2>1, <2>3, <2>4, GoodNext
<1>4. CASE Fail
  <2>1. PICK m \in Memories, k \in Nat :
          /\ \/ Calling /\ m = Below(Memory)
             \/ mode = "return" /\ m = Popped(Memory, 1)
             \/ m = Memory
          /\ k \in 0 .. Len(m.frames)
          /\ Become([m EXCEPT !.frames = SubSeq(@, 1, Len(@) - k)])
    BY <1>4, FailMemory
  <2>2. Calling => Good(Below(Memory))
    BY CallingIs, GoodHere
  <2>3. Good(m)
    BY <1>2, <2>1, <2>2
  <2> DEFINE n == [m EXCEPT !.frames = SubSeq(@, 1, Len(@) - k)]
  <2>4. n \in Memories /\ Good(n)
    BY <2>1, <2>3, FramesDropped, GoodDropped
  <2> HIDE DEF n
  <2>5. QED
    BY <2>1, <2>4, GoodNext DEF n
<1>5. QED
  BY <1>3, <1>4

\* list and the other builtins, make-vector with an immediate init value among them.
LEMMA BuiltinsAreGood ==
  ASSUME AnyInit = FALSE, LispInv, Good(Memory),
         \/ List \/ ListCons \/ ListDone
         \/ ConsPair \/ Vector \/ MakeVector \/ Access \/ VectorSet \/ CollectNow \/ Inspect
  PROVE  Good(Memory)'
<1>1. ASSUME NEW n, Yields(n), Result(n) PROVE Good(Memory)'
  <2>1. n \in Memories /\ Good(n) /\ Become(n)
    BY <1>1 DEF Yields, Keeps, Result, Return
  <2>2. QED
    BY <2>1, GoodNext
<1>2. CASE List
  <2> DEFINE n == Pushed(Memory, <<Imm>>)
  <2>1. n \in Memories /\ Become(n) /\ Good(n)
    BY <1>2, ListMemory
  <2> HIDE DEF n
  <2>2. QED
    BY <2>1, GoodNext
<1>3. CASE ListCons
  <2>1. PICK n \in Memories : Become(n) /\ (Good(Memory) => Good(n))
    BY <1>3, ListConsMemory
  <2>2. QED
    BY <2>1, GoodNext
<1>4. CASE ListDone
  BY <1>1, <1>4, ListDoneMemory
<1>5. CASE \/ ConsPair \/ Vector \/ MakeVector \/ Access \/ VectorSet \/ CollectNow \/ Inspect
  BY <1>1, <1>5, BuiltinYields
<1>6. QED
  BY <1>2, <1>3, <1>4, <1>5

\* Every step leaves sound words only.
LEMMA StepIsGood ==
  ASSUME AnyInit = FALSE, LispInv, Good(Memory), [Next]_vars
  PROVE  Good(Memory)'
<1>1. CASE StartForm \/ EvalForm \/ EvalThunk \/ NextOperand \/ UNCHANGED vars
  <2>1. UNCHANGED <<stack, frames, globals, heap>>
    BY <1>1 DEF StartForm, EvalForm, EvalThunk, NextOperand, vars
  <2>2. QED
    BY <2>1, IdleStepsAreGood
<1>2. CASE EvalAtom \/ EvalString \/ \E x \in Name : EvalSymbol(x)
  BY <1>2, AtomsAreGood
<1>3. CASE NextForm \/ TakeBranch \/ SkipBranch \/ Decided
  BY <1>3, ValuesAreGood
<1>4. CASE Define \/ Assign
  BY <1>4, BindingsAreGood
<1>5. CASE OpenScope \/ EndScope \/ Call
  BY <1>5, FramesAreGood
<1>6. CASE EndForm \/ Fail
  BY <1>6, EndsAreGood
<1>7. CASE \/ List \/ ListCons \/ ListDone
           \/ ConsPair \/ Vector \/ MakeVector \/ Access \/ VectorSet \/ CollectNow \/ Inspect
  BY <1>7, BuiltinsAreGood
<1>8. QED
  BY <1>1, <1>2, <1>3, <1>4, <1>5, <1>6, <1>7 DEF Next

\* What is sound is what the interpreter can read.
LEMMA SoundIsCurrent ==
  ASSUME LispInv, Good(Memory)
  PROVE  WordsNameTheirObjects
<1> DEFINE V == Roots(Memory) \cup Fields(DOMAIN heap, heap)
<1>1. Memory.heap = heap
  BY PartsAre DEF LispInv
<1>2. \A v \in Fields(DOMAIN heap, heap) : Sound(v, heap)
  BY <1>1 DEF Fields, ToSet, Good, Solid, Sound
<1>3. \A v \in Roots(Memory) : Sound(v, heap)
  BY <1>1 DEF Good
<1>4. \A v \in V : Sound(v, heap)
  BY <1>2, <1>3
<1> HIDE DEF V
<1>5. Lost \notin V
  BY <1>4, WordsAre DEF Sound
<1>6. \A v \in WordsIn(V) : Current(v, heap)
  BY <1>4, WordsAre DEF WordsIn, Sound
<1>7. QED
  BY <1>5, <1>6 DEF WordsNameTheirObjects, V

\* No Rust local, frame, global or field of the interpreter holds a word that
\* missed a collection ("Rust-local Values that hold Word slots must not straddle
\* a GC safepoint", eval.rs:17-18), whatever the program, as long as it passes
\* make-vector no word to fill a vector with: that builtin marks no card.
THEOREM WordsAreCurrent ==
  ASSUME AnyInit = FALSE
  PROVE  Spec => []WordsNameTheirObjects
<1>1. Init => Good(Memory)
  <2>1. ASSUME Init PROVE Roots(Memory) = {} /\ DOMAIN Memory.heap = {}
    <3>1. Memory \in Memories
      BY <2>1, InitHolds DEF LispInv, MemoryInv
    <3>2. /\ DOMAIN Memory.stack = {} /\ DOMAIN Memory.frames = {}
          /\ DOMAIN Memory.globals = {} /\ DOMAIN Memory.heap = {}
      BY <2>1 DEF Init, Memory
    <3>3. QED
      BY <3>1, <3>2, RootsAre
  <2>2. QED
    BY <2>1 DEF Good, Solid, Noted
<1>2. LispInv /\ Good(Memory) /\ [Next]_vars => Good(Memory)'
  BY StepIsGood
<1>3. LispInv /\ Good(Memory) => WordsNameTheirObjects
  BY SoundIsCurrent
<1>4. QED
  BY <1>1, <1>2, <1>3, LispInvariance, PTL DEF Spec
=============================================================================
