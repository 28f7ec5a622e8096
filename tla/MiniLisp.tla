------------------------------ MODULE MiniLisp ------------------------------
(***************************************************************************)
(* The interpreter of newgc-test-lisp as a client of the collector: a tree *)
(* walker whose Rust frames (kont), value stack, local frames and globals  *)
(* hold words that every collection moves.                                 *)
(*                                                                         *)
(* The program is arbitrary: wherever an expression is evaluated it may be *)
(* any form.  Immediates are one value, of either truth.  A word is        *)
(* <<tag, id, moves>>: the object it names, and how often that object had  *)
(* been moved when the word was written; it is current when the object has *)
(* not moved since.  Between steps counts are settled to 0 and words that  *)
(* are not current become Lost; objects nobody can reach are forgotten.    *)
(*                                                                         *)
(* The collector is reduced to what the client sees of it (PageHeap has    *)
(* the rest): a pass moves what it marks in one generation, from the roots *)
(* and the objects on dirty cards, and rewrites those, the moved ones and  *)
(* the destination.                                                        *)
(***************************************************************************)
EXTENDS Integers, SequencesExt

CONSTANTS
  Id,            \* identities of heap objects: bounds how many are live
  Name,          \* variable names
  Cycles,        \* what a safepoint may run: sequences of passes <<from, dest>>
  MaxArgs,       \* bounds argument lists, bindings and bodies,
  MaxCells,      \* the length of vectors,
  MaxDepth,      \* the nesting of expressions,
  MaxStack,      \* the value stack
  MaxFrames,     \* and the local frames
  AnyInit        \* does make-vector take words as its init value?

Generation == {"G0", "G1", "Tenured"}

ASSUME BoundsAssumption ==
  /\ MaxArgs \in Nat
  /\ MaxCells \in Nat
  /\ IsFiniteSet(Id)
  /\ Cycles \subseteq Seq(Generation \X Generation)

VARIABLES
  mode,     \* what the innermost Rust frame is about to do
  kont,     \* the pending Rust frames, innermost last
  stack,    \* value_stack
  frames,   \* local bindings: sequences of <<name, value>>
  globals,  \* defined names and their values
  heap      \* reachable objects

vars == <<mode, kont, stack, frames, globals, heap>>

Imm == <<"immediate">>
Lost == <<"lost">>
IsWord(v) == Len(v) = 3
WordsIn(V) == {v \in V : IsWord(v)}

Current(v, h) ==
  /\ v[2] \in DOMAIN h
  /\ h[v[2]].kind = v[1] /\ h[v[2]].moves = v[3]

Fields(S, h) == UNION {ToSet(h[i].fields) : i \in S}
Named(V, h) == {v[2] : v \in {w \in WordsIn(V) : Current(w, h)}}

\* Objects of a set S that the values V lead to without leaving S.
Reach(V, S, h) ==
  LET within[n \in 0 .. Cardinality(Id)] ==
        IF n = 0 THEN Named(V, h) \cap S
        ELSE within[n - 1] \cup (Named(Fields(within[n - 1], h), h) \cap S)
  IN  within[Cardinality(Id)]

-----------------------------------------------------------------------------
(* The memory m = [heap, stack, frames, globals] and its collection.       *)

Memory == [heap |-> heap, stack |-> stack, frames |-> frames, globals |-> globals]

\* Every root slot: gather_roots.
Roots(m) ==
  ToSet(m.stack) \cup {b[2] : b \in UNION {ToSet(f) : f \in ToSet(m.frames)}}
    \cup {m.globals[x] : x \in DOMAIN m.globals}

\* What stands for each value v written back to its slots: scatter_roots.
Scattered(m, new) ==
  [m EXCEPT !.stack = [i \in DOMAIN @ |-> new[@[i]]],
            !.frames = [f \in DOMAIN @ |->
                          [b \in DOMAIN @[f] |-> <<@[f][b][1], new[@[f][b][2]]>>]],
            !.globals = [x \in DOMAIN @ |-> new[@[x]]]]

\* One pass over the generation pass[1].
Passed(m, pass) ==
  LET h == m.heap
      from == {i \in DOMAIN h : h[i].gen = pass[1]}
      scanned == {i \in DOMAIN h \ from : h[i].dirty}
      moved == Reach(Roots(m) \cup Fields(scanned, h), from, h)
      Followed(v) == IF IsWord(v) /\ Current(v, h) /\ v[2] \in moved
                     THEN <<v[1], v[2], v[3] + 1>> ELSE v
      rewritten == scanned \cup moved \cup {i \in DOMAIN h : h[i].gen = pass[2]}
      fields(i) == IF i \in rewritten
                   THEN [k \in DOMAIN h[i].fields |-> Followed(h[i].fields[k])]
                   ELSE h[i].fields
      after == [i \in (DOMAIN h \ from) \cup moved |->
                  IF i \in moved
                  THEN [h[i] EXCEPT !.gen = pass[2], !.moves = @ + 1,
                                    !.dirty = TRUE, !.fields = fields(i)]
                  ELSE [h[i] EXCEPT !.fields = fields(i)]]
  IN  [Scattered(m, [v \in Roots(m) |-> Followed(v)]) EXCEPT !.heap = after]

\* do_collect: the passes of a cycle, then the cards of whatever holds words.
Collected(m, cycle) ==
  LET after[k \in 0 .. Len(cycle)] ==
        IF k = 0 THEN m ELSE Passed(after[k - 1], cycle[k])
      done == after[Len(cycle)]
  IN  IF cycle = <<>> THEN m
      ELSE [done EXCEPT !.heap = [i \in DOMAIN @ |-> [@[i] EXCEPT !.dirty = TRUE]]]

\* A safepoint collects or not, as the heap or the peers decide: maybe_gc.
MaybeGc(m) == {Collected(m, c) : c \in Cycles}

Pushed(m, values) == [m EXCEPT !.stack = @ \o values]
Popped(m, n) == [m EXCEPT !.stack = SubSeq(@, 1, Len(@) - n)]

\* Between two steps: words are current or lost, garbage is forgotten, and a
\* card without words on it is as good as dirty.
Settled(m) ==
  LET h == m.heap
      live == Reach(Roots(m), DOMAIN h, h)
      Now(v) == IF ~IsWord(v) THEN v
                ELSE IF Current(v, h) THEN <<v[1], v[2], 0>> ELSE Lost
      object(i) == [h[i] EXCEPT !.moves = 0,
                      !.fields = [k \in DOMAIN @ |-> Now(@[k])],
                      !.dirty = @ \/ WordsIn(ToSet(h[i].fields)) = {}]
  IN  [Scattered(m, [v \in Roots(m) |-> Now(v)])
         EXCEPT !.heap = [i \in live |-> object(i)]]

Become(m) ==
  LET s == Settled(m) IN
  /\ Len(s.stack) <= MaxStack /\ Len(s.frames) <= MaxFrames
  /\ heap' = s.heap /\ stack' = s.stack
  /\ frames' = s.frames /\ globals' = s.globals

-----------------------------------------------------------------------------
(* Allocation: in G0, at an address no word names yet.                     *)

Elsewhere == 99

\* What a new object may be; with nothing left the allocation panics.
Unused(m) == Id \ DOMAIN m.heap

\* The object i, and its word on the stack.
Allocated(m, i, kind, fields, dirty) ==
  [m EXCEPT !.heap = [k \in DOMAIN @ \cup {i} |->
                        IF k = i THEN [kind |-> kind, gen |-> "G0", moves |-> Elsewhere,
                                       fields |-> fields, dirty |-> dirty]
                        ELSE @[k]],
            !.stack = Append(@, <<kind, i, Elsewhere>>)]

\* alloc_pair marks the card of the new cell, alloc_vector does not.
AllocPair(m, i, car, cdr) == Allocated(m, i, "pair", <<car, cdr>>, TRUE)
AllocVector(m, i, n, init) == Allocated(m, i, "vector", [k \in 1 .. n |-> init], FALSE)
AllocString(m, i) == Allocated(m, i, "string", <<>>, FALSE)

\* vector_set: the store and its barrier.
StoredField(m, i, k, value) ==
  [m EXCEPT !.heap[i].fields[k] = value, !.heap[i].dirty = TRUE]

\* The fields of a new vector stored one by one, each with its barrier.
Filled(m, i, values) ==
  [m EXCEPT !.heap[i].fields = values, !.heap[i].dirty = values # <<>>]

-----------------------------------------------------------------------------
(* Evaluating expressions.  A pending Rust frame has a kind k, how many    *)
(* expressions it evaluates and how many of them after the present one,    *)
(* the height of the stack it began at, and the variables it will bind.    *)

Top == kont[Len(kont)]
Callers == SubSeq(kont, 1, Len(kont) - 1)

Pending(k, total, names) ==
  [k |-> k, total |-> total, left |-> total - 1, high |-> Len(stack), names |-> names]

\* The Rust frames k when left expressions remain to be evaluated in the last.
Remaining(k, left) ==
  IF k[Len(k)].k = "body" /\ left = 0 THEN Front(k)
  ELSE [k EXCEPT ![Len(k)].left = left]

Init ==
  /\ mode = "idle"
  /\ kont = <<>> /\ stack = <<>> /\ frames = <<>>
  /\ globals = <<>>
  /\ heap = <<>>

\* The next top-level form.  Nobody goes on after an error that left values or
\* frames behind: all users of run_source stop there.
StartForm ==
  /\ mode = "idle" /\ stack = <<>> /\ frames = <<>>
  /\ mode' = "eval"
  /\ UNCHANGED <<kont, stack, frames, globals, heap>>

\* The expression is done: its value is pushed onto m's stack.
Return(m) == mode' = "return" /\ Become(m)

\* A number, a bool, nil, a quoted one, a function definition, a form with no
\* expressions in it.
EvalAtom ==
  /\ mode = "eval"
  /\ Return(Pushed(Memory, <<Imm>>))
  /\ UNCHANGED kont

\* A string literal, quoted or not.
EvalString ==
  /\ mode = "eval"
  /\ \E m \in MaybeGc(Memory) : \E i \in Unused(m) : Return(AllocString(m, i))
  /\ UNCHANGED kont

\* The innermost binding of x, else its global: lookup.
Binders(x) == {f \in DOMAIN frames : \E b \in ToSet(frames[f]) : b[1] = x}
Slot(x) ==
  LET f == CHOOSE f \in Binders(x) : \A g \in Binders(x) : g <= f
      bs == {b \in DOMAIN frames[f] : frames[f][b][1] = x}
  IN  <<f, CHOOSE b \in bs : \A a \in bs : b <= a>>
Bound(x) == Binders(x) # {} \/ x \in DOMAIN globals
ValueOf(x) == IF Binders(x) # {} THEN frames[Slot(x)[1]][Slot(x)[2]][2] ELSE globals[x]

EvalSymbol(x) ==
  /\ mode = "eval" /\ Bound(x)
  /\ Return(Pushed(Memory, <<ValueOf(x)>>))
  /\ UNCHANGED kont

\* Evaluate the next expression inside the frames k.
Enter(k) ==
  /\ Len(k) <= MaxDepth
  /\ kont' = k
  /\ mode' = "eval"

\* Lists of n variables; nobody binds one twice in a let or parameter list.
Names(n) == {f \in [1 .. n -> Name] : IsInjective(f)}

\* A form whose first expression comes next: if (and when, unless), define,
\* set!, a begin, and or or of several expressions, let, and calls.  A form
\* that only passes on the value of its last expression is that expression.
EvalForm ==
  /\ mode = "eval"
  /\ \/ Enter(Append(kont, Pending("if", 1, <<>>)))
     \/ \E x \in Name, k \in {"define", "set"} : Enter(Append(kont, Pending(k, 1, <<x>>)))
     \/ \E n \in 2 .. MaxArgs : Enter(Append(kont, Pending("body", n, <<>>)))
     \/ \E n \in 1 .. MaxArgs : Enter(Append(kont, Pending("args", n, <<>>)))
     \/ \E n \in 1 .. MaxArgs : \E names \in Names(n) :
          Enter(Append(kont, Pending("let", n, names)))
  /\ UNCHANGED <<stack, frames, globals, heap>>

\* A call without arguments.
EvalThunk ==
  /\ mode = "eval" /\ Len(kont) < MaxDepth
  /\ kont' = Append(kont, [Pending("args", 1, <<>>) EXCEPT !.total = 0, !.left = 0])
  /\ mode' = "apply"
  /\ UNCHANGED <<stack, frames, globals, heap>>

-----------------------------------------------------------------------------
(* Going on with the value just pushed.                                    *)

Value == stack[Len(stack)]
Returning(k) == mode = "return" /\ kont # <<>> /\ Top.k = k

\* The next binding of a let or argument of a call; values stay on the stack.
NextOperand ==
  /\ \E k \in {"let", "args"} : Returning(k)
  /\ Top.left > 0
  /\ Enter(Remaining(kont, Top.left - 1))
  /\ UNCHANGED <<stack, frames, globals, heap>>

\* Mutant of NextForm: the value of the form before stays on the stack.
NextFormKept ==
  /\ \E k \in {"body", "scope"} : Returning(k)
  /\ Top.left > 0
  /\ Enter(Remaining(kont, Top.left - 1))
  /\ Become(Memory)

\* The next form of a begin, and, or, or let body; the value of the one before
\* is dropped.
NextForm ==
  /\ \E k \in {"body", "scope"} : Returning(k)
  /\ Top.left > 0
  /\ Enter(Remaining(kont, Top.left - 1))
  /\ Become(Popped(Memory, 1))

\* A value that decides an and or an or is its result.
Decided ==
  /\ Returning("body")
  /\ Return(Pushed(Popped(Memory, 1), <<Value>>))
  /\ kont' = Callers

\* A branch of an if, or the body of a when or unless, is evaluated in its
\* place; without one the result is nil.
TakeBranch ==
  /\ Returning("if")
  /\ Enter(Callers)
  /\ Become(Popped(Memory, 1))
SkipBranch ==
  /\ Returning("if")
  /\ Return(Pushed(Popped(Memory, 1), <<Imm>>))
  /\ kont' = Callers

\* The values above the height at which this form began: split_off.
Above == SubSeq(stack, Top.high + 1, Len(stack))
Below(m) == [m EXCEPT !.stack = SubSeq(@, 1, Top.high)]

Frame(names, values) == [i \in DOMAIN names |-> <<names[i], values[i]>>]

\* A let with its values, or with no bindings, opens a scope for its body.
OpenScope ==
  \E n \in 0 .. MaxArgs - 1 :
  \/ /\ Returning("let") /\ Top.left = 0
     /\ Enter(Append(Callers, [Top EXCEPT !.k = "scope", !.total = 1, !.left = n,
                                          !.names = <<>>]))
     /\ Become([Below(Memory) EXCEPT !.frames = Append(@, Frame(Top.names, Above))])
  \/ /\ mode = "eval"
     /\ Enter(Append(kont, [Pending("scope", 1, <<>>) EXCEPT !.left = n]))
     /\ Become([Memory EXCEPT !.frames = Append(@, <<>>)])

\* The body of a let or of a function is done; its frame goes.
EndScope ==
  /\ \E k \in {"scope", "call"} : Returning(k)
  /\ Top.left = 0
  /\ Return([Memory EXCEPT !.frames = Front(@)])
  /\ kont' = Callers

\* (define x value)
Define ==
  /\ Returning("define")
  /\ LET x == Top.names[1] IN
     Return([Popped(Memory, 1) EXCEPT
               !.globals = [y \in DOMAIN @ \cup {x} |-> IF y = x THEN Value ELSE @[y]],
               !.stack = Append(@, Imm)])
  /\ kont' = Callers

\* set! of the innermost binding, else of the global.
Assign ==
  /\ Returning("set") /\ Bound(Top.names[1])
  /\ LET x == Top.names[1]
         m == Pushed(Popped(Memory, 1), <<Imm>>)
     IN  Return(IF Binders(x) # {}
                THEN [m EXCEPT !.frames[Slot(x)[1]][Slot(x)[2]][2] = Value]
                ELSE [m EXCEPT !.globals[x] = Value])
  /\ kont' = Callers

\* eval_top_level pops the value, then lets the heap collect.
EndForm ==
  /\ mode = "return" /\ kont = <<>>
  /\ \E m \in MaybeGc(Popped(Memory, 1)) : Become(m)
  /\ mode' = "idle"
  /\ UNCHANGED kont

\* A call has all its arguments.
Calling == mode = "apply" \/ (Returning("args") /\ Top.left = 0)

\* An error: an unbound name, a malformed form, a wrong argument.  Every Rust
\* frame returns; calls pop the frame then on top, nobody drops what is left
\* on the stack below the arguments of the call that failed.
Fail ==
  /\ \/ mode = "eval" \/ Calling
     \/ Returning("set") /\ ~Bound(Top.names[1])
  /\ LET m == IF Calling THEN Below(Memory)
              ELSE IF mode = "return" THEN Popped(Memory, 1) ELSE Memory
         calls == Cardinality({i \in DOMAIN kont : kont[i].k = "call"})
     IN  Become([m EXCEPT !.frames = SubSeq(@, 1, Len(@) - calls)])
  /\ mode' = "idle" /\ kont' = <<>>

-----------------------------------------------------------------------------
(* Calls: the arguments are on the stack above Top.high.  An index or size *)
(* is not among them: it is a number, and whatever its evaluation does the *)
(* evaluation of another argument may do.                                  *)

Args == Above
Applying(n) == Calling /\ Len(Args) = n
Result(m) == Return(m) /\ kont' = Callers

\* A user function: its parameters are bound in a new frame.
Call ==
  /\ Calling
  /\ \E params \in Names(Len(Args)) :
       Become([Below(Memory) EXCEPT !.frames = Append(@, Frame(params, Args))])
  /\ Enter(Append(Callers, [Top EXCEPT !.k = "call", !.total = 1, !.left = 0]))

\* Mutants of ConsPair: the arguments are not rooted while the heap collects, or
\* are popped in the wrong order.
ConsPairUnrooted ==
  /\ Applying(2)
  /\ \E m \in MaybeGc(Below(Memory)) : \E i \in Unused(m) :
       Result(AllocPair(m, i, Args[1], Args[2]))
ConsPairSwapped ==
  /\ Applying(2)
  /\ \E m \in MaybeGc(Memory) : \E i \in Unused(m) :
       LET n == Len(m.stack)
       IN  Result(AllocPair(Popped(m, 2), i, m.stack[n], m.stack[n - 1]))

ConsPair ==
  /\ Applying(2)
  /\ \E m \in MaybeGc(Memory) : \E i \in Unused(m) :
       LET n == Len(m.stack)
       IN  Result(AllocPair(Popped(m, 2), i, m.stack[n - 1], m.stack[n]))

\* list conses its arguments from the right, with a safepoint before each.
List ==
  /\ Calling
  /\ Become(Pushed(Memory, <<Imm>>))
  /\ mode' = "list"
  /\ kont' = [kont EXCEPT ![Len(kont)].left = Len(Args)]

ListCons ==
  /\ mode = "list" /\ Top.left > 0
  /\ \E m \in MaybeGc(Memory) : \E i \in Unused(m) :
       LET n == Len(m.stack)
       IN  Become(AllocPair(Popped(m, 2), i, m.stack[n - 1], m.stack[n]))
  /\ kont' = Remaining(kont, Top.left - 1)
  /\ UNCHANGED mode

ListDone ==
  /\ mode = "list" /\ Top.left = 0
  /\ Result(Memory)

\* vector: allocate, then take the arguments off the stack and store them.
Vector ==
  /\ Calling
  /\ Len(Args) <= MaxCells
  /\ \E m \in MaybeGc(Memory) : \E i \in Unused(m) :
       LET n == Len(Args)
           values == SubSeq(m.stack, Top.high + 1, Top.high + n)
       IN  Result(Filled(AllocVector(Below(m), i, n, Imm), i, values))

\* (make-vector n init), from its init.
MakeVector ==
  /\ Applying(1)
  /\ AnyInit \/ ~IsWord(Args[1])
  /\ \E m \in MaybeGc(Memory), n \in 0 .. MaxCells : \E i \in Unused(m) :
       Result(AllocVector(Popped(m, 1), i, n, m.stack[Len(m.stack)]))

\* car, cdr, vector-ref: a field of a pair or vector.
Access ==
  /\ Applying(1)
  /\ IsWord(Args[1]) /\ Args[1][1] \in {"pair", "vector"}
  /\ \E k \in DOMAIN heap[Args[1][2]].fields :
       Result(Pushed(Below(Memory), <<heap[Args[1][2]].fields[k]>>))

\* (vector-set! v k value), with the barrier.
VectorSet ==
  /\ Applying(2)
  /\ IsWord(Args[1]) /\ Args[1][1] = "vector"
  /\ LET v == Args[1][2] IN \E k \in DOMAIN heap[v].fields :
       Result(StoredField(Pushed(Below(Memory), <<Imm>>), v, k, Args[2]))

\* gc-minor, gc-major.
CollectNow ==
  /\ Applying(0)
  /\ \E c \in Cycles \ {<<>>} : Result(Pushed(Collected(Memory, c), <<Imm>>))

\* Every builtin whose result is an immediate and that changes nothing:
\* arithmetic, comparisons, predicates, lengths, statistics, random.
Inspect ==
  /\ Calling
  /\ Result(Pushed(Below(Memory), <<Imm>>))

Next ==
  \/ StartForm \/ EndForm \/ Fail
  \/ EvalAtom \/ EvalString \/ EvalForm \/ EvalThunk
  \/ \E x \in Name : EvalSymbol(x)
  \/ NextOperand \/ NextForm \/ TakeBranch \/ SkipBranch \/ Decided
  \/ OpenScope \/ EndScope \/ Define \/ Assign
  \/ Call \/ ConsPair \/ List \/ ListCons \/ ListDone \/ Vector \/ MakeVector
  \/ Access \/ VectorSet \/ CollectNow \/ Inspect

Spec == Init /\ [][Next]_vars

-----------------------------------------------------------------------------
(* Properties.                                                             *)

\* Whatever the interpreter can read is an immediate or names an object of its
\* kind where that object is now: no Word in a Rust local, a frame, a global
\* or a field missed a collection ("Rust-local Values that hold Word slots
\* must not straddle a GC safepoint", eval.rs:17-18).
WordsNameTheirObjects ==
  LET V == Roots(Memory) \cup Fields(DOMAIN heap, heap) IN
  /\ Lost \notin V
  /\ \A v \in WordsIn(V) : Current(v, heap)

\* However forms nest, an expression that completes leaves exactly one value
\* on the stack and the frames as it found them; lets and calls find exactly
\* their operands above the height they began at, and each open one has one
\* frame (eval, split_off(high_water), frames.pop of eval_let and eval_call).
StackDiscipline ==
  LET Kept(k) == IF k.k \in {"let", "args"} THEN k.total - k.left - 1 ELSE 0
      Start(i) == IF i = 0 THEN 0 ELSE kont[i].high + Kept(kont[i])
      Over == Len(stack) - Start(Len(kont))
  IN
  /\ \A i \in DOMAIN kont : kont[i].high = Start(i - 1)
  /\ CASE mode = "eval" -> Over = 0
       [] mode = "return" -> Over = 1
       [] mode = "apply" -> Len(stack) = Top.high
       [] mode = "list" -> Len(stack) = Top.high + Top.left + 1
       [] mode = "idle" -> kont = <<>>
  /\ mode # "idle" =>
       Len(frames) = Cardinality({i \in DOMAIN kont : kont[i].k \in {"scope", "call"}})

\* A builtin changes no variable and no pending value, whatever moved while it
\* ran, and a new pair holds the arguments it was given, in order.
CollectionsAreInvisible ==
  [][ Calling /\ mode' = "return" =>
        /\ frames' = frames /\ globals' = globals
        /\ SubSeq(stack', 1, Top.high) = SubSeq(stack, 1, Top.high)
        /\ Len(stack') = Top.high + 1
        /\ ConsPair => heap'[stack'[Len(stack')][2]].fields = Args ]_vars
=============================================================================
