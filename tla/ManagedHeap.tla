----------------------------- MODULE ManagedHeap -----------------------------
(***************************************************************************)
(* What the page heap promises its client: objects that keep their         *)
(* identity and their pointer until the client changes them, for as long   *)
(* as it can reach them.  There are no addresses, pages, generations or    *)
(* cards, and a collection is no step at all.                              *)
(***************************************************************************)
EXTENDS FiniteSets, Naturals

CONSTANTS Holder, Id, Nil

VARIABLES
  held,   \* the object each root slot, stack word or foreign handle names
  link    \* pairs of a reachable object and what its pointer names

vars == <<held, link>>

Live(h, l) ==
  LET reach[n \in 0 .. Cardinality(Id)] ==
        IF n = 0 THEN {h[x] : x \in Holder} \ {Nil}
        ELSE LET before == reach[n - 1]
             IN  before \cup ({e[2] : e \in {d \in l : d[1] \in before}} \ {Nil})
  IN  reach[Cardinality(Id)]

Reachable == Live(held, link)

\* Objects nobody can reach are forgotten.
Become(h, l) ==
  /\ held' = h
  /\ LET live == Live(h, l) IN link' = {e \in l : e[1] \in live}

Init ==
  /\ held = [x \in Holder |-> Nil]
  /\ link = {}

\* A new object, unlike any the client can reach.
New(x, i) ==
  /\ held' = [held EXCEPT ![x] = i]
  /\ i \notin Reachable
  /\ \E v \in {held[y] : y \in Holder} \cup {Nil} :
       Become([held EXCEPT ![x] = i], link \cup {<<i, v>>})

\* Copy a word between holders, follow a pointer, or forget.
Move(x, v) ==
  /\ held' = [held EXCEPT ![x] = v]
  /\ v \in Reachable \cup {Nil}
  /\ Become([held EXCEPT ![x] = v], link)

\* Write a pointer into an object.
Link(x) ==
  /\ held' = held
  /\ held[x] # Nil
  /\ \E v \in {held[y] : y \in Holder} \cup {Nil} :
       Become(held, {e \in link : e[1] # held[x]} \cup {<<held[x], v>>})

Next == \E x \in Holder :
  \/ \E v \in Id \cup {Nil} : Move(x, v)
  \/ \E i \in Id : New(x, i)
  \/ Link(x)

Spec == Init /\ [][Next]_vars
=============================================================================
