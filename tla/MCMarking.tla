----------------------------- MODULE MCMarking -----------------------------
(* A heap of five objects, two of them coroutine stacks, over three words   *)
(* of a two-bit bitset.  Objects are placed so that a bitset word holds two *)
(* objects, one and none.                                                   *)
EXTENDS Marking, TLC

MCObjects == {0, 1, 3, 6, 7}
MCStacks == {3, 7}

UpTo(n, S) == {T \in SUBSET S : Cardinality(T) <= n}

(* The current stack 3 is the root; ordinary objects have at most two       *)
(* references, stacks hold references in their frames only.                 *)
MCGraphs ==
  {[refs |-> (0 :> r0 @@ 1 :> r1 @@ 6 :> r6 @@ 3 :> {} @@ 7 :> {}),
    frames |-> (3 :> f3 @@ 7 :> f7),
    roots |-> {3},
    stacks |-> l] :
     r0 \in UpTo(2, {1, 6, 7}), r1 \in UpTo(1, {0, 6}), r6 \in UpTo(2, {0, 1, 7}),
     f3 \in {{0}, {0, 1}, {0, 6}, {6, 1}}, f7 \in UpTo(1, {1, 6}), l \in {<<3, 7>>, <<7, 3>>}}
=============================================================================
