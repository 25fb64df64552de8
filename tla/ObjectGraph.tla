---------------------------- MODULE ObjectGraph ----------------------------
(***************************************************************************)
(* What the heap promises a Stanza program: objects with fields, variables *)
(* that refer to them, and trackers whose weak value becomes false some    *)
(* time after its object is no longer in use.  There are no addresses, and *)
(* collections cannot be seen.  An object stays in obj as long as the      *)
(* program can get at it, through fields or the value of a tracker.        *)
(***************************************************************************)
EXTENDS Naturals, Sequences, FiniteSets, Functions, SequencesExt

CONSTANTS
  Vars,        \* variables of the program: globals and slots of running frames
  Ids,         \* names of objects; NoRef is none of them
  Types,       \* types of objects
  Arity,       \* [Types -> Nat], reference fields; the frames of a stack count
  Trackers     \* the types with a weak value

NoRef == 0     \* a value that is not a reference

VARIABLES
  var,    \* [Vars -> Ids \cup {NoRef}]
  obj     \* the objects the program can get at, by name

graphVars == <<var, obj>>

Object == [type : Types, field : Seq(Ids \cup {NoRef}), weak : Ids \cup {NoRef}]

(* The objects that the fields of the objects in S, or these themselves,    *)
(* lead to; follow(o) are the values that count.                            *)
Closure(S, o, follow(_)) ==
  LET reach[n \in 0 .. Cardinality(DOMAIN o)] ==
        IF n = 0 THEN S
        ELSE UNION {{x} \cup (IF x = NoRef THEN {} ELSE follow(o[x])) : x \in reach[n-1]}
  IN reach[Cardinality(DOMAIN o)] \ {NoRef}

Strong(x)  == Range(x.field)
Visible(x) == Range(x.field) \cup {x.weak}

InUse(v, o)     == Closure(Range(v), o, Strong)
Available(v, o) == Closure(Range(v), o, Visible)
Forgetting(v, o) == Restrict(o, Available(v, o))
-----------------------------------------------------------------------------
Init ==
  /\ var \in [Vars -> Ids \cup {NoRef}]
  /\ obj \in UNION {[S -> {[type |-> t, field |-> [i \in 1 .. Arity[t] |-> NoRef], weak |-> NoRef] :
                            t \in Types}] : S \in SUBSET Range(var)}
  /\ DOMAIN obj = Range(var) \ {NoRef}

(* A new object, every field of which has the value; a tracker refers to    *)
(* the object that is the value.                                            *)
New(v, t, value) ==
  \E id \in Ids \ DOMAIN obj :
    LET new == [type  |-> t,
                field |-> [i \in 1 .. Arity[t] |-> value],
                weak  |-> IF t \in Trackers THEN value ELSE NoRef] IN
    /\ t \in Trackers => value # NoRef
    /\ var' = [var EXCEPT ![v] = id]
    /\ obj' = Forgetting(var', [x \in DOMAIN obj \cup {id} |-> IF x = id THEN new ELSE obj[x]])

Store(v, i, w) ==
  /\ var[v] # NoRef /\ i \in DOMAIN obj[var[v]].field
  /\ UNCHANGED var
  /\ obj' = Forgetting(var, [obj EXCEPT ![var[v]].field[i] = var[w]])

Load(v, w, i) ==
  /\ var[w] # NoRef /\ i \in DOMAIN obj[var[w]].field
  /\ var' = [var EXCEPT ![v] = obj[var[w]].field[i]]
  /\ obj' = Forgetting(var', obj)

LoadWeak(v, w) ==
  /\ var[w] # NoRef /\ obj[var[w]].type \in Trackers
  /\ var' = [var EXCEPT ![v] = obj[var[w]].weak]
  /\ obj' = Forgetting(var', obj)

Forget(v) ==
  /\ var' = [var EXCEPT ![v] = NoRef]
  /\ obj' = Forgetting(var', obj)

(* All that can be seen of a collection: some trackers of objects that are   *)
(* not in use become false.                                                 *)
Expire ==
  /\ UNCHANGED var
  /\ \E T \in SUBSET {x \in DOMAIN obj : obj[x].weak \notin InUse(var, obj) \cup {NoRef}} :
       obj' = Forgetting(var, [x \in DOMAIN obj |->
                                 IF x \in T THEN [obj[x] EXCEPT !.weak = NoRef] ELSE obj[x]])

Collect == UNCHANGED graphVars \/ Expire

Slots == UNION {1 .. Arity[t] : t \in Types}
Next ==
  \/ Collect
  \/ \E v \in Vars, t \in Types, value \in Range(var) \cup {NoRef} : New(v, t, value)
  \/ \E v, w \in Vars, i \in Slots : Store(v, i, w) \/ Load(v, w, i)
  \/ \E v, w \in Vars : LoadWeak(v, w)
  \/ \E v \in Vars : Forget(v)

Spec == Init /\ [][Next]_graphVars
=============================================================================
