----------------------------- MODULE MCNursery -----------------------------
(* A heap of 16 words that may grow to 24, with one of four workloads: the  *)
(* types a program allocates, the requests it exceeds the nursery with, and *)
(* whether the notifiers that a collection runs do the same, or nothing.    *)
(* view is a function of the other variables, the refinement mapping: as a  *)
(* variable it is computed once for each state.                             *)
EXTENDS Nursery, TLC

MCWorkloads ==
  {[types |-> {"box"},             requests |-> {3},    objects |-> 4, notifiers |-> FALSE],
   [types |-> {"cell", "tracker"}, requests |-> {2},    objects |-> 4, notifiers |-> FALSE],
   [types |-> {"stack"},           requests |-> {0, 2}, objects |-> 3, notifiers |-> TRUE],
   [types |-> {"cell", "tracker"}, requests |-> {2},    objects |-> 3, notifiers |-> TRUE]}
MCTypes == UNION {w.types : w \in MCWorkloads}
MCRequests == UNION {w.requests : w \in MCWorkloads}

VARIABLES workload, view
MCView == [var |-> ProgramVar, obj |-> ProgramObj]
MCInit == Init /\ workload \in MCWorkloads /\ view = MCView

InWorkload ==
  /\ allocated' # allocated => allocated' <= workload.objects /\ mem'[top].t \in workload.types
  /\ phase = "run" /\ phase' # "run" => request'.size \in workload.requests
  /\ phase = "run" /\ pending # << >> => workload.notifiers \/ pending' # pending
  /\ "stack" \in workload.types \/ frame' = frame
MCNext == Next /\ InWorkload /\ UNCHANGED workload /\ view' = MCView'
MCSpec == MCInit /\ [][MCNext]_<<vars, workload, view>>

Graph == INSTANCE ObjectGraph WITH
  Vars <- Roots, Ids <- 1 .. MaxObjects, Types <- AllTypes, Trackers <- {"tracker"},
  Arity <- [cell |-> 1, box |-> 1, stack |-> 1, tracker |-> 0],
  var <- view.var, obj <- view.obj
ImplementsObjectGraph == Graph!Spec

MCSymmetry == Permutations(Vars)
=============================================================================
