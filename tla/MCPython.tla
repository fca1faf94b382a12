------------------------------ MODULE MCPython ------------------------------
(***************************************************************************)
(* The Python bindings, two scenes: threads that call the model while an   *)
(* application starts, runs and ends (PythonDispatch), and the objects a   *)
(* program makes, drops and observes (PythonHandles).                      *)
(***************************************************************************)
EXTENDS PythonDispatch

CONSTANTS Scenes,
          Model, Derived, Bound, Standalone, Deps, Callbacks, Named, CaptureSets,
          MaxSets      \* of PythonHandles
VARIABLES scene, ph

\* With the GIL, without it, and with the GIL and Python observers.
ThreeBuilds == {b \in [free : BOOLEAN, cb : BOOLEAN] : ~(b.free /\ b.cb)}
AllBuilds == [free : BOOLEAN, cb : BOOLEAN]

\* Three calls, and two where an observer or a missing GIL lets more steps interleave.
Bounds == [b \in ThreeBuilds |-> IF b.free \/ b.cb THEN 2 ELSE 3]
DirectBounds == [b \in AllBuilds |-> 2]

\* Without a GIL both threads commit: their batches may be written at once.
WhoCommits == [b \in AllBuilds |-> IF b.free THEN Workers ELSE {CHOOSE w \in Workers : TRUE}]

Objs == INSTANCE PythonHandles

ASSUME ObjectsAssumption == Objs!HandlesAssumption

MCInit == scene \in Scenes /\ PdInit /\ Objs!PhInit /\ (scene = "objects" => build.free)

MCNext ==
    \/ scene = "dispatch" /\ PdNext /\ UNCHANGED <<scene, ph>>
    \/ scene = "objects" /\ Objs!PhNext /\ UNCHANGED <<scene, pdVars>>

mcVars == <<scene, ph, pdVars>>

\* The fairness is that of the threads.  The other scene leaves them all at rest.
MCSpec == MCInit /\ [][MCNext]_mcVars /\ PdFairness

-----------------------------------------------------------------------------
\* Observers of live handles, standalone ones included, have the last value when the
\* application rests.  (PyModel::drain, drain_standalone, derived_attach_dep)
HandlesServed == Objs!PhTypeOK /\ Objs!HandlesServed
=============================================================================
