\* Two threads; three builds of the interpreter, see MCPython.  A
\* model with a bound handle and one derived from it and from a standalone handle; a
\* callback refers to nothing, to its model, to the derived handle or to that one.
SPECIFICATION MCSpec
CONSTANTS
    Scenes = {"dispatch", "objects"}
    Workers = {w1, w2}
    Committers <- WhoCommits
    Nobody = Nobody
    Builds <- ThreeBuilds
    MaxCalls <- Bounds
    MaxRuns = 2
    Model = model
    Derived = d
    Bound = {s}
    Standalone = {z}
    Deps = {s, z}
    Callbacks = {c}
    Named = {d}
    CaptureSets = {{}, {model}, {d}, {z}}
    MaxSets = 2
\* Calls spent, and the application is not run.
CHECK_DEADLOCK FALSE
INVARIANTS CallsAreAtomic HandlesServed
PROPERTY CallsReturn
