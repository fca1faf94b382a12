\* Two threads, with Python observers under either kind of interpreter.
SPECIFICATION MCSpec
CONSTANTS
    Scenes = {"dispatch"}
    Workers = {w1, w2}
    Committers <- WhoCommits
    Nobody = Nobody
    Builds <- AllBuilds
    MaxCalls <- DirectBounds
    MaxRuns = 1
    Model = model
    Derived = d
    Bound = {s}
    Standalone = {z}
    Deps = {s, z}
    Callbacks = {c}
    Named = {d}
    CaptureSets = {{}, {model}, {d}, {z}}
    MaxSets = 2
\* Calls spent.
CHECK_DEADLOCK FALSE
INVARIANT NoCircularWait
