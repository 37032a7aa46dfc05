SPECIFICATION Spec
CONSTANT Rpc = {r1, r2}
INVARIANTS StartOutlivesServe StopMeansQuiet LateProbeFails
PROPERTY StopReleasesStart
