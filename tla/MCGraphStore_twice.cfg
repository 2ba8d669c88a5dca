\* Violated: a run that fails after its row is stored is retried and stores a
\* second bundle of the source.
CONSTANTS
    Sources = {s1, s2}
    Techniques = {t1, t2}
    MaxAttempts = 2
    MaxFaults = 2
SPECIFICATION Spec
INVARIANT OneBundlePerSource
SYMMETRY Symmetry
CHECK_DEADLOCK FALSE
