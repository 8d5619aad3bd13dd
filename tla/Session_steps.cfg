\* Steps chosen for one version survive the reopening of another.
SPECIFICATION Spec
CONSTANTS
    Version = {v1, v2, v3}
    Manual = {m1, m2}
    None = None
    MutationFails = FALSE
INVARIANT StepsAreOfGoverning
