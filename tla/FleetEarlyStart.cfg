CONSTANTS
    bus1 = bus1
    bus2 = bus2
    tr1 = tr1
    tr2 = tr2
    j1 = j1
    j2 = j2
    Bus = {bus1}
    Trip = {tr1, tr2}
    Job = {j1}
    Horizon = 3
SYMMETRY Symmetric
SPECIFICATION Spec
INVARIANT
    RunningJobCanBeCompleted
