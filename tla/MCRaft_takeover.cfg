SPECIFICATION DirectedSpec
CONSTANTS
    Voter = {n1, n2, n3}
    Learner = {}
    Command = {c1, c2, c3}
    None = None
    MaxTerm = 2
    MaxFailure = 2
    First = n1
    Second = n2
    Opening = c1
    n1 = n1
    n2 = n2
    n3 = n3
    c1 = c1
    c2 = c2
    c3 = c3
SYMMETRY CommandSymmetry
VIEW View
INVARIANT StateMachineSafety
