SPECIFICATION FairSpec
CONSTANTS
    NumPoints = 4
    NumMeans = 2
    Dim = 1
    GridSize = 3
    ReqUnits = 3
    Inputs <- AllInputs
    Blocks = {1, 2, 3, 4}
INVARIANTS TypeOK FreesValid MeansSettled
