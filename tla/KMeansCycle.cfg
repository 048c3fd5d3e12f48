SPECIFICATION FairSpec
CONSTANTS
    NumPoints = 4
    NumMeans = 2
    Dim = 4
    GridSize = 2
    ReqUnits = 2
    Inputs <- Cube
    Blocks = {1, 2, 3, 4}
PROPERTY Terminates
