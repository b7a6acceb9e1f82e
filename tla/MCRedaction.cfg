SPECIFICATION Spec
CONSTANTS
    Cols = 3
    Rows = 3
    CellHeight = 2
    Asked <- Percentages
    Nobody = Nobody
INVARIANTS
    TypeOK
    CountsWhatWasAsked
    ASixthIsBlack
