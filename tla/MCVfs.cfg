SPECIFICATION Spec
CONSTANTS
    EmptyName = EmptyName
    Names = {a, b}
    Lines = {x}
    MaxDepth = 2
    MaxLines = 1
    MaxNodes = 5
SYMMETRY Symmetry
INVARIANT TypeOK
PROPERTIES OnlyGraftsBreakTheTree RefusedChangesNothing StoresFiles
