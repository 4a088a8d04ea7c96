SPECIFICATION Spec
CONSTANTS
    Width = 6
    Programs <- FoldPrograms
INVARIANTS
    ViewsAgree
