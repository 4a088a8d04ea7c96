SPECIFICATION Spec
CONSTANTS
    Width = 6
    Programs <- MCPrograms
INVARIANTS
    ModelsAgree
    ViewsAgree
    SubsAgree
    GcNeverTraps
