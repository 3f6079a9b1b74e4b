CONSTANTS
    PIPELINE_TABLES = 2
    Packet = {0, 1, 2, 3, 4, 5, 6, 7}
    Action <- MCAction
    InstructionSets <- MCInstructionSets
    OutActions <- MCOutActions
    GroupTables <- MCGroupTables
    MaxSaved = 1
SPECIFICATION Spec
INVARIANTS
    PacketsOwned
    ActionSetsCanonical
    InstructionsOrdered
    SelectProportional
PROPERTY PacketsFinish
