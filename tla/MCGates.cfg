SPECIFICATION Spec
CONSTANTS
    NoFile = NoFile
    NoStamp = NoStamp
    Dirs <- MCDirs
    Archived <- MCArchived
    Members <- MCMembers
    Knobs <- MCKnobs
    Recipe <- MCRecipe
    Conflicts <- MCConflicts
    MaxVersion = 1
    Page = 4
    Widths <- MCWidths
    Sources <- MCSources
    Commands <- MCCommands
    Makes <- MCMakes
    MaxCommands = 3
    Edited = {"aead"}
    ExpectB = 4
    ExpectA = 6
INVARIANTS
    TreeCurrent
    InspectsRequested
    VerdictsExact
    FootprintCovered
CHECK_DEADLOCK FALSE
