SPECIFICATION Spec
CONSTANTS
    MaxVersion = 2
    Removable = {"cert", "key", "ca"}
PROPERTY ServesFilesAsTheyAre
CHECK_DEADLOCK FALSE
