SPECIFICATION Spec
CONSTANTS
    TypeId <- MCTypeId
    FieldId <- MCFieldId
    Tasks = {t1, t2}
    MaxCalls = 2
    Types = {1, 2}
    OwnShapes <- MCOwn
    ForeignShapes <- MCForeign
    EnumTypes = {2}
    Samples <- MCSamples
    Frames <- MCFrames
    Configs <- MCConfigs
INVARIANTS ReadersAgree FramesAreExact  OwnFieldsNamed BulkAnswerReadable
SYMMETRY TaskSymmetry
CHECK_DEADLOCK FALSE
