CONSTANTS
    Resources = {r}
    Made = made
    Processes = {a, b, c}
    Versions = {v, w}
    Keys = {k, l}
    None = none
    Torn = torn
    Calls = 4
SPECIFICATION Spec
INVARIANTS
    MetadataDescribes
    OneCopyRead
    OldCopyUntilSwapped
    StoredAsAsked
    NeverAllWaiting
SYMMETRY Alike
