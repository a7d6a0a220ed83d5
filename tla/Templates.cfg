SPECIFICATION TemplatesSpec
CONSTANTS
    core = core
    plugin = plugin
    None = None
    Sources <- MCSources
    Core = core
    Names = {welcome}
    Ids = {i1}
    MaxEdits = 1
INVARIANTS
    TypeOK
    RegistryIsFresh
