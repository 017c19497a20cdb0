SPECIFICATION Spec
CONSTANTS
    sub = sub
    a = a
    b = b
    x = x
    direct = direct
    group = group
    other = other
    i1 = i1
    i2 = i2
    bad = bad
    EmptyName = ""
    Unparsable = bad
    Junk = junk
    Comment = comment
    Prefix = sub
    NoTag = notag
    NoBase = nobase
    MaxWarnings = 1
    Item = {i1, i2}
    Name <- Names
    Norm <- Norms
    StateLists <- Lists
    Uri <- Uris6
    Label <- Labels
    Parsed <- Parsing
    Bodies <- AllBodies
    Groups <- GroupTags
    BaseTag <- BaseTags
    Bases <- BaseContents
INVARIANTS
    ConfigurationIsWhole
    BuildsTheReference
CHECK_DEADLOCK FALSE
