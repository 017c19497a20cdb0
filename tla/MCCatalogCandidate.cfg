SPECIFICATION Spec
CONSTANTS
    NoPort = noport
    BadPath = {"%x"}
    Piece <- Pieces
    Base64 <- Coded
    Decoded <- Decoding
    Uri <- AllUris
    NodeLists <- Lists
    BaseTag <- BaseTags
    NoTag = notag
    Groups <- GroupTags
    Bases <- BaseContents
    NoBase = nobase
    Label <- Labels
    Subscription <- Sub
    Prefix = "sub"
    Junk = junk
    Comment = comment
INVARIANTS
    MirrorsManager
    CandidateIsWhole
    AsAsked
    
CHECK_DEADLOCK FALSE
