SPECIFICATION Spec
CONSTANTS
    Tabs = {x1, x2}
    MaxLinks = 2
    Fields = {"light"}
    Saves = {s1}
    MaxVersion = 2
    None = none
INVARIANTS
    TypeOK
    LinksWorkOnce
    DocumentShowsItsTheme
PROPERTIES
    FormsAnswer
    CatchesUp
CHECK_DEADLOCK FALSE
