CONSTANTS
    u1 = u1
    u2 = u2
    u3 = u3
    none = none
    a = a
    amp = amp
    Users <- MCUsers
    Disabled = {u2}
    Groups <- MCGroups
    Texts <- MCTexts
    Empty = none
    Matches <- MCMatches
    Received <- MCReceived
    MaxEdits = 5
SPECIFICATION SelectorSpec
INVARIANT
    PageAgrees
PROPERTIES
    SelectionKept
    SearchSettles
