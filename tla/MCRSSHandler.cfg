SPECIFICATION Spec
CONSTANTS
  Text = {t1, t2}
  Blank = Blank
  NoText = NoText
  Open = Open
  Markup = Markup
  HeaderFields <- MCHeaderFields
  ItemFields <- MCItemFields
  MaxItems = 2
  MaxPieces = 2
  MaxRuns = 3
CONSTRAINT FewRuns
SYMMETRY Alike
INVARIANTS TypeOK ItemsFaithful
PROPERTIES HeaderFrozen ImplementsContract
CHECK_DEADLOCK FALSE
