SPECIFICATION LinksSpec
CONSTANTS
  d = d
  x = x
  y = y
  pw1 = pw1
  pw2 = pw2
  None = None
  Password = {pw1, pw2}
  Inside <- MCInside
  MaxLinks = 4
  Earlier <- MCEarlier
  Budgets <- MCBudgets
  Strikes = 1
  MaxCalls = 3
INVARIANTS
  LinksTypeOK
  ListedWhenQuiet
  ViewerShowsPath
  LightboxInRange
  OnlyOpenLinksServe
PROPERTIES
  LinkAsShown
  CreatingEnds
CHECK_DEADLOCK FALSE
