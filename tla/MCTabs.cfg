SPECIFICATION Spec
CONSTANTS
  Page = {p1, p2, p3, p4, p5, p6}
  Urls = {u1, u2}
  NewTabUrl = u1
  FirstUrl = u1
  LastUrl = u2
  MaxCached = 2
  MinCached = 1
  MaxTabs = 3
  MaxTag = 3
CONSTRAINT OnePageAway
INVARIANTS
  OnePagePerTab
  ScreenAgrees
  CacheIsMostRecent
  OwnPage
PROPERTIES
  AddressIsOwn
  IsBrowser
