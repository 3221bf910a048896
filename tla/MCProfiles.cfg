SPECIFICATION Spec
CONSTANTS
  Says = {x, y}
  Blank = Blank
  Ids = {p, q}
  NoConfig = NoConfig
  NoWindow = NoWindow
SYMMETRY Symmetry
INVARIANTS
  EditsLand
  BlankOnlyByURL
  CurrentFollows
  MenuHonest
