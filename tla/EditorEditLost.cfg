\* README.md:126 against a switch of the background that an edit overlaps.
SPECIFICATION Spec
CONSTANTS
  Assets = {a1}
  HistoryLimit = 2
  MaxLayers = 3
  MaxEdits = 3
  MaxVersions = 0
  None = None
PROPERTY
  SwitchKeepsLayers
