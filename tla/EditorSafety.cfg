\* One background, a history of two and four edits; the code keeps fifty
\* documents of at most 64 layers.
SPECIFICATION Spec
CONSTANTS
  Assets = {a1}
  HistoryLimit = 2
  MaxLayers = 4
  MaxEdits = 4
  MaxVersions = 1
  None = None
INVARIANT
  EditorInv
PROPERTY
  MouseKeepsLayers
