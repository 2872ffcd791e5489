SPECIFICATION Spec
CONSTANTS
  Numbered = {1, 2}
  Plain = {3}
  Hash <- KeyHash
  IndexThreshold = 1
  MinCap = 2
  MaxLeaves = 3
PROPERTIES StopsWhatLeft
