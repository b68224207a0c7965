SPECIFICATION DirSpec
CONSTANTS
  Clusters = {2, 3}
  PerCluster = 3
  Short = {s1}
  Long = {l1, l2}
  Alias = {a1, a2}
  First = a1
  NoName = none
  MaxCuts = 1
INVARIANTS SoundVolume FindsWhatIsListed
PROPERTIES OthersKept
CHECK_DEADLOCK FALSE
