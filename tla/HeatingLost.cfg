SPECIFICATION FairSpec
CONSTANTS
  p1 = p1
  p2 = p2
  s1 = s1
  s2 = s2
  Poster = {p1, p2}
  Setter = {}
  Settings <- Warm
  Scenes <- TwoMessages
  Cut = {}
  MaxLag = 1
  MaxIno = 8
  NoFile = NoFile
  NoNumber = NoNumber
PROPERTIES
  SentIsShown
