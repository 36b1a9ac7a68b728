SPECIFICATION FairSpec
CONSTANTS
  p1 = p1
  p2 = p2
  s1 = s1
  s2 = s2
  Poster = {p1, p2}
  Setter = {s1, s2}
  Settings <- Warm
  Scenes <- PassScenes
  Cut <- Rests
  MaxLag = 1
  MaxIno = 10
  NoFile = NoFile
  NoNumber = NoNumber
INVARIANTS
  TypeOK
  ShownOnce
  RelayFollows
PROPERTIES
  NoChatter
  Heats
  MessageArrives
  SettingArrives
