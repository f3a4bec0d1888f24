SPECIFICATION FairSpec
CONSTANTS
  MaxPublish = 2
  Stalling = {"audio", "video"}
INVARIANTS
  TypeOK
  CommittedIsRunning
  NoSaveMissed
PROPERTIES
  AudioImplementsLiveSettings
  AudioTimely
  ShutdownSaves
