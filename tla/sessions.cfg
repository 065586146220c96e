SPECIFICATION FairSpec
CONSTANTS
  Handle = {1, 2, 3}
  Caller = {1, 2}
  Sweep = {1}
  SpawnCloses = {"always"}
CHECK_DEADLOCK FALSE
INVARIANTS RegistriesAgree OnePromptUnlessReopened
PROPERTY IdleIsReaped
