CONSTANTS
  Keys = {"a", "shift", "control"}
  Shift = "shift"
  Control = "control"
  KeysOf <- McKeysOf
  Loader <- McLoader
  Command <- McCommand
  Pads <- McPads
  Maps <- McMaps
  Combo <- McCombo
  Writes <- McWrites
  Toggles <- McToggles
  Click <- McClick
  UserKeys = {"a"}
  ScreenKeys = {"shift"}
  Delay = 1
  Loops = 1
  Hosts = 1
SPECIFICATION McSpec
INVARIANTS TypeOK NoStuckKeys TypedAsWritten
PROPERTIES TypingEnds
