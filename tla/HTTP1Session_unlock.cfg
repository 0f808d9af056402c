\* The header of a closing response cannot be written.
SPECIFICATION Spec
CONSTANTS
  MaxFrames = 2
  MaxTries = 1
  MaxCloses = 1
INVARIANT UnlockedOncePerResponse
