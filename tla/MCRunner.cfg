SPECIFICATION RunnerSpec
CONSTANTS
  None = None
INVARIANT FirmwareInPlace
INVARIANT SuccessMeansDone
