\* Start and return to title against deferral, commands and a reply.
CONSTANTS
  SqlRequests = {}
  DeviceRequests = {}
  PromptRequests = {}
  StorageRequests = {store}
  Commands = {"transition", "command"}
  MaxCommands = 4
  MaxEpoch = 2
  EagerDrive = FALSE
SPECIFICATION Spec
INVARIANTS TypeOK TransitionBarrier CommandsInOrder
