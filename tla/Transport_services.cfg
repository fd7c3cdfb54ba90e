\* A batched and a deferred service request against one change of the epoch.
CONSTANTS
  SqlRequests = {sql}
  DeviceRequests = {dev}
  PromptRequests = {}
  StorageRequests = {}
  Commands = {"transition", "reload"}
  MaxCommands = 1
  MaxEpoch = 2
  EagerDrive = TRUE
SPECIFICATION FairSpec
INVARIANTS AnswersValid
PROPERTIES Progress
