SPECIFICATION Spec
CONSTANTS
  Fields = {"level", "state"}
  Watches = {"position"}
  BufferSize = 1
  MaxChanges = 2
PROPERTIES
  OnlySnapshotGoesBack
  ChangesArrive
  ListenersRemoved
