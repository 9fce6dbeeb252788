\* Listener lists under nested dispatches.
CONSTANTS
  elem = elem
  win = win
  Nodes <- Targets2
  Window = win
  Chain <- ChainOf
  Connected = {elem}
  Events = {"click"}
  ErrorEvent = "reported"
  Kind <- KindOf
  Bubbling = {"click"}
  Cancelable = {"reported"}
  Callbacks = {"f"}
  NoCall = NoCall
  Options <- Flags2
  MaxDepth = 2
  MaxRegistrations = 2
  MaxErrors = 2
SPECIFICATION DispatchSpec
INVARIANTS SlotsHeld NoErrorLost
PROPERTIES CallsWhatIsRegistered
