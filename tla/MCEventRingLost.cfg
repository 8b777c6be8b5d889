SPECIFICATION Spec
CONSTANTS
  TrbNumber = 4
  Events = {ok1, ok2, bad}
  Errors = {bad}
  NoEvent = NoEvent

PROPERTIES ServesQueue
