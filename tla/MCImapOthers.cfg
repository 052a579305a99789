SPECIFICATION Spec
CONSTANTS
  MaxUid = 3
  MaxEvents = 4
  OtherFlags = {}
PROPERTY NoOthersMarked
