SPECIFICATION Spec
CONSTANTS
  MaxMsg = 2
  MaxFaults = 2
  MaxLayers = 2
  Methods = {"sign", "inline sign", "inline encrypt"}
INVARIANTS MenuShowsText OneOfEach
PROPERTIES RepliedWhenSent
