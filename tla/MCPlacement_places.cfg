CONSTANTS
  Hosts = {1, 2, 3}
  Ports = {1, 2}
  MaxNodes = 5
SPECIFICATION Spec
INVARIANT ReorganizePlacesAllNodes
