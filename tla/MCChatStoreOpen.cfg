SPECIFICATION Spec
CONSTANTS
  Loadable <- ChainOld
  Arrivals <- ChainNew
  PeerLists <- ChainLists
PROPERTIES OpenFollowsAlias
