SPECIFICATION GuiSpec
CONSTANTS
  Loadable <- Old
  Arrivals <- New
  PeerLists <- Lists
  Caller = {"drain", "page"}
  Timer = {"f", "g"}
  None = "none"
  Interval = 2
  MaxChanges = 3
  Duration = 2
  MaxShows = 3
  MaxPages = 2
  MaxClicks = 1
CHECK_DEADLOCK FALSE
INVARIANTS TypesOK EntriesKept BadgesAgree GroupsAgree LastTriggerTold ScreenAgrees
PROPERTIES LateTimersHarmless ChangesToldAndToastsHide
