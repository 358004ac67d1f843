\* One fetch of one board, whichever the adapter; the board and the resolver may change once each.
SPECIFICATION Spec
CONSTANTS
  Hosts = {"board", "other"}
  BadUrl = "bad"
  Addresses = {"public", "private"}
  Private = {"private"}
  MaxRedirects = 1
  MaxRebinds = 1
  k1 = k1
  k2 = k2
  k3 = k3
  k4 = k4
  k5 = k5
  k6 = k6
  k7 = k7
  Adapters = {"workday", "talentbrew", "findly", "infor_v1", "infor_v2", "greenhouse", "lever",
              "healthcaresource", "phenompeople", "generic_html", "linkedin", "indeed"}
  Keys = {k1, k2, k3, k4, k5, k6, k7}
  Malformed = {k2, k3}
  Boards <- SmallBoards
  Board = "board"
  PageSize = 2
  SearchSize = 2
  MaxPages = 3
  MaxChanges = 1
  Unknown = Unknown
INVARIANTS
  OnlyPublicDialed
  MissingExplained
PROPERTY FetchEnds
CHECK_DEADLOCK FALSE
