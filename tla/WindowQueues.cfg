SPECIFICATION FairWindowSpec
CONSTANTS
  main = main
  dialog = dialog
  tool = tool
  NoWindow = NoWindow
  Window <- MCWindow
  Main <- MCMain
  Modal <- MCModal
  Fade <- MCFade
  Made <- MCMade
  DenyFocus = {}
  KeepBelow = {}
  Wm = {"single", "multiple"}
  MaxCalls = 4
  Liberties = {}
INVARIANTS QueuesSound NoDangling ModalMatches
PROPERTIES DetachHonoured
CHECK_DEADLOCK FALSE
