SPECIFICATION FairWindowSpec
CONSTANTS
  main = main
  dialog = dialog
  tool = tool
  NoWindow = NoWindow
  Window <- MCWindow
  Main <- MCMain
  Modal <- MCModal
  Fade <- MCFade
  Made <- MCMade
  DenyFocus = {}
  KeepBelow = {}
  Wm = {"single"}
  MaxCalls = 3
  Liberties = {"again"}
PROPERTIES DetachHonoured
CHECK_DEADLOCK FALSE
