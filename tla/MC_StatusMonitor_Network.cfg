CONSTANTS
  Pids = {1, 2, 3}
  IoDirs = {}
  Mine = {1, 2, 3}
  Gui = {1, 3}
  Desktops = {"d1"}
  NoDesktop = NoDesktop
  NetVals = {1, 2}
  MaxTicks = 0
  MaxIo = 0
  Word = 8
  Mem <- MCMem
  ServerMarker <- MCServerMarker
  WineApp <- MCWineApp
SPECIFICATION Spec
INVARIANT TypeOK
PROPERTIES NetworkDescendantSum WineHelperTrafficReattributed
