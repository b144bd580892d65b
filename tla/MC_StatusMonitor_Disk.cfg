CONSTANTS
  Pids = {1, 2}
  IoDirs = {"write"}
  Mine = {1, 2}
  Gui = {1}
  Desktops = {"d1"}
  NoDesktop = NoDesktop
  NetVals = {}
  MaxTicks = 1
  MaxIo = 2
  Word = 8
  Mem <- MCMem
  ServerMarker <- MCServerMarker
  WineApp <- MCWineApp
SPECIFICATION Spec
PROPERTIES DiskTotalIsCounterDelta
