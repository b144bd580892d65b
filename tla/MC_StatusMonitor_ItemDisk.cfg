CONSTANTS
  Pids = {1, 2, 3}
  IoDirs = {"write"}
  Mine = {1, 2, 3}
  Gui = {1, 3}
  Desktops = {"d1"}
  NoDesktop = NoDesktop
  NetVals = {}
  MaxTicks = 0
  MaxIo = 1
  Word = 8
  Mem <- MCMem
  ServerMarker <- MCServerMarker
  WineApp <- MCWineApp
SPECIFICATION Spec

PROPERTIES ItemDiskRateIsDelta
