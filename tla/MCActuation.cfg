CONSTANTS
  cfg_ <- MCProfile
  Genomes <- MCGenomes
  Temps = {40, 78, 90, 110}
  FpsErrors <- MCFpsErrors
  AdaptEvery = 2
  MaxActions = 3
SPECIFICATION Spec
INVARIANTS
  TypeOK
  RunsWhatItSays
  HotGpuIsOff
  CeilingsHold
  ResponseMeasuredFromItsAction
  GpuSettingCatchesUp
