SPECIFICATION Spec
CONSTANTS
  PinsA = {"FPGA_LED"}
  PinsB = {"ATX_PSON", "3V3_ENA_FET_MUX_SEL"}
  InitVal = {"ATX_PSON"}
  MaxRestarts = 1
  TIME_100_MS = 3
  TIME_1_SEC = 4
  HoldUp = 2
INVARIANTS TypeOK RailsNeedSupply ResetsAfterClocks CpuLast MuxAgrees
PROPERTIES SequenceEnds FailSwitchesOff KeepsLink
