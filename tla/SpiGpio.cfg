SPECIFICATION Spec
CONSTANTS
  PinsA = {"LED"}
  PinsB = {"PSON", "MUX"}
  InitVal = {"PSON"}
  MaxRestarts = 1
INVARIANTS TypeOK ShadowMirrored NoUnaskedLow
PROPERTIES PinsFollowShadow ImplementsLink
