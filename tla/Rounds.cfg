\* Two threads on the smallest pools made for them; two of the four ports.
CONSTANTS
  Modes = {"mixed", "dual"}
  threads = 2
  DUAL_PORTS = 2
  Lane = {l1, l2}
  NoLane = NoLane
  MaxRounds = 2
SPECIFICATION Spec
SYMMETRY LaneSymmetry
INVARIANTS IdleLaneQuiet LanesSuffice RoundLeavesNothing
