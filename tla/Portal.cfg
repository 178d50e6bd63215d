CONSTANTS
  Records = {r1, r2}
  MaxOps = 2
  MaxFaults = 1
SPECIFICATION PortalSpec
SYMMETRY Symmetry
CHECK_DEADLOCK FALSE
 
INVARIANT RevealsAreSafe
