\* As in the programs all three sums, and the products of the orange, overflow.
CONSTANTS
  bit_width = 4
  APPLE_MAX_VALUE = 6
  ORANGE_MAX_VALUE = 2
  apple_a_mul = 3
  apple_a_div = 2
  apple_b_mul = 2
  apple_b_div = 1
  orange_init_a = 13
  orange_init_b = 9
  orange_ka = 13
  orange_kb = 9
SPECIFICATION Spec
INVARIANTS
  AssertsHold
  ParallelAsNamed
  NobodyOutlivesMain
PROPERTIES
  EndsWithTheSums
\* The program ends.
CHECK_DEADLOCK FALSE
