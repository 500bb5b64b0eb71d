\* Three rows are enough for a worse row to follow a better one and to be followed by a tie.
SPECIFICATION ScanSpec
CONSTANTS
  Price = {1, 2, 3}
  Height = {1, 2}
  Fee = {0, 1}
  MaxRows = 3
\* The loop ends.
CHECK_DEADLOCK FALSE
INVARIANTS ScanBest 
