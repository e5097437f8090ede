\* Four releases under any settings, two rotations of the key, one payment:
\* payments share nothing but the thread.
SPECIFICATION FairSpec
CONSTANTS
  Tx = {t1}
  MaxBoots = 4
  MaxRotations = 2
  None = None
INVARIANTS NothingForgotten RealMoneyMoved
PROPERTIES LoopHeals
\* The boots run out.
CHECK_DEADLOCK FALSE
