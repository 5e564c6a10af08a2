SPECIFICATION FairSpec
CONSTANTS
  c1 = c1
  c2 = c2
  Ctl = {c1, c2}
  Plans <- MCPlans
  StackNum = 2
  MaxDfx = 1
  MaxConn = 4
  MaxRestart = 1
  None = None
INVARIANTS AnswersMine FrameFits DialoguesApart
PROPERTIES CommandEnds Healed
CHECK_DEADLOCK FALSE
