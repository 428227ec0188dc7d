SPECIFICATION FairSpec
CONSTANTS
  SCREEN_WIDTH = 8
  SCREEN_HEIGHT = 5
  RACKET_HEIGHT = 2
  RACKET1_X = 1
  RACKET2_X = 6
  RACKET_INITIAL_Y = 2
  BALL_INITIAL_X = 4
  BALL_INITIAL_Y = 2
  WINNING_SCORE = 2
  BEEP_LONG_AUDIO = 227
  WALLS_BEEP = FALSE
INVARIANTS
  BallInCourt
  ScoresBounded
  FrameOnScreen
PROPERTIES
  RacketDefends
  BallCrosses
