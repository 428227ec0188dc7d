----------------------------- MODULE PongProofs -----------------------------
(***************************************************************************)
(* Proofs about the game, for every court that PongAssumption allows: the  *)
(* byte arithmetic of the ball, the rackets and the scores never wraps, a  *)
(* frame draws nothing outside the screen, and a racket that follows the   *)
(* ball concedes no point.  Each helper of handle_clock establishes what   *)
(* the next one needs:                                                     *)
(*                                                                         *)
(*   check_score   ScoresIn -> NotWon                                      *)
(*   update_ball   BallIn -> BallMoved                                     *)
(*   HitWalls      BallMoved -> BallTurned                                 *)
(*   HitRacket1/2  keep BallTurned                                         *)
(*   HitGoals      BallTurned, NotWon -> BallIn, ScoresIn                  *)
(***************************************************************************)
EXTENDS Pong, BytesProofs

(* The fields of the game over any set of numbers. *)
GameOf(B) ==
  [racket1_pos : B, racket2_pos : B, score1 : B, score2 : B,
   ball_pos_x : B, ball_pos_y : B, ball_vel_x : BOOLEAN, ball_vel_y : BOOLEAN,
   audio1 : B, timer1 : B]

RacketsIn(g) == g.racket1_pos <= Bottom /\ g.racket2_pos <= Bottom

ScoresIn(g) ==
  /\ g.score1 <= WINNING_SCORE /\ g.score2 <= WINNING_SCORE
  /\ ~(g.score1 = WINNING_SCORE /\ g.score2 = WINNING_SCORE)

NotWon(g) == g.score1 < WINNING_SCORE /\ g.score2 < WINNING_SCORE

BallMoved(g) ==
  /\ g.ball_pos_x < SCREEN_WIDTH /\ g.ball_pos_y < SCREEN_HEIGHT
  /\ g.ball_pos_x <= RACKET1_X => ~g.ball_vel_x
  /\ g.ball_pos_x >= RACKET2_X => g.ball_vel_x

BallTurned(g) ==
  /\ BallMoved(g)
  /\ g.ball_pos_y = 0 => g.ball_vel_y
  /\ g.ball_pos_y = SCREEN_HEIGHT - 1 => ~g.ball_vel_y

BallIn(g) ==
  /\ BallTurned(g)
  /\ 0 < g.ball_pos_x /\ g.ball_pos_x < SCREEN_WIDTH - 1

IInv == game \in Game /\ RacketsIn(game) /\ ScoresIn(game) /\ BallIn(game)

-----------------------------------------------------------------------------
(* The constants as numbers. *)
LEMMA Constants ==
  /\ SCREEN_WIDTH \in Int /\ SCREEN_WIDTH <= 255
  /\ SCREEN_HEIGHT \in Int /\ SCREEN_HEIGHT <= 255
  /\ RACKET_HEIGHT \in Int /\ 0 < RACKET_HEIGHT /\ RACKET_HEIGHT < SCREEN_HEIGHT
  /\ RACKET1_X \in Int /\ RACKET2_X \in Int
  /\ 0 < RACKET1_X /\ RACKET1_X + 2 < RACKET2_X /\ RACKET2_X < SCREEN_WIDTH - 1
  /\ RACKET_INITIAL_Y \in Int /\ 0 <= RACKET_INITIAL_Y /\ RACKET_INITIAL_Y <= Bottom
  /\ BALL_INITIAL_X \in Int /\ RACKET1_X < BALL_INITIAL_X /\ BALL_INITIAL_X < RACKET2_X - 1
  /\ BALL_INITIAL_Y \in Int /\ 0 < BALL_INITIAL_Y /\ BALL_INITIAL_Y < SCREEN_HEIGHT - 1
  /\ WINNING_SCORE \in Int /\ 0 < WINNING_SCORE /\ WINNING_SCORE < SCREEN_WIDTH
<1>1. /\ SCREEN_WIDTH \in Int /\ 0 <= SCREEN_WIDTH /\ SCREEN_WIDTH <= 255
      /\ SCREEN_HEIGHT \in Int /\ 0 <= SCREEN_HEIGHT /\ SCREEN_HEIGHT <= 255
  BY PongAssumption, ByteBounds
<1>2. /\ RACKET_HEIGHT \in Nat \ {0} /\ RACKET_HEIGHT < SCREEN_HEIGHT
      /\ RACKET1_X \in Nat /\ RACKET2_X \in Nat
      /\ 0 < RACKET1_X /\ RACKET1_X + 2 < RACKET2_X /\ RACKET2_X < SCREEN_WIDTH - 1
      /\ RACKET_INITIAL_Y \in 0 .. SCREEN_HEIGHT - RACKET_HEIGHT
      /\ BALL_INITIAL_X \in RACKET1_X + 1 .. RACKET2_X - 2
      /\ BALL_INITIAL_Y \in 1 .. SCREEN_HEIGHT - 2
      /\ WINNING_SCORE \in 1 .. SCREEN_WIDTH - 1
  BY PongAssumption
<1> QED
  BY SMT, <1>1, <1>2 DEF Bottom

(* The same numbers are bytes, and so are the literals that are stored. *)
LEMMA ConstantBytes ==
  /\ 0 \in Byte /\ RACKET_INITIAL_Y \in Byte /\ BALL_INITIAL_X \in Byte /\ BALL_INITIAL_Y \in Byte
  /\ BEEP_SHORT_AUDIO \in Byte /\ SILENT_AUDIO \in Byte /\ BEEP_LONG_AUDIO \in Byte
  /\ \h0A \in Byte /\ \h1E \in Byte
<1>1. /\ 0 <= RACKET_INITIAL_Y /\ RACKET_INITIAL_Y <= 255
      /\ 0 <= BALL_INITIAL_X /\ BALL_INITIAL_X <= 255
      /\ 0 <= BALL_INITIAL_Y /\ BALL_INITIAL_Y <= 255
  BY SMT, Constants DEF Bottom
<1>2. BEEP_SHORT_AUDIO = 217 /\ SILENT_AUDIO = 25 /\ \h0A = 10 /\ \h1E = 30
  BY SMT DEF BEEP_SHORT_AUDIO, SILENT_AUDIO
<1>3. 0 \in Byte /\ 217 \in Byte /\ 25 \in Byte /\ 10 \in Byte /\ 30 \in Byte
  BY SMT, ByteBounds
<1>4. RACKET_INITIAL_Y \in Byte /\ BALL_INITIAL_X \in Byte /\ BALL_INITIAL_Y \in Byte
  BY SMT, <1>1, Constants, ByteBounds
<1> QED
  BY <1>2, <1>3, <1>4, PongAssumption

(* A game is such a record, over the bytes, and bytes are numbers. *)
LEMMA GameBytes ==
  /\ Game = GameOf(Byte)
  /\ \A g \in Game :
       /\ g.racket1_pos \in Int /\ 0 <= g.racket1_pos /\ g.racket1_pos <= 255
       /\ g.racket2_pos \in Int /\ 0 <= g.racket2_pos /\ g.racket2_pos <= 255
       /\ g.score1 \in Int /\ 0 <= g.score1 /\ g.score1 <= 255
       /\ g.score2 \in Int /\ 0 <= g.score2 /\ g.score2 <= 255
       /\ g.ball_pos_x \in Int /\ 0 <= g.ball_pos_x /\ g.ball_pos_x <= 255
       /\ g.ball_pos_y \in Int /\ 0 <= g.ball_pos_y /\ g.ball_pos_y <= 255
<1>1. Game = GameOf(Byte)
  BY DEF Game, GameOf
<1>2. ASSUME NEW g \in Game
      PROVE  /\ g.racket1_pos \in Byte /\ g.racket2_pos \in Byte
             /\ g.score1 \in Byte /\ g.score2 \in Byte
             /\ g.ball_pos_x \in Byte /\ g.ball_pos_y \in Byte
  BY DEF Game
<1> QED
  BY <1>1, <1>2, ByteBounds

-----------------------------------------------------------------------------
(* The ball goes back to the middle and moves to the right and down. *)
LEMMA ResetBall ==
  ASSUME NEW B, NEW g \in GameOf(B), BALL_INITIAL_X \in B, BALL_INITIAL_Y \in B
  PROVE  /\ reset_ball_position(g) \in GameOf(B)
         /\ reset_ball_position(g).racket1_pos = g.racket1_pos
         /\ reset_ball_position(g).racket2_pos = g.racket2_pos
         /\ reset_ball_position(g).score1 = g.score1
         /\ reset_ball_position(g).score2 = g.score2
         /\ reset_ball_position(g).ball_pos_x = BALL_INITIAL_X
         /\ reset_ball_position(g).ball_pos_y = BALL_INITIAL_Y
         /\ reset_ball_position(g).ball_vel_x = TRUE
         /\ reset_ball_position(g).ball_vel_y = TRUE
BY DEF reset_ball_position, GameOf

(* A game that starts has the rackets and the ball in their places. *)
LEMMA ResetGame ==
  ASSUME NEW B, NEW g \in GameOf(B), 0 \in B,
         BALL_INITIAL_X \in B, BALL_INITIAL_Y \in B, RACKET_INITIAL_Y \in B
  PROVE  /\ reset_game(g) \in GameOf(B)
         /\ reset_game(g).racket1_pos = RACKET_INITIAL_Y
         /\ reset_game(g).racket2_pos = RACKET_INITIAL_Y
         /\ reset_game(g).score1 = 0 /\ reset_game(g).score2 = 0
         /\ reset_game(g).ball_pos_x = BALL_INITIAL_X
         /\ reset_game(g).ball_pos_y = BALL_INITIAL_Y
         /\ reset_game(g).ball_vel_x = TRUE /\ reset_game(g).ball_vel_y = TRUE
<1> DEFINE s == [g EXCEPT !.score1 = 0, !.score2 = 0]
           r == [s EXCEPT !.racket1_pos = RACKET_INITIAL_Y, !.racket2_pos = RACKET_INITIAL_Y]
<1>1. s \in GameOf(B) /\ s.score1 = 0 /\ s.score2 = 0
  BY DEF GameOf
<1>2. reset_game(g) = reset_ball_position(r)
  BY DEF reset_game, reset_positions
<1> HIDE DEF s
<1>3. /\ r \in GameOf(B) /\ r.score1 = 0 /\ r.score2 = 0
      /\ r.racket1_pos = RACKET_INITIAL_Y /\ r.racket2_pos = RACKET_INITIAL_Y
  BY <1>1 DEF GameOf
<1> HIDE DEF r
<1> QED
  BY <1>2, <1>3, ResetBall

(* What a beep leaves alone: all but the last bytes for audio and timer. *)
SameGame(h, g) ==
  /\ h.racket1_pos = g.racket1_pos /\ h.racket2_pos = g.racket2_pos
  /\ h.score1 = g.score1 /\ h.score2 = g.score2
  /\ h.ball_pos_x = g.ball_pos_x /\ h.ball_pos_y = g.ball_pos_y
  /\ h.ball_vel_x <=> g.ball_vel_x
  /\ h.ball_vel_y <=> g.ball_vel_y

(* Starting and ending a beep. *)
LEMMA Beeps ==
  ASSUME NEW B, NEW g \in GameOf(B), \h0A \in B, \h1E \in B,
         BEEP_SHORT_AUDIO \in B, BEEP_LONG_AUDIO \in B, SILENT_AUDIO \in B
  PROVE  /\ start_short_beep(g) \in GameOf(B) /\ SameGame(start_short_beep(g), g)
         /\ start_long_beep(g) \in GameOf(B) /\ SameGame(start_long_beep(g), g)
         /\ stop_beep(g) \in GameOf(B) /\ SameGame(stop_beep(g), g)
<1> DEFINE a == \h0A
           b == \h1E
<1>1. a \in B /\ b \in B
  OBVIOUS
<1>2. /\ start_short_beep(g) = [g EXCEPT !.audio1 = BEEP_SHORT_AUDIO, !.timer1 = a]
      /\ start_long_beep(g) = [g EXCEPT !.audio1 = BEEP_LONG_AUDIO, !.timer1 = b]
      /\ stop_beep(g) = [g EXCEPT !.audio1 = SILENT_AUDIO]
  BY DEF start_short_beep, start_long_beep, stop_beep
<1> HIDE DEF a, b
<1>3. start_short_beep(g) \in GameOf(B) /\ SameGame(start_short_beep(g), g)
  BY <1>1, <1>2 DEF GameOf, SameGame
<1>4. start_long_beep(g) \in GameOf(B) /\ SameGame(start_long_beep(g), g)
  BY <1>1, <1>2 DEF GameOf, SameGame
<1>5. stop_beep(g) \in GameOf(B) /\ SameGame(stop_beep(g), g)
  BY <1>2 DEF GameOf, SameGame
<1> QED
  BY <1>3, <1>4, <1>5

(* So a beep keeps all that is said of the rackets, the scores, the ball. *)
LEMMA BeepKeeps ==
  ASSUME NEW g, NEW h, SameGame(h, g)
  PROVE  /\ RacketsIn(g) => RacketsIn(h)
         /\ ScoresIn(g) => ScoresIn(h)
         /\ NotWon(g) => NotWon(h)
         /\ BallTurned(g) => BallTurned(h)
         /\ BallIn(g) => BallIn(h)
BY DEF SameGame, RacketsIn, ScoresIn, NotWon, BallMoved, BallTurned, BallIn

-----------------------------------------------------------------------------
(***************************************************************************)
(* The helpers of the handlers.                                            *)
(***************************************************************************)
(* The game that starts again is as the invariant says, and not won. *)
LEMMA StartsWell ==
  ASSUME NEW g \in Game
  PROVE  /\ reset_game(g) \in Game /\ RacketsIn(reset_game(g)) /\ NotWon(reset_game(g))
         /\ BallIn(reset_game(g))
         /\ reset_game(g).score1 = 0 /\ reset_game(g).score2 = 0
         /\ reset_game(g).ball_pos_x = BALL_INITIAL_X /\ reset_game(g).ball_vel_x
<1> DEFINE r == reset_game(g)
<1>0. /\ g \in GameOf(Byte) /\ 0 \in Byte
      /\ BALL_INITIAL_X \in Byte /\ BALL_INITIAL_Y \in Byte /\ RACKET_INITIAL_Y \in Byte
  BY GameBytes, ConstantBytes
<1>1. /\ r \in GameOf(Byte)
      /\ r.racket1_pos = RACKET_INITIAL_Y /\ r.racket2_pos = RACKET_INITIAL_Y
      /\ r.score1 = 0 /\ r.score2 = 0
      /\ r.ball_pos_x = BALL_INITIAL_X /\ r.ball_pos_y = BALL_INITIAL_Y
      /\ r.ball_vel_x = TRUE /\ r.ball_vel_y = TRUE
  BY <1>0, ResetGame
<1> HIDE DEF r
<1>2. RacketsIn(r) /\ NotWon(r)
  BY SMT, <1>1, Constants DEF RacketsIn, NotWon, Bottom
<1>3. BallIn(r)
  BY SMT, <1>1, Constants DEF BallMoved, BallTurned, BallIn
<1> QED
  BY <1>1, <1>2, <1>3, GameBytes DEF r

(* check_score leaves a game that nobody has won. *)
LEMMA CheckScore ==
  ASSUME NEW g \in Game, RacketsIn(g), ScoresIn(g), BallIn(g)
  PROVE  /\ check_score(g) \in Game /\ RacketsIn(check_score(g)) /\ NotWon(check_score(g))
         /\ BallIn(check_score(g))
<1>1. CASE WINNING_SCORE \in {g.score1, g.score2}
  BY <1>1, StartsWell DEF check_score
<1>2. CASE WINNING_SCORE \notin {g.score1, g.score2}
  <2>1. check_score(g) = g
    BY <1>2 DEF check_score
  <2>2. NotWon(g)
    BY SMT, <1>2, GameBytes, Constants DEF ScoresIn, NotWon
  <2> QED
    BY <2>1, <2>2
<1> QED
  BY <1>1, <1>2

(* Inside the court the position of the ball moves by one and stays a byte. *)
LEMMA MovedBy ==
  ASSUME NEW n \in Int, NEW forward \in BOOLEAN,
         0 <= n, n <= 255, n = 0 => forward, n = 255 => ~forward
  PROVE  Moved(n, forward) = IF forward THEN n + 1 ELSE n - 1
BY SMT DEF Moved, U8

(* Nothing but the position of the ball changes when it is placed. *)
Placed(g, a, b) == [g EXCEPT !.ball_pos_x = a, !.ball_pos_y = b]

(* Placing the ball. *)
LEMMA PlaceBall ==
  ASSUME NEW B, NEW g \in GameOf(B), NEW a \in B, NEW b \in B
  PROVE  /\ Placed(g, a, b) \in GameOf(B)
         /\ Placed(g, a, b).racket1_pos = g.racket1_pos
         /\ Placed(g, a, b).racket2_pos = g.racket2_pos
         /\ Placed(g, a, b).score1 = g.score1 /\ Placed(g, a, b).score2 = g.score2
         /\ Placed(g, a, b).ball_pos_x = a /\ Placed(g, a, b).ball_pos_y = b
         /\ Placed(g, a, b).ball_vel_x <=> g.ball_vel_x
BY DEF GameOf, Placed

(* update_ball moves the ball inside the screen. *)
LEMMA UpdateBall ==
  ASSUME NEW g \in Game, BallIn(g)
  PROVE  /\ update_ball(g) \in Game
         /\ BallMoved(update_ball(g))
         /\ RacketsIn(g) => RacketsIn(update_ball(g))
         /\ NotWon(g) => NotWon(update_ball(g))
         /\ update_ball(g).score1 = g.score1 /\ update_ball(g).score2 = g.score2
         /\ update_ball(g).ball_pos_x =
              IF g.ball_vel_x THEN g.ball_pos_x + 1 ELSE g.ball_pos_x - 1
         /\ update_ball(g).ball_vel_x <=> g.ball_vel_x
<1> DEFINE x == Moved(g.ball_pos_x, g.ball_vel_x)
           y == Moved(g.ball_pos_y, g.ball_vel_y)
           u == update_ball(g)
<1>1. g.ball_vel_x \in BOOLEAN /\ g.ball_vel_y \in BOOLEAN
  BY DEF Game
<1>2. /\ g.ball_pos_x \in Int /\ 0 <= g.ball_pos_x /\ g.ball_pos_x <= 255
      /\ g.ball_pos_y \in Int /\ 0 <= g.ball_pos_y /\ g.ball_pos_y <= 255
  BY GameBytes
<1>3. /\ 0 < g.ball_pos_x /\ g.ball_pos_x < SCREEN_WIDTH - 1
      /\ g.ball_pos_x <= RACKET1_X => ~g.ball_vel_x
      /\ g.ball_pos_x >= RACKET2_X => g.ball_vel_x
      /\ g.ball_pos_y < SCREEN_HEIGHT
      /\ g.ball_pos_y = 0 => g.ball_vel_y
      /\ g.ball_pos_y = SCREEN_HEIGHT - 1 => ~g.ball_vel_y
  BY DEF BallIn, BallTurned, BallMoved
<1>4. g.ball_pos_x # 0 /\ g.ball_pos_x # 255 /\ (g.ball_pos_y = 255 => ~g.ball_vel_y)
  BY SMT, <1>2, <1>3, Constants
<1>5. /\ x = IF g.ball_vel_x THEN g.ball_pos_x + 1 ELSE g.ball_pos_x - 1
      /\ y = IF g.ball_vel_y THEN g.ball_pos_y + 1 ELSE g.ball_pos_y - 1
  BY <1>1, <1>2, <1>3, <1>4, MovedBy
<1>6. x \in Byte /\ y \in Byte
  BY <1>2, U8Type, SMT DEF Moved
<1>7. u = Placed(g, x, y)
  BY DEF update_ball, Placed
<1> HIDE DEF x, y, u
<1>8. g \in GameOf(Byte)
  BY GameBytes
<1>9. /\ u \in GameOf(Byte)
      /\ u.racket1_pos = g.racket1_pos /\ u.racket2_pos = g.racket2_pos
      /\ u.score1 = g.score1 /\ u.score2 = g.score2
      /\ u.ball_pos_x = x /\ u.ball_pos_y = y
      /\ u.ball_vel_x <=> g.ball_vel_x
  BY <1>6, <1>7, <1>8, PlaceBall
<1>10. /\ x < SCREEN_WIDTH /\ y < SCREEN_HEIGHT
       /\ x <= RACKET1_X => ~g.ball_vel_x
       /\ x >= RACKET2_X => g.ball_vel_x
  BY SMT, <1>1, <1>2, <1>3, <1>5, Constants
<1>11. BallMoved(u)
  BY <1>9, <1>10 DEF BallMoved
<1>12. (RacketsIn(g) => RacketsIn(u)) /\ (NotWon(g) => NotWon(u))
  BY <1>9 DEF RacketsIn, NotWon
<1> QED
  BY <1>5, <1>9, <1>11, <1>12, GameBytes DEF u

-----------------------------------------------------------------------------
(* The parts of check_ball_collisions. *)

(* A new direction changes nothing else. *)
Across(g, forward) == [g EXCEPT !.ball_vel_x = forward]
Down(g, forward)   == [g EXCEPT !.ball_vel_y = forward]
Point1(g, a)       == [g EXCEPT !.score1 = a]
Point2(g, a)       == [g EXCEPT !.score2 = a]

(* A new direction across. *)
LEMMA TurnAcross ==
  ASSUME NEW B, NEW g \in GameOf(B), NEW forward \in BOOLEAN
  PROVE  /\ Across(g, forward) \in GameOf(B)
         /\ Across(g, forward).racket1_pos = g.racket1_pos
         /\ Across(g, forward).racket2_pos = g.racket2_pos
         /\ Across(g, forward).score1 = g.score1 /\ Across(g, forward).score2 = g.score2
         /\ Across(g, forward).ball_pos_x = g.ball_pos_x
         /\ Across(g, forward).ball_pos_y = g.ball_pos_y
         /\ Across(g, forward).ball_vel_x <=> forward
         /\ Across(g, forward).ball_vel_y <=> g.ball_vel_y
BY DEF GameOf, Across

(* The same up and down. *)
LEMMA TurnDown ==
  ASSUME NEW B, NEW g \in GameOf(B), NEW forward \in BOOLEAN
  PROVE  /\ Down(g, forward) \in GameOf(B)
         /\ Down(g, forward).racket1_pos = g.racket1_pos
         /\ Down(g, forward).racket2_pos = g.racket2_pos
         /\ Down(g, forward).score1 = g.score1 /\ Down(g, forward).score2 = g.score2
         /\ Down(g, forward).ball_pos_x = g.ball_pos_x
         /\ Down(g, forward).ball_pos_y = g.ball_pos_y
         /\ Down(g, forward).ball_vel_x <=> g.ball_vel_x
         /\ Down(g, forward).ball_vel_y <=> forward
BY DEF GameOf, Down

(* The same for the scores. *)
LEMMA ScorePoint ==
  ASSUME NEW B, NEW g \in GameOf(B), NEW a \in B
  PROVE  /\ Point1(g, a) \in GameOf(B)
         /\ Point1(g, a).racket1_pos = g.racket1_pos
         /\ Point1(g, a).racket2_pos = g.racket2_pos
         /\ Point1(g, a).score1 = a /\ Point1(g, a).score2 = g.score2
         /\ Point2(g, a) \in GameOf(B)
         /\ Point2(g, a).racket1_pos = g.racket1_pos
         /\ Point2(g, a).racket2_pos = g.racket2_pos
         /\ Point2(g, a).score1 = g.score1 /\ Point2(g, a).score2 = a
BY DEF GameOf, Point1, Point2

(* Beeps, for games. *)
LEMMA GameBeeps ==
  ASSUME NEW g \in Game
  PROVE  /\ start_short_beep(g) \in Game /\ SameGame(start_short_beep(g), g)
         /\ start_long_beep(g) \in Game /\ SameGame(start_long_beep(g), g)
         /\ stop_beep(g) \in Game /\ SameGame(stop_beep(g), g)
         /\ WallBeep(g) \in Game /\ SameGame(WallBeep(g), g)
<1>1. g \in GameOf(Byte) /\ \h0A \in Byte /\ \h1E \in Byte /\ BEEP_SHORT_AUDIO \in Byte
      /\ BEEP_LONG_AUDIO \in Byte /\ SILENT_AUDIO \in Byte
  BY GameBytes, ConstantBytes
<1>2. /\ start_short_beep(g) \in GameOf(Byte) /\ SameGame(start_short_beep(g), g)
      /\ start_long_beep(g) \in GameOf(Byte) /\ SameGame(start_long_beep(g), g)
      /\ stop_beep(g) \in GameOf(Byte) /\ SameGame(stop_beep(g), g)
  BY <1>1, Beeps
<1>3. WallBeep(g) \in GameOf(Byte) /\ SameGame(WallBeep(g), g)
  BY <1>1, <1>2 DEF WallBeep, SameGame
<1> QED
  BY <1>2, <1>3, GameBytes

(* What a part of check_ball_collisions keeps. *)
Keeps(h, g) ==
  /\ h \in Game
  /\ h.racket1_pos = g.racket1_pos /\ h.racket2_pos = g.racket2_pos
  /\ h.score1 = g.score1 /\ h.score2 = g.score2

(* The ball where it was. *)
SamePlace(h, g) == h.ball_pos_x = g.ball_pos_x /\ h.ball_pos_y = g.ball_pos_y

(* The ball in the column next to a racket, and the racket in its row. *)
Returns1(g) == Covers(g.racket1_pos, g.ball_pos_y) /\ g.ball_pos_x = RACKET1_X + 1
Returns2(g) == Covers(g.racket2_pos, g.ball_pos_y) /\ g.ball_pos_x = RACKET2_X - 1

(* HitWalls: the ball moves away from a wall it touches. *)
LEMMA HitWallsTurns ==
  ASSUME NEW g \in Game, BallMoved(g)
  PROVE  /\ Keeps(HitWalls(g), g) /\ BallTurned(HitWalls(g))
         /\ SamePlace(HitWalls(g), g)
         /\ HitWalls(g).ball_vel_x <=> g.ball_vel_x
<1>0. g \in GameOf(Byte) /\ SCREEN_HEIGHT - 1 # 0
  BY SMT, GameBytes, Constants
<1>1. CASE g.ball_pos_y = 0
  <2> DEFINE u == Down(g, TRUE)
  <2>1. HitWalls(g) = WallBeep(u)
    BY <1>0, <1>1 DEF HitWalls, Down
  <2>2. /\ u \in GameOf(Byte) /\ u.ball_vel_y
        /\ u.racket1_pos = g.racket1_pos /\ u.racket2_pos = g.racket2_pos
        /\ u.score1 = g.score1 /\ u.score2 = g.score2
        /\ u.ball_pos_x = g.ball_pos_x /\ u.ball_pos_y = g.ball_pos_y
        /\ u.ball_vel_x <=> g.ball_vel_x
    BY <1>0, TurnDown
  <2> HIDE DEF u
  <2>3. WallBeep(u) \in Game /\ SameGame(WallBeep(u), u)
    BY <2>2, GameBeeps, GameBytes
  <2>4. BallTurned(u)
    BY <1>0, <1>1, <2>2 DEF BallTurned, BallMoved
  <2> QED
    BY <2>1, <2>2, <2>3, <2>4, BeepKeeps DEF Keeps, SamePlace, SameGame
<1>2. CASE g.ball_pos_y = SCREEN_HEIGHT - 1
  <2> DEFINE u == Down(g, FALSE)
  <2>1. HitWalls(g) = WallBeep(u)
    BY <1>0, <1>2 DEF HitWalls, Down
  <2>2. /\ u \in GameOf(Byte) /\ ~u.ball_vel_y
        /\ u.racket1_pos = g.racket1_pos /\ u.racket2_pos = g.racket2_pos
        /\ u.score1 = g.score1 /\ u.score2 = g.score2
        /\ u.ball_pos_x = g.ball_pos_x /\ u.ball_pos_y = g.ball_pos_y
        /\ u.ball_vel_x <=> g.ball_vel_x
    BY <1>0, TurnDown
  <2> HIDE DEF u
  <2>3. WallBeep(u) \in Game /\ SameGame(WallBeep(u), u)
    BY <2>2, GameBeeps, GameBytes
  <2>4. BallTurned(u)
    BY <1>0, <1>2, <2>2 DEF BallTurned, BallMoved
  <2> QED
    BY <2>1, <2>2, <2>3, <2>4, BeepKeeps DEF Keeps, SamePlace, SameGame
<1>3. CASE g.ball_pos_y # 0 /\ g.ball_pos_y # SCREEN_HEIGHT - 1
  <2>1. HitWalls(g) = g
    BY <1>3 DEF HitWalls
  <2> QED
    BY <1>3, <2>1 DEF BallTurned, Keeps, SamePlace
<1> QED
  BY <1>1, <1>2, <1>3

(* HitRacket1: the left racket turns a ball that is one column off it. *)
LEMMA HitRacket1Turns ==
  ASSUME NEW g \in Game, BallTurned(g)
  PROVE  /\ Keeps(HitRacket1(g), g) /\ BallTurned(HitRacket1(g))
         /\ SamePlace(HitRacket1(g), g)
         /\ HitRacket1(g).ball_vel_x <=> Returns1(g) \/ g.ball_vel_x
<1>0. g \in GameOf(Byte)
  BY GameBytes
<1>1. CASE Returns1(g)
  <2> DEFINE u == Across(g, TRUE)
  <2>1. HitRacket1(g) = start_short_beep(u)
    BY <1>1 DEF HitRacket1, Returns1, Across
  <2>2. /\ u \in GameOf(Byte) /\ u.ball_vel_x
        /\ u.racket1_pos = g.racket1_pos /\ u.racket2_pos = g.racket2_pos
        /\ u.score1 = g.score1 /\ u.score2 = g.score2
        /\ u.ball_pos_x = g.ball_pos_x /\ u.ball_pos_y = g.ball_pos_y
        /\ u.ball_vel_y <=> g.ball_vel_y
    BY <1>0, TurnAcross
  <2> HIDE DEF u
  <2>3. start_short_beep(u) \in Game /\ SameGame(start_short_beep(u), u)
    BY <2>2, GameBeeps, GameBytes
  <2>4. u.ball_pos_x > RACKET1_X
    BY SMT, <1>1, <2>2, Constants DEF Returns1
  <2>5. BallTurned(u)
    <3>1. u.ball_pos_x <= RACKET1_X => ~u.ball_vel_x
      BY SMT, <2>2, <2>4, Constants, GameBytes
    <3> QED
      BY <2>2, <3>1 DEF BallTurned, BallMoved
  <2> QED
    BY <1>1, <2>1, <2>2, <2>3, <2>5, BeepKeeps DEF Keeps, SamePlace, SameGame
<1>2. CASE ~Returns1(g)
  BY <1>2 DEF HitRacket1, Returns1, Keeps, SamePlace
<1> QED
  BY <1>1, <1>2

(* HitRacket2: the right racket turns a ball that is one column off it. *)
LEMMA HitRacket2Turns ==
  ASSUME NEW g \in Game, BallTurned(g)
  PROVE  /\ Keeps(HitRacket2(g), g) /\ BallTurned(HitRacket2(g))
         /\ SamePlace(HitRacket2(g), g)
         /\ HitRacket2(g).ball_vel_x <=> ~Returns2(g) /\ g.ball_vel_x
<1>0. g \in GameOf(Byte)
  BY GameBytes
<1>1. CASE Returns2(g)
  <2> DEFINE u == Across(g, FALSE)
  <2>1. HitRacket2(g) = start_short_beep(u)
    BY <1>1 DEF HitRacket2, Returns2, Across
  <2>2. /\ u \in GameOf(Byte) /\ ~u.ball_vel_x
        /\ u.racket1_pos = g.racket1_pos /\ u.racket2_pos = g.racket2_pos
        /\ u.score1 = g.score1 /\ u.score2 = g.score2
        /\ u.ball_pos_x = g.ball_pos_x /\ u.ball_pos_y = g.ball_pos_y
        /\ u.ball_vel_y <=> g.ball_vel_y
    BY <1>0, TurnAcross
  <2> HIDE DEF u
  <2>3. start_short_beep(u) \in Game /\ SameGame(start_short_beep(u), u)
    BY <2>2, GameBeeps, GameBytes
  <2>4. ~(u.ball_pos_x >= RACKET2_X)
    BY SMT, <1>1, <2>2, Constants DEF Returns2
  <2>5. BallTurned(u)
    BY <2>2, <2>4 DEF BallTurned, BallMoved
  <2> QED
    BY <1>1, <2>1, <2>2, <2>3, <2>5, BeepKeeps DEF Keeps, SamePlace, SameGame
<1>2. CASE ~Returns2(g)
  BY <1>2 DEF HitRacket2, Returns2, Keeps, SamePlace
<1> QED
  BY <1>1, <1>2

(* The ball in the middle, where a goal leaves it. *)
LEMMA BallAfterGoal ==
  ASSUME NEW g \in Game
  PROVE  LET h == start_long_beep(reset_ball_position(g))
         IN  Keeps(h, g) /\ BallIn(h) /\ h.ball_pos_x = BALL_INITIAL_X /\ h.ball_vel_x
<1> DEFINE r == reset_ball_position(g)
<1>0. g \in GameOf(Byte) /\ BALL_INITIAL_X \in Byte /\ BALL_INITIAL_Y \in Byte
  BY GameBytes, ConstantBytes
<1>1. /\ r \in GameOf(Byte)
      /\ r.racket1_pos = g.racket1_pos /\ r.racket2_pos = g.racket2_pos
      /\ r.score1 = g.score1 /\ r.score2 = g.score2
      /\ r.ball_pos_x = BALL_INITIAL_X /\ r.ball_pos_y = BALL_INITIAL_Y
      /\ r.ball_vel_x = TRUE /\ r.ball_vel_y = TRUE
  BY <1>0, ResetBall
<1> HIDE DEF r
<1>2. BallIn(r)
  BY SMT, <1>1, Constants DEF BallMoved, BallTurned, BallIn
<1>3. start_long_beep(r) \in Game /\ SameGame(start_long_beep(r), r)
  BY <1>1, GameBeeps, GameBytes
<1>4. /\ Keeps(start_long_beep(r), g) /\ BallIn(start_long_beep(r))
      /\ start_long_beep(r).ball_pos_x = BALL_INITIAL_X /\ start_long_beep(r).ball_vel_x
  BY <1>1, <1>2, <1>3, BeepKeeps DEF Keeps, SameGame
<1> QED
  BY <1>4 DEF r

(* HitGoals: a ball in a goal column is a point, and back in the middle. *)
LEMMA HitGoalsScores ==
  ASSUME NEW g \in Game, BallTurned(g), RacketsIn(g), NotWon(g)
  PROVE  /\ HitGoals(g) \in Game /\ RacketsIn(HitGoals(g)) /\ ScoresIn(HitGoals(g))
         /\ BallIn(HitGoals(g))
         /\ \/ HitGoals(g) = g
            \/ /\ HitGoals(g).ball_pos_x = BALL_INITIAL_X /\ HitGoals(g).ball_vel_x
               /\ g.ball_pos_x > 0 => HitGoals(g).score2 = g.score2
               /\ g.ball_pos_x < SCREEN_WIDTH - 1 => HitGoals(g).score1 = g.score1
<1>0. /\ g \in GameOf(Byte) /\ SCREEN_WIDTH - 1 # 0
      /\ g.score1 \in Int /\ 0 <= g.score1 /\ g.score2 \in Int /\ 0 <= g.score2
      /\ g.score1 + 1 <= WINNING_SCORE /\ g.score2 + 1 <= WINNING_SCORE
      /\ U8(g.score1 + 1) = g.score1 + 1 /\ U8(g.score2 + 1) = g.score2 + 1
  BY SMT, GameBytes, Constants DEF NotWon, U8
<1>1. g \in GameOf(Byte) /\ U8(g.score1 + 1) \in Byte /\ U8(g.score2 + 1) \in Byte
  BY SMT, <1>0, U8Type
<1>2. CASE g.ball_pos_x = 0
  <2> DEFINE a == U8(g.score2 + 1)
             u == Point2(g, a)
  <2>1. HitGoals(g) = start_long_beep(reset_ball_position(u))
    BY <1>0, <1>2 DEF HitGoals, Point2
  <2>2. /\ u \in GameOf(Byte) /\ u.racket1_pos = g.racket1_pos /\ u.racket2_pos = g.racket2_pos
        /\ u.score1 = g.score1 /\ u.score2 = a
    <3>1. a \in Byte
      BY <1>1
    <3> HIDE DEF a
    <3> QED
      BY <1>1, <3>1, ScorePoint
  <2> HIDE DEF u
  <2>3. RacketsIn(u) /\ ScoresIn(u)
    BY SMT, <1>0, <2>2, Constants DEF RacketsIn, ScoresIn
  <2>4. /\ Keeps(HitGoals(g), u) /\ BallIn(HitGoals(g))
        /\ HitGoals(g).ball_pos_x = BALL_INITIAL_X /\ HitGoals(g).ball_vel_x
    BY <2>1, <2>2, BallAfterGoal, GameBytes
  <2>5. HitGoals(g) \in Game /\ RacketsIn(HitGoals(g)) /\ ScoresIn(HitGoals(g))
    BY <2>3, <2>4 DEF Keeps, RacketsIn, ScoresIn
  <2>6. HitGoals(g).score1 = g.score1 /\ ~(g.ball_pos_x > 0)
    BY <1>2, <2>2, <2>4 DEF Keeps
  <2> QED
    BY <2>4, <2>5, <2>6
<1>3. CASE g.ball_pos_x = SCREEN_WIDTH - 1
  <2> DEFINE a == U8(g.score1 + 1)
             u == Point1(g, a)
  <2>1. HitGoals(g) = start_long_beep(reset_ball_position(u))
    BY <1>0, <1>3 DEF HitGoals, Point1
  <2>2. /\ u \in GameOf(Byte) /\ u.racket1_pos = g.racket1_pos /\ u.racket2_pos = g.racket2_pos
        /\ u.score1 = a /\ u.score2 = g.score2
    <3>1. a \in Byte
      BY <1>1
    <3> HIDE DEF a
    <3> QED
      BY <1>1, <3>1, ScorePoint
  <2> HIDE DEF u
  <2>3. RacketsIn(u) /\ ScoresIn(u)
    BY SMT, <1>0, <2>2, Constants DEF RacketsIn, ScoresIn
  <2>4. /\ Keeps(HitGoals(g), u) /\ BallIn(HitGoals(g))
        /\ HitGoals(g).ball_pos_x = BALL_INITIAL_X /\ HitGoals(g).ball_vel_x
    BY <2>1, <2>2, BallAfterGoal, GameBytes
  <2>5. HitGoals(g) \in Game /\ RacketsIn(HitGoals(g)) /\ ScoresIn(HitGoals(g))
    BY <2>3, <2>4 DEF Keeps, RacketsIn, ScoresIn
  <2>6. HitGoals(g).score2 = g.score2 /\ ~(g.ball_pos_x < SCREEN_WIDTH - 1)
    BY SMT, <1>3, <2>2, <2>4, Constants DEF Keeps
  <2> QED
    BY <2>4, <2>5, <2>6
<1>4. CASE g.ball_pos_x # 0 /\ g.ball_pos_x # SCREEN_WIDTH - 1
  <2>1. HitGoals(g) = g
    BY <1>4 DEF HitGoals
  <2>2. 0 < g.ball_pos_x /\ g.ball_pos_x < SCREEN_WIDTH - 1
    BY SMT, <1>4, GameBytes, Constants DEF BallTurned, BallMoved
  <2>3. ScoresIn(g)
    BY SMT, <1>0, Constants DEF ScoresIn
  <2> QED
    BY <2>1, <2>2, <2>3 DEF BallIn
<1> QED
  BY <1>2, <1>3, <1>4

-----------------------------------------------------------------------------
(* What the parts keep carries the rackets and the scores along. *)
LEMMA KeepsMore ==
  ASSUME NEW g, NEW h, Keeps(h, g)
  PROVE  h \in Game /\ (RacketsIn(g) => RacketsIn(h)) /\ (NotWon(g) => NotWon(h))
BY DEF Keeps, RacketsIn, NotWon

(* handle_clock keeps the invariant. *)
LEMMA ClockKeeps ==
  ASSUME NEW g \in Game, RacketsIn(g), ScoresIn(g), BallIn(g)
  PROVE  /\ handle_clock(g) \in Game /\ RacketsIn(handle_clock(g)) /\ ScoresIn(handle_clock(g))
         /\ BallIn(handle_clock(g))
<1> DEFINE c  == check_score(g)
           u  == update_ball(c)
           w  == HitWalls(u)
           r1 == HitRacket1(w)
           r2 == HitRacket2(r1)
<1>1. handle_clock(g) = HitGoals(r2)
  BY DEF handle_clock, check_ball_collisions
<1>2. c \in Game /\ RacketsIn(c) /\ NotWon(c) /\ BallIn(c)
  BY CheckScore
<1> HIDE DEF c
<1>3. u \in Game /\ RacketsIn(u) /\ NotWon(u) /\ BallMoved(u)
  BY <1>2, UpdateBall
<1> HIDE DEF u
<1>4. w \in Game /\ RacketsIn(w) /\ NotWon(w) /\ BallTurned(w)
  BY <1>3, HitWallsTurns, KeepsMore
<1> HIDE DEF w
<1>5. r1 \in Game /\ RacketsIn(r1) /\ NotWon(r1) /\ BallTurned(r1)
  BY <1>4, HitRacket1Turns, KeepsMore
<1> HIDE DEF r1
<1>6. r2 \in Game /\ RacketsIn(r2) /\ NotWon(r2) /\ BallTurned(r2)
  BY <1>5, HitRacket2Turns, KeepsMore
<1> HIDE DEF r2
<1> QED
  BY <1>1, <1>6, HitGoalsScores

(* A racket at another height, the rest of the game as it was. *)
Racket1At(g, a) == [g EXCEPT !.racket1_pos = a]
Racket2At(g, a) == [g EXCEPT !.racket2_pos = a]

SameBall(h, g) ==
  /\ h.score1 = g.score1 /\ h.score2 = g.score2
  /\ h.ball_pos_x = g.ball_pos_x /\ h.ball_pos_y = g.ball_pos_y
  /\ h.ball_vel_x <=> g.ball_vel_x
  /\ h.ball_vel_y <=> g.ball_vel_y

(* Moving a racket. *)
LEMMA MoveRacket ==
  ASSUME NEW B, NEW g \in GameOf(B), NEW a \in B
  PROVE  /\ Racket1At(g, a) \in GameOf(B) /\ SameBall(Racket1At(g, a), g)
         /\ Racket1At(g, a).racket1_pos = a /\ Racket1At(g, a).racket2_pos = g.racket2_pos
         /\ Racket2At(g, a) \in GameOf(B) /\ SameBall(Racket2At(g, a), g)
         /\ Racket2At(g, a).racket1_pos = g.racket1_pos /\ Racket2At(g, a).racket2_pos = a
BY DEF GameOf, Racket1At, Racket2At, SameBall

(* A racket that moves to a row above the bottom one keeps the invariant. *)
LEMMA RacketKeeps ==
  ASSUME NEW g \in Game, RacketsIn(g), ScoresIn(g), BallIn(g), NEW a \in Byte, a <= Bottom,
         NEW u, u = Racket1At(g, a) \/ u = Racket2At(g, a)
  PROVE  u \in Game /\ RacketsIn(u) /\ ScoresIn(u) /\ BallIn(u)
<1>1. g \in GameOf(Byte)
  BY GameBytes
<1>2. u \in GameOf(Byte) /\ SameBall(u, g)
  BY <1>1, MoveRacket
<1>3. \/ u.racket1_pos = a /\ u.racket2_pos = g.racket2_pos
      \/ u.racket1_pos = g.racket1_pos /\ u.racket2_pos = a
  BY <1>1, MoveRacket
<1>4. RacketsIn(u)
  BY <1>3 DEF RacketsIn
<1>5. ScoresIn(u) /\ BallIn(u)
  BY <1>2 DEF SameBall, ScoresIn, BallIn, BallTurned, BallMoved
<1> QED
  BY <1>2, <1>4, <1>5, GameBytes

(* One row up or down the racket stays where it may be. *)
LEMMA RacketRows ==
  ASSUME NEW n \in Int, 0 <= n, n <= Bottom
  PROVE  /\ n # 0 => U8(n - 1) \in Byte /\ U8(n - 1) <= Bottom
         /\ n # Bottom => U8(n + 1) \in Byte /\ U8(n + 1) <= Bottom
<1>1. Bottom \in Int /\ Bottom <= 255
  BY SMT, Constants DEF Bottom
<1>2. /\ n # 0 => U8(n - 1) = n - 1
      /\ n # Bottom => U8(n + 1) = n + 1
  BY SMT, <1>1 DEF U8
<1>3. U8(n - 1) \in Byte /\ U8(n + 1) \in Byte
  BY SMT, U8Type
<1> QED
  BY SMT, <1>1, <1>2, <1>3

(* handle_keypress keeps the invariant. *)
LEMMA KeypressKeeps ==
  ASSUME NEW g \in Game, RacketsIn(g), ScoresIn(g), BallIn(g), NEW key
  PROVE  /\ handle_keypress(g, key) \in Game /\ RacketsIn(handle_keypress(g, key))
         /\ ScoresIn(handle_keypress(g, key)) /\ BallIn(handle_keypress(g, key))
<1> DEFINE h == handle_keypress(g, key)
           up1 == U8(g.racket1_pos - 1)
           down1 == U8(g.racket1_pos + 1)
           up2 == U8(g.racket2_pos - 1)
           down2 == U8(g.racket2_pos + 1)
<1>1. /\ g.racket1_pos \in Int /\ 0 <= g.racket1_pos /\ g.racket1_pos <= Bottom
      /\ g.racket2_pos \in Int /\ 0 <= g.racket2_pos /\ g.racket2_pos <= Bottom
  BY GameBytes DEF RacketsIn
<1>2. /\ g.racket1_pos # 0 => up1 \in Byte /\ up1 <= Bottom
      /\ g.racket1_pos # Bottom => down1 \in Byte /\ down1 <= Bottom
      /\ g.racket2_pos # 0 => up2 \in Byte /\ up2 <= Bottom
      /\ g.racket2_pos # Bottom => down2 \in Byte /\ down2 <= Bottom
  BY <1>1, RacketRows
<1>3. \/ h = g
      \/ g.racket1_pos # 0 /\ h = Racket1At(g, up1)
      \/ g.racket1_pos # Bottom /\ h = Racket1At(g, down1)
      \/ g.racket2_pos # 0 /\ h = Racket2At(g, up2)
      \/ g.racket2_pos # Bottom /\ h = Racket2At(g, down2)
  BY DEF handle_keypress, Racket1At, Racket2At
<1> HIDE DEF h, up1, down1, up2, down2
<1>4. h \in Game /\ RacketsIn(h) /\ ScoresIn(h) /\ BallIn(h)
  BY <1>2, <1>3, RacketKeeps
<1> QED
  BY <1>4 DEF h

-----------------------------------------------------------------------------
(* The game starts as the invariant says. *)
LEMMA InitIInv == Init => IInv
<1> DEFINE z == [racket1_pos |-> 0, racket2_pos |-> 0, score1 |-> 0, score2 |-> 0,
                 ball_pos_x |-> 0, ball_pos_y |-> 0, ball_vel_x |-> FALSE, ball_vel_y |-> FALSE,
                 audio1 |-> 0, timer1 |-> 0]
<1>1. \A B : 0 \in B => z \in GameOf(B)
  BY DEF GameOf
<1>2. z \in Game
  BY <1>1, ConstantBytes, GameBytes
<1>3. Init => game = reset_game(z)
  BY DEF Init, InitialGame
<1> HIDE DEF z
<1>4. ASSUME NEW g \in Game, NotWon(g) PROVE ScoresIn(g)
  BY SMT, <1>4, GameBytes, Constants DEF NotWon, ScoresIn
<1> QED
  BY <1>2, <1>3, <1>4, StartsWell DEF IInv

(* Every interrupt keeps the invariant. *)
LEMMA NextIInv == IInv /\ [Next]_game => IInv'
<1> SUFFICES ASSUME IInv, [Next]_game PROVE IInv'
  OBVIOUS
<1>1. game \in Game /\ RacketsIn(game) /\ ScoresIn(game) /\ BallIn(game)
  BY DEF IInv
<1>2. stop_beep(game) \in Game /\ SameGame(stop_beep(game), game)
  BY <1>1, GameBeeps
<1>3. ASSUME NEW type, NEW argument, irq(type, argument) PROVE IInv'
  <2>1. \/ game' = handle_keypress(game, argument)
        \/ game' = handle_clock(game)
        \/ game' = stop_beep(game)
        \/ game' = game
    BY <1>3 DEF irq
  <2>2. game' \in Game /\ RacketsIn(game') /\ ScoresIn(game') /\ BallIn(game')
    BY <1>1, <1>2, <2>1, KeypressKeeps, ClockKeeps, BeepKeeps
  <2> QED
    BY <2>2 DEF IInv, RacketsIn, ScoresIn, BallIn, BallTurned, BallMoved
<1>4. CASE UNCHANGED game
  BY <1>1, <1>4 DEF IInv, RacketsIn, ScoresIn, BallIn, BallTurned, BallMoved
<1> QED
  BY <1>3, <1>4 DEF Next, key_press, clock_tick, timer_ends

(* The inductive invariant. *)
LEMMA Invariant == Spec => []IInv
BY InitIInv, NextIInv, PTL DEF Spec

(***************************************************************************)
(* Type correctness: every number of the game stays a byte (the helpers of *)
(* pong.cpp, which compute with uint8_t).                                  *)
(***************************************************************************)
THEOREM TypeCorrect == Spec => []TypeOK
<1>1. IInv => TypeOK
  BY DEF IInv, TypeOK
<1> QED
  BY <1>1, Invariant, PTL

(***************************************************************************)
(* On every court, and whatever keys are pressed, the ball is in the court *)
(* between two interrupts: no step of update_ball wraps around.            *)
(***************************************************************************)
THEOREM BallStaysIn == Spec => []BallInCourt
<1>1. IInv => BallInCourt
  <2> SUFFICES ASSUME IInv PROVE BallInCourt
    OBVIOUS
  <2>1. /\ 0 < game.ball_pos_x /\ game.ball_pos_x < SCREEN_WIDTH - 1
        /\ game.ball_pos_y < SCREEN_HEIGHT
        /\ game.ball_pos_y = 0 => game.ball_vel_y
        /\ game.ball_pos_y = SCREEN_HEIGHT - 1 => ~game.ball_vel_y
        /\ game.ball_pos_x <= RACKET1_X => ~game.ball_vel_x
        /\ game.ball_pos_x >= RACKET2_X => game.ball_vel_x
    BY DEF IInv, BallIn, BallTurned, BallMoved
  <2>2. /\ game.ball_pos_x \in Int /\ game.ball_pos_y \in Int /\ 0 <= game.ball_pos_y
    BY GameBytes DEF IInv
  <2>3. /\ game.ball_pos_x \in 1 .. SCREEN_WIDTH - 2
        /\ game.ball_pos_y \in 0 .. SCREEN_HEIGHT - 1
    BY SMT, <2>1, <2>2, Constants
  <2> QED
    BY <2>1, <2>3 DEF BallInCourt
<1> QED
  BY <1>1, Invariant, PTL

(***************************************************************************)
(* For every winning score below the width of the screen: no score passes  *)
(* it, and the players never both have it (check_score before              *)
(* check_ball_collisions).                                                 *)
(***************************************************************************)
THEOREM ScoresStayBounded == Spec => []ScoresBounded
<1>1. IInv => ScoresBounded
  BY DEF IInv, ScoresIn, ScoresBounded
<1> QED
  BY <1>1, Invariant, PTL

-----------------------------------------------------------------------------
(***************************************************************************)
(* What a frame draws.  A frame is a sequence of commits that are on the   *)
(* screen because each of its pieces is.                                   *)
(***************************************************************************)
Shown == {c \in [method : Int, args : Seq(Int)] : DrawnOnScreen(c)}

(* The methods are different. *)
LEMMA Methods ==
  /\ DRAW_RECTANGLE = 0 /\ DRAW_DOT = 2 /\ DRAW_LINE = 3
  /\ BRUSH_SET_BODY = 128 /\ BRUSH_SET_OUTLINE = 129
  /\ BLACK \in Int /\ BLUE \in Int /\ YELLOW \in Int /\ WHITE \in Int
BY SMT DEF DRAW_RECTANGLE, DRAW_DOT, DRAW_LINE, BRUSH_SET_BODY, BRUSH_SET_OUTLINE,
           BLACK, BLUE, YELLOW, WHITE

(* Other methods than those for dots and lines are not in question. *)
LEMMA ShownOther ==
  ASSUME NEW m \in Int, m # DRAW_DOT, m # DRAW_LINE, NEW args \in Seq(Int)
  PROVE  Commit(m, args) \in Shown
BY DEF Shown, Commit, DrawnOnScreen

(* A dot on the screen. *)
LEMMA ShownDot ==
  ASSUME NEW x \in Int, NEW y \in Int, x < SCREEN_WIDTH, y < SCREEN_HEIGHT
  PROVE  Commit(DRAW_DOT, <<x, y>>) \in Shown
<1> DEFINE c == Commit(DRAW_DOT, <<x, y>>)
<1>1. c.method = DRAW_DOT /\ c.args = <<x, y>> /\ c \in [method : Int, args : Seq(Int)]
  BY Methods DEF Commit
<1>2. c.method # DRAW_LINE
  BY <1>1, Methods
<1>3. c.args[1] = x /\ c.args[2] = y
  BY <1>1
<1> HIDE DEF c
<1>4. c \in Shown
  BY <1>1, <1>2, <1>3 DEF Shown, DrawnOnScreen
<1> QED
  BY <1>4 DEF c

(* A line on the screen, but for its lower end. *)
LEMMA ShownLine ==
  ASSUME NEW x1 \in Int, NEW y1 \in Int, NEW x2 \in Int, NEW y2 \in Int,
         x1 < SCREEN_WIDTH, x2 < SCREEN_WIDTH, y1 < SCREEN_HEIGHT, y1 <= y2, y2 <= SCREEN_HEIGHT
  PROVE  Commit(DRAW_LINE, <<x1, y1, x2, y2>>) \in Shown
<1> DEFINE c == Commit(DRAW_LINE, <<x1, y1, x2, y2>>)
<1>1. /\ c.method = DRAW_LINE /\ c.args = <<x1, y1, x2, y2>>
      /\ c \in [method : Int, args : Seq(Int)]
  BY Methods DEF Commit
<1>2. c.method # DRAW_DOT
  BY <1>1, Methods
<1>3. c.args[1] = x1 /\ c.args[2] = y1 /\ c.args[3] = x2 /\ c.args[4] = y2
  BY <1>1
<1> HIDE DEF c
<1>4. c \in Shown
  BY <1>1, <1>2, <1>3 DEF Shown, DrawnOnScreen
<1> QED
  BY <1>4 DEF c

(* Such methods. *)
LEMMA OtherMethods ==
  \A m \in {DRAW_RECTANGLE, BRUSH_SET_BODY, BRUSH_SET_OUTLINE} :
    m \in Int /\ m # DRAW_DOT /\ m # DRAW_LINE
BY SMT, Methods

(* The commits that set a colour. *)
LEMMA ColorShown == ASSUME NEW color \in Int PROVE set_color(color) \in Seq(Shown)
<1>1. <<color>> \in Seq(Int)
  OBVIOUS
<1>2. /\ Commit(BRUSH_SET_BODY, <<color>>) \in Shown
      /\ Commit(BRUSH_SET_OUTLINE, <<color>>) \in Shown
  BY <1>1, ShownOther, OtherMethods
<1> QED
  BY <1>2 DEF set_color

(* The rackets and the ball. *)
LEMMA CourtShown ==
  ASSUME NEW g \in Game, RacketsIn(g), BallIn(g)
  PROVE  Court(g) \in Seq(Shown)
<1>1. <<0, 0, SCREEN_WIDTH, SCREEN_HEIGHT>> \in Seq(Int)
  BY Constants
<1>2. clear_screen \in Seq(Shown)
  <2>1. Commit(DRAW_RECTANGLE, <<0, 0, SCREEN_WIDTH, SCREEN_HEIGHT>>) \in Shown
    BY <1>1, ShownOther, OtherMethods
  <2> QED
    BY <2>1 DEF clear_screen
<1>3. ASSUME NEW x \in Int, x < SCREEN_WIDTH, NEW pos \in Int, 0 <= pos, pos <= Bottom
      PROVE  draw_racket(x, pos) \in Shown
  <2> DEFINE low == U8(pos + RACKET_HEIGHT)
  <2>1. low = pos + RACKET_HEIGHT
    BY SMT, <1>3, Constants DEF Bottom, U8
  <2>2. low \in Int /\ pos < SCREEN_HEIGHT /\ pos <= low /\ low <= SCREEN_HEIGHT
    BY SMT, <1>3, <2>1, Constants DEF Bottom
  <2> HIDE DEF low
  <2>3. Commit(DRAW_LINE, <<x, pos, x, low>>) \in Shown
    BY <1>3, <2>2, ShownLine
  <2> QED
    BY <2>3 DEF draw_racket, low
<1>4. /\ RACKET1_X \in Int /\ RACKET1_X < SCREEN_WIDTH
      /\ RACKET2_X \in Int /\ RACKET2_X < SCREEN_WIDTH
  BY SMT, Constants
<1>5. /\ g.racket1_pos \in Int /\ 0 <= g.racket1_pos /\ g.racket1_pos <= Bottom
      /\ g.racket2_pos \in Int /\ 0 <= g.racket2_pos /\ g.racket2_pos <= Bottom
  BY GameBytes DEF RacketsIn
<1>6. draw_rackets(g) \in Seq(Shown)
  <2>1. draw_racket(RACKET1_X, g.racket1_pos) \in Shown
    BY <1>3, <1>4, <1>5
  <2>2. draw_racket(RACKET2_X, g.racket2_pos) \in Shown
    BY <1>3, <1>4, <1>5
  <2> QED
    BY <2>1, <2>2 DEF draw_rackets
<1>7. /\ g.ball_pos_x \in Int /\ g.ball_pos_x < SCREEN_WIDTH
      /\ g.ball_pos_y \in Int /\ g.ball_pos_y < SCREEN_HEIGHT
  BY GameBytes DEF BallIn, BallTurned, BallMoved
<1>8. draw_ball(g) \in Seq(Shown)
  <2>1. Commit(DRAW_DOT, <<g.ball_pos_x, g.ball_pos_y>>) \in Shown
    BY <1>7, ShownDot
  <2> QED
    BY <2>1 DEF draw_ball
<1>9. set_color(BLACK) \in Seq(Shown) /\ set_color(WHITE) \in Seq(Shown)
  BY ColorShown, Methods
<1>10. \A S : \A a, b, c, d, e \in Seq(S) : a \o b \o c \o d \o e \in Seq(S)
  OBVIOUS
<1> QED
  BY <1>2, <1>6, <1>8, <1>9, <1>10 DEF Court

(* The score lines, as long as the scores. *)
LEMMA ScoreShown ==
  ASSUME NEW g \in Game, ScoresIn(g)
  PROVE  draw_score(g) \in Seq(Shown)
<1> DEFINE last == SCREEN_HEIGHT - 1
           right == SCREEN_WIDTH - 1
           end == U8(SCREEN_WIDTH - 1 - g.score1)
<1>1. /\ last \in Int /\ last < SCREEN_HEIGHT /\ last <= last /\ last <= SCREEN_HEIGHT
      /\ right \in Int /\ right < SCREEN_WIDTH /\ 0 < SCREEN_WIDTH
  BY SMT, Constants
<1>2. g.score1 \in Int /\ 0 <= g.score1 /\ g.score1 < SCREEN_WIDTH
  BY SMT, GameBytes, Constants DEF ScoresIn
<1>3. end \in Int /\ end < SCREEN_WIDTH
  BY SMT, <1>2, Constants DEF U8
<1>4. /\ WINNING_SCORE \in Int /\ WINNING_SCORE < SCREEN_WIDTH
      /\ SCREEN_HEIGHT - 2 \in Int /\ SCREEN_HEIGHT - 2 < SCREEN_HEIGHT
  BY SMT, Constants
<1>5. <<Commit(DRAW_LINE, <<0, last, g.score1, last>>)>> \in Seq(Shown)
  <2> HIDE DEF last
  <2>1. Commit(DRAW_LINE, <<0, last, g.score1, last>>) \in Shown
    BY <1>1, <1>2, ShownLine
  <2> QED
    BY <2>1
<1>6. <<Commit(DRAW_LINE, <<right, last, end, last>>)>> \in Seq(Shown)
  <2> HIDE DEF last, right, end
  <2>1. Commit(DRAW_LINE, <<right, last, end, last>>) \in Shown
    BY <1>1, <1>3, ShownLine
  <2> QED
    BY <2>1
<1>7. <<Commit(DRAW_DOT, <<WINNING_SCORE, SCREEN_HEIGHT - 2>>),
        Commit(DRAW_DOT, <<WINNING_SCORE, last>>)>> \in Seq(Shown)
  <2> HIDE DEF last
  <2>1. /\ Commit(DRAW_DOT, <<WINNING_SCORE, SCREEN_HEIGHT - 2>>) \in Shown
        /\ Commit(DRAW_DOT, <<WINNING_SCORE, last>>) \in Shown
    BY <1>1, <1>4, ShownDot
  <2> QED
    BY <2>1
<1>8. /\ set_color(YELLOW) \in Seq(Shown) /\ set_color(BLUE) \in Seq(Shown)
      /\ set_color(WHITE) \in Seq(Shown)
  BY ColorShown, Methods
<1>9. \A S : \A a, b, c, d, e, f \in Seq(S) : a \o b \o c \o d \o e \o f \in Seq(S)
  OBVIOUS
<1> QED
  BY <1>5, <1>6, <1>7, <1>8, <1>9 DEF draw_score

(***************************************************************************)
(* Whatever the course of the game, a frame is on the screen: the end of a *)
(* racket and the ends of the score lines, which are computed in bytes,    *)
(* do not wrap around (draw_rackets, draw_ball and draw_score).            *)
(***************************************************************************)
THEOREM FramesStayOn == Spec => []FrameOnScreen
<1>1. IInv => FrameOnScreen
  <2> SUFFICES ASSUME IInv PROVE FrameOnScreen
    OBVIOUS
  <2>1. Court(game) \in Seq(Shown) /\ draw_score(game) \in Seq(Shown)
    BY CourtShown, ScoreShown DEF IInv
  <2>2. \A S : \A a, b \in Seq(S) : a \o b \in Seq(S)
    OBVIOUS
  <2>3. Frame(game) \in Seq(Shown)
    BY <2>1, <2>2 DEF Frame
  <2>4. \A S : \A a \in Seq(S) : \A i \in DOMAIN a : a[i] \in S
    OBVIOUS
  <2>5. \A i \in DOMAIN Frame(game) : Frame(game)[i] \in Shown
    BY <2>3, <2>4
  <2>6. \A c \in Shown : DrawnOnScreen(c)
    BY DEF Shown
  <2> QED
    BY <2>5, <2>6 DEF FrameOnScreen
<1> QED
  BY <1>1, Invariant, PTL

-----------------------------------------------------------------------------
(***************************************************************************)
(* A racket that is always in the row of the ball concedes no point.  Of   *)
(* the left one: the ball stays to the right of it, and next to it it      *)
(* moves away.  The check in HitRacket1 comes after the move, so it is the *)
(* next state in which the racket has to be in the row of the ball.        *)
(***************************************************************************)
Defended1(g) ==
  /\ g.score2 = 0 /\ g.ball_pos_x > RACKET1_X
  /\ g.ball_pos_x = RACKET1_X + 1 => g.ball_vel_x

Defended2(g) ==
  /\ g.score1 = 0 /\ g.ball_pos_x < RACKET2_X
  /\ g.ball_pos_x = RACKET2_X - 1 => ~g.ball_vel_x

(* A ball that starts in the middle is off both rackets. *)
LEMMA StartsDefended ==
  ASSUME NEW h, h.ball_pos_x = BALL_INITIAL_X, h.ball_vel_x
  PROVE  (h.score2 = 0 => Defended1(h)) /\ (h.score1 = 0 => Defended2(h))
<1>1. h.ball_pos_x > RACKET1_X /\ h.ball_pos_x < RACKET2_X /\ h.ball_pos_x # RACKET2_X - 1
  BY SMT, Constants
<1> QED
  BY <1>1 DEF Defended1, Defended2

(* The course of a ball through the helpers of handle_clock. *)
LEMMA Course ==
  ASSUME NEW g \in Game, RacketsIn(g), ScoresIn(g), BallIn(g)
  PROVE  \E c, u, r \in Game :
           /\ c = g \/ c = reset_game(g)
           /\ u.score1 = c.score1 /\ u.score2 = c.score2
           /\ u.ball_pos_x = IF c.ball_vel_x THEN c.ball_pos_x + 1 ELSE c.ball_pos_x - 1
           /\ u.ball_vel_x <=> c.ball_vel_x
           /\ Keeps(r, u) /\ SamePlace(r, u)
           /\ r.ball_vel_x <=> ~Returns2(r) /\ (Returns1(r) \/ u.ball_vel_x)
           /\ handle_clock(g) = HitGoals(r)
           /\ BallTurned(r) /\ RacketsIn(r) /\ NotWon(r)
<1> DEFINE c  == check_score(g)
           u  == update_ball(c)
           w  == HitWalls(u)
           r1 == HitRacket1(w)
           r2 == HitRacket2(r1)
<1>1. handle_clock(g) = HitGoals(r2)
  BY DEF handle_clock, check_ball_collisions
<1>2. c \in Game /\ RacketsIn(c) /\ NotWon(c) /\ BallIn(c)
  BY CheckScore
<1>3. c = g \/ c = reset_game(g)
  BY DEF check_score
<1> HIDE DEF c
<1>4. /\ u \in Game /\ RacketsIn(u) /\ NotWon(u) /\ BallMoved(u)
      /\ u.score1 = c.score1 /\ u.score2 = c.score2
      /\ u.ball_pos_x = IF c.ball_vel_x THEN c.ball_pos_x + 1 ELSE c.ball_pos_x - 1
      /\ u.ball_vel_x <=> c.ball_vel_x
  BY <1>2, UpdateBall
<1> HIDE DEF u
<1>5. /\ Keeps(w, u) /\ RacketsIn(w) /\ NotWon(w) /\ BallTurned(w) /\ SamePlace(w, u)
      /\ w.ball_vel_x <=> u.ball_vel_x
  BY <1>4, HitWallsTurns, KeepsMore
<1> HIDE DEF w
<1>6. w \in Game
  BY <1>5 DEF Keeps
<1>7. /\ Keeps(r1, w) /\ RacketsIn(r1) /\ NotWon(r1) /\ BallTurned(r1) /\ SamePlace(r1, w)
      /\ r1.ball_vel_x <=> Returns1(w) \/ w.ball_vel_x
  BY <1>5, <1>6, HitRacket1Turns, KeepsMore
<1> HIDE DEF r1
<1>8. r1 \in Game
  BY <1>7 DEF Keeps
<1>9. /\ Keeps(r2, r1) /\ RacketsIn(r2) /\ NotWon(r2) /\ BallTurned(r2) /\ SamePlace(r2, r1)
      /\ r2.ball_vel_x <=> ~Returns2(r1) /\ r1.ball_vel_x
  BY <1>7, <1>8, HitRacket2Turns, KeepsMore
<1> HIDE DEF r2
<1>10. r2 \in Game /\ Keeps(r2, u) /\ SamePlace(r2, u)
  BY <1>5, <1>7, <1>9 DEF Keeps, SamePlace
<1>11. (Returns1(w) <=> Returns1(r2)) /\ (Returns2(r1) <=> Returns2(r2))
  BY <1>7, <1>9 DEF Keeps, SamePlace, Returns1, Returns2
<1>12. r2.ball_vel_x <=> ~Returns2(r2) /\ (Returns1(r2) \/ u.ball_vel_x)
  BY <1>5, <1>7, <1>9, <1>11
<1> QED
  BY <1>1, <1>2, <1>3, <1>4, <1>9, <1>10, <1>12

(* A clock leaves the left racket defended if it is then in the right row. *)
LEMMA ClockDefends1 ==
  ASSUME NEW g \in Game, RacketsIn(g), ScoresIn(g), BallIn(g), Defended1(g),
         Covers(handle_clock(g).racket1_pos, handle_clock(g).ball_pos_y)
  PROVE  Defended1(handle_clock(g))
<1>1. PICK c, u, r \in Game :
           /\ c = g \/ c = reset_game(g)
           /\ u.score1 = c.score1 /\ u.score2 = c.score2
           /\ u.ball_pos_x = IF c.ball_vel_x THEN c.ball_pos_x + 1 ELSE c.ball_pos_x - 1
           /\ u.ball_vel_x <=> c.ball_vel_x
           /\ Keeps(r, u) /\ SamePlace(r, u)
           /\ r.ball_vel_x <=> ~Returns2(r) /\ (Returns1(r) \/ u.ball_vel_x)
           /\ handle_clock(g) = HitGoals(r)
           /\ BallTurned(r) /\ RacketsIn(r) /\ NotWon(r)
  BY Course
<1>2. Defended1(c)
  BY <1>1, StartsWell, StartsDefended
<1>3. r.score2 = 0 /\ r.ball_pos_x = u.ball_pos_x
  BY <1>1, <1>2 DEF Defended1, Keeps, SamePlace
<1>4. r.ball_pos_x > RACKET1_X
  <2>1. /\ c.ball_pos_x \in Int /\ c.ball_pos_x > RACKET1_X
        /\ c.ball_pos_x = RACKET1_X + 1 => c.ball_vel_x
    BY <1>2, GameBytes DEF Defended1
  <2>2. CASE c.ball_vel_x
    BY SMT, <1>1, <1>3, <2>1, <2>2, Constants
  <2>3. CASE ~c.ball_vel_x
    BY SMT, <1>1, <1>3, <2>1, <2>3, Constants
  <2> QED
    BY <2>2, <2>3
<1>5. r.ball_pos_x > 0
  BY SMT, <1>4, Constants, GameBytes
<1>6. CASE handle_clock(g) = r
  <2>1. r.ball_pos_x = RACKET1_X + 1 => Returns1(r) /\ ~Returns2(r)
    BY SMT, <1>6, Constants DEF Returns1, Returns2
  <2>2. r.ball_pos_x = RACKET1_X + 1 => r.ball_vel_x
    BY <1>1, <2>1
  <2> QED
    BY <1>3, <1>4, <1>6, <2>2 DEF Defended1
<1>7. CASE handle_clock(g) # r
  <2>1. /\ handle_clock(g).ball_pos_x = BALL_INITIAL_X /\ handle_clock(g).ball_vel_x
        /\ handle_clock(g).score2 = 0
    BY <1>1, <1>3, <1>5, <1>7, HitGoalsScores
  <2> QED
    BY <2>1, StartsDefended
<1> QED
  BY <1>6, <1>7

(* The same on the right. *)
LEMMA ClockDefends2 ==
  ASSUME NEW g \in Game, RacketsIn(g), ScoresIn(g), BallIn(g), Defended2(g),
         Covers(handle_clock(g).racket2_pos, handle_clock(g).ball_pos_y)
  PROVE  Defended2(handle_clock(g))
<1>1. PICK c, u, r \in Game :
           /\ c = g \/ c = reset_game(g)
           /\ u.score1 = c.score1 /\ u.score2 = c.score2
           /\ u.ball_pos_x = IF c.ball_vel_x THEN c.ball_pos_x + 1 ELSE c.ball_pos_x - 1
           /\ u.ball_vel_x <=> c.ball_vel_x
           /\ Keeps(r, u) /\ SamePlace(r, u)
           /\ r.ball_vel_x <=> ~Returns2(r) /\ (Returns1(r) \/ u.ball_vel_x)
           /\ handle_clock(g) = HitGoals(r)
           /\ BallTurned(r) /\ RacketsIn(r) /\ NotWon(r)
  BY Course
<1>2. Defended2(c)
  BY <1>1, StartsWell, StartsDefended
<1>3. r.score1 = 0 /\ r.ball_pos_x = u.ball_pos_x
  BY <1>1, <1>2 DEF Defended2, Keeps, SamePlace
<1>4. r.ball_pos_x < RACKET2_X
  <2>1. /\ c.ball_pos_x \in Int /\ c.ball_pos_x < RACKET2_X
        /\ c.ball_pos_x = RACKET2_X - 1 => ~c.ball_vel_x
    BY <1>2, GameBytes DEF Defended2
  <2>2. CASE c.ball_vel_x
    BY SMT, <1>1, <1>3, <2>1, <2>2, Constants
  <2>3. CASE ~c.ball_vel_x
    BY SMT, <1>1, <1>3, <2>1, <2>3, Constants
  <2> QED
    BY <2>2, <2>3
<1>5. r.ball_pos_x < SCREEN_WIDTH - 1
  BY SMT, <1>4, Constants, GameBytes
<1>6. CASE handle_clock(g) = r
  <2>1. r.ball_pos_x = RACKET2_X - 1 => Returns2(r)
    BY <1>6 DEF Returns2
  <2>2. r.ball_pos_x = RACKET2_X - 1 => ~r.ball_vel_x
    BY <1>1, <2>1
  <2> QED
    BY <1>3, <1>4, <1>6, <2>2 DEF Defended2
<1>7. CASE handle_clock(g) # r
  <2>1. /\ handle_clock(g).ball_pos_x = BALL_INITIAL_X /\ handle_clock(g).ball_vel_x
        /\ handle_clock(g).score1 = 0
    BY <1>1, <1>3, <1>5, <1>7, HitGoalsScores
  <2> QED
    BY <2>1, StartsDefended
<1> QED
  BY <1>6, <1>7

(* A key press moves a racket and leaves scores and ball as they were. *)
LEMMA KeypressBall ==
  ASSUME NEW g \in Game, RacketsIn(g), NEW key
  PROVE  SameBall(handle_keypress(g, key), g)
<1> DEFINE h == handle_keypress(g, key)
           up1 == U8(g.racket1_pos - 1)
           down1 == U8(g.racket1_pos + 1)
           up2 == U8(g.racket2_pos - 1)
           down2 == U8(g.racket2_pos + 1)
<1>1. /\ g.racket1_pos \in Int /\ 0 <= g.racket1_pos /\ g.racket1_pos <= Bottom
      /\ g.racket2_pos \in Int /\ 0 <= g.racket2_pos /\ g.racket2_pos <= Bottom
  BY GameBytes DEF RacketsIn
<1>2. /\ g.racket1_pos # 0 => up1 \in Byte
      /\ g.racket1_pos # Bottom => down1 \in Byte
      /\ g.racket2_pos # 0 => up2 \in Byte
      /\ g.racket2_pos # Bottom => down2 \in Byte
  BY <1>1, RacketRows
<1>3. \/ h = g
      \/ g.racket1_pos # 0 /\ h = Racket1At(g, up1)
      \/ g.racket1_pos # Bottom /\ h = Racket1At(g, down1)
      \/ g.racket2_pos # 0 /\ h = Racket2At(g, up2)
      \/ g.racket2_pos # Bottom /\ h = Racket2At(g, down2)
  BY DEF handle_keypress, Racket1At, Racket2At
<1>4. g \in GameOf(Byte)
  BY GameBytes
<1> HIDE DEF h, up1, down1, up2, down2
<1>5. h = g => SameBall(h, g)
  BY DEF SameBall
<1>6. \A a \in Byte : SameBall(Racket1At(g, a), g) /\ SameBall(Racket2At(g, a), g)
  BY <1>4, MoveRacket
<1>7. h # g => SameBall(h, g)
  BY <1>2, <1>3, <1>6
<1> QED
  BY <1>5, <1>7 DEF h

(* While no point is made and the ball does not move nothing is lost. *)
LEMMA SameBallDefends ==
  ASSUME NEW g, NEW h, SameBall(h, g)
  PROVE  (Defended1(g) => Defended1(h)) /\ (Defended2(g) => Defended2(h))
BY DEF SameBall, Defended1, Defended2

(* What is assumed of a racket in every state, and what follows from it. *)
Held1 == Covers(game.racket1_pos, game.ball_pos_y)
Held2 == Covers(game.racket2_pos, game.ball_pos_y)

Safe1 == Defended1(game)
Safe2 == Defended2(game)

(* Both rackets are defended when the game starts. *)
LEMMA InitDefended == Init => Safe1 /\ Safe2
<1> DEFINE z == [racket1_pos |-> 0, racket2_pos |-> 0, score1 |-> 0, score2 |-> 0,
                 ball_pos_x |-> 0, ball_pos_y |-> 0, ball_vel_x |-> FALSE, ball_vel_y |-> FALSE,
                 audio1 |-> 0, timer1 |-> 0]
<1>1. \A B : 0 \in B => z \in GameOf(B)
  BY DEF GameOf
<1>2. z \in Game
  BY <1>1, ConstantBytes, GameBytes
<1>3. Init => game = reset_game(z)
  BY DEF Init, InitialGame
<1> HIDE DEF z
<1> QED
  BY <1>2, <1>3, StartsWell, StartsDefended DEF Safe1, Safe2

(* A step after which the racket is in the row of the ball keeps it so. *)
LEMMA NextDefended ==
  IInv /\ [Next]_game => (Safe1 /\ Held1' => Safe1') /\ (Safe2 /\ Held2' => Safe2')
<1> SUFFICES ASSUME IInv, [Next]_game
             PROVE  (Safe1 /\ Held1' => Safe1') /\ (Safe2 /\ Held2' => Safe2')
  OBVIOUS
<1>1. game \in Game /\ RacketsIn(game) /\ ScoresIn(game) /\ BallIn(game)
  BY DEF IInv
<1>2. SameBall(stop_beep(game), game)
  BY <1>1, GameBeeps DEF SameGame, SameBall
<1>3. ASSUME NEW h, h = handle_clock(game)
      PROVE  /\ Defended1(game) /\ Covers(h.racket1_pos, h.ball_pos_y) => Defended1(h)
             /\ Defended2(game) /\ Covers(h.racket2_pos, h.ball_pos_y) => Defended2(h)
  BY <1>1, <1>3, ClockDefends1, ClockDefends2
<1>4. ASSUME NEW h, SameBall(h, game)
      PROVE  (Defended1(game) => Defended1(h)) /\ (Defended2(game) => Defended2(h))
  BY <1>4, SameBallDefends
<1>5. \/ game' = handle_clock(game)
      \/ SameBall(game', game)
  <2>1. ASSUME NEW type, NEW argument, irq(type, argument)
        PROVE  game' = handle_clock(game) \/ SameBall(game', game)
    <3>1. \/ game' = handle_keypress(game, argument)
          \/ game' = handle_clock(game)
          \/ game' = stop_beep(game)
          \/ game' = game
      BY <2>1 DEF irq
    <3>2. SameBall(handle_keypress(game, argument), game) /\ SameBall(game, game)
      BY <1>1, KeypressBall DEF SameBall
    <3> QED
      BY <1>2, <3>1, <3>2
  <2>2. CASE UNCHANGED game
    BY <2>2 DEF SameBall
  <2> QED
    BY <2>1, <2>2 DEF Next, key_press, clock_tick, timer_ends
<1>6. /\ Defended1(game) /\ Covers(game'.racket1_pos, game'.ball_pos_y) => Defended1(game')
      /\ Defended2(game) /\ Covers(game'.racket2_pos, game'.ball_pos_y) => Defended2(game')
  BY <1>3, <1>4, <1>5
<1> QED
  BY <1>6 DEF Safe1, Safe2, Held1, Held2, Defended1, Defended2, Covers

(***************************************************************************)
(* On every court, a player whose racket is in the row of the ball after   *)
(* every interrupt concedes no point: HitRacket1 and HitRacket2 see every  *)
(* ball that comes near, whatever the other player does and however often  *)
(* the game starts again.                                                  *)
(***************************************************************************)
THEOREM RacketsDefend == Spec => RacketDefends
<1>1. Safe1 => game.score2 = 0
  BY DEF Safe1, Defended1
<1>2. Safe2 => game.score1 = 0
  BY DEF Safe2, Defended2
<1>3. Spec /\ []Held1 => [](game.score2 = 0)
  BY <1>1, InitDefended, NextDefended, Invariant, PTL DEF Spec
<1>4. Spec /\ []Held2 => [](game.score1 = 0)
  BY <1>2, InitDefended, NextDefended, Invariant, PTL DEF Spec
<1> QED
  BY <1>3, <1>4, PTL DEF RacketDefends, Held1, Held2
=============================================================================
