-------------------------------- MODULE Pong --------------------------------
(***************************************************************************)
(* The game src/examples/c/pong.cpp, which the program in ROM is a         *)
(* hand-translated version of.  The IO chip interrupts it for key presses, *)
(* for its clock and for the timer that ends a beep; between interrupts it *)
(* does nothing.  A handler runs with interrupts masked, so each is one    *)
(* step.  The helpers take the game and return the game they leave.  The   *)
(* routine of one colour is set_color with that colour.                    *)
(*                                                                         *)
(* int_argument_storage is not in the game: it holds the keycode while the *)
(* handler of a key press runs.                                            *)
(***************************************************************************)
EXTENDS Bytes, Sequences

CONSTANTS
  SCREEN_WIDTH, SCREEN_HEIGHT,
  RACKET_HEIGHT, RACKET1_X, RACKET2_X, RACKET_INITIAL_Y,
  BALL_INITIAL_X, BALL_INITIAL_Y,
  WINNING_SCORE,
  BEEP_LONG_AUDIO,
  WALLS_BEEP          \* FALSE for pong.cpp; the program in ROM beeps at the walls too

(* A court with room for the rackets, and for the ball, which moves right. *)
ASSUME PongAssumption ==
  /\ SCREEN_WIDTH \in Byte /\ SCREEN_HEIGHT \in Byte
  /\ RACKET_HEIGHT \in Nat \ {0} /\ RACKET_HEIGHT < SCREEN_HEIGHT
  /\ RACKET1_X \in Nat /\ RACKET2_X \in Nat
  /\ 0 < RACKET1_X /\ RACKET1_X + 2 < RACKET2_X /\ RACKET2_X < SCREEN_WIDTH - 1
  /\ RACKET_INITIAL_Y \in 0 .. SCREEN_HEIGHT - RACKET_HEIGHT
  /\ BALL_INITIAL_X \in RACKET1_X + 1 .. RACKET2_X - 2
  /\ BALL_INITIAL_Y \in 1 .. SCREEN_HEIGHT - 2
  /\ WINNING_SCORE \in 1 .. SCREEN_WIDTH - 1
  /\ BEEP_LONG_AUDIO \in Byte
  /\ WALLS_BEEP \in BOOLEAN

EVENT_KEYDOWN == \h01
EVENT_CLOCK1  == \h06
EVENT_TIMER1  == \h08

KEY_W == \h16
KEY_S == \h12
KEY_I == \h08
KEY_K == \h0A

BEEP_SHORT_AUDIO == \hD9
SILENT_AUDIO     == \h19

VARIABLE game     \* the runtime data, and the last bytes for the audio channel and the timer

Game == [racket1_pos : Byte, racket2_pos : Byte, score1 : Byte, score2 : Byte,
         ball_pos_x : Byte, ball_pos_y : Byte, ball_vel_x : BOOLEAN, ball_vel_y : BOOLEAN,
         audio1 : Byte, timer1 : Byte]

TypeOK == game \in Game

-----------------------------------------------------------------------------
reset_ball_position(g) ==
  [g EXCEPT !.ball_pos_x = BALL_INITIAL_X, !.ball_pos_y = BALL_INITIAL_Y,
            !.ball_vel_x = TRUE, !.ball_vel_y = TRUE]

reset_positions(g) ==
  reset_ball_position([g EXCEPT !.racket1_pos = RACKET_INITIAL_Y, !.racket2_pos = RACKET_INITIAL_Y])

reset_game(g) == reset_positions([g EXCEPT !.score1 = 0, !.score2 = 0])

(* The timer is started by writing its low byte; its high byte is 0. *)
start_short_beep(g) == [g EXCEPT !.audio1 = BEEP_SHORT_AUDIO, !.timer1 = \h0A]
start_long_beep(g)  == [g EXCEPT !.audio1 = BEEP_LONG_AUDIO, !.timer1 = \h1E]
stop_beep(g)        == [g EXCEPT !.audio1 = SILENT_AUDIO]

(* A slip: the racket may leave the screen at the bottom. *)
handle_keypress_past_bottom(g, key) ==
  CASE key = KEY_W /\ g.racket1_pos # 0 -> [g EXCEPT !.racket1_pos = U8(@ - 1)]
    [] key = KEY_S /\ g.racket1_pos # SCREEN_HEIGHT -> [g EXCEPT !.racket1_pos = U8(@ + 1)]
    [] key = KEY_I /\ g.racket2_pos # 0 -> [g EXCEPT !.racket2_pos = U8(@ - 1)]
    [] key = KEY_K /\ g.racket2_pos # SCREEN_HEIGHT -> [g EXCEPT !.racket2_pos = U8(@ + 1)]
    [] OTHER -> g

Bottom == SCREEN_HEIGHT - RACKET_HEIGHT

handle_keypress(g, key) ==
  CASE key = KEY_W /\ g.racket1_pos # 0      -> [g EXCEPT !.racket1_pos = U8(@ - 1)]
    [] key = KEY_S /\ g.racket1_pos # Bottom -> [g EXCEPT !.racket1_pos = U8(@ + 1)]
    [] key = KEY_I /\ g.racket2_pos # 0      -> [g EXCEPT !.racket2_pos = U8(@ - 1)]
    [] key = KEY_K /\ g.racket2_pos # Bottom -> [g EXCEPT !.racket2_pos = U8(@ + 1)]
    [] OTHER                                 -> g

(* A slip: only the left player can win. *)
check_score_left(g) == IF g.score1 = WINNING_SCORE THEN reset_game(g) ELSE g

check_score(g) ==
  IF WINNING_SCORE \in {g.score1, g.score2} THEN reset_game(g) ELSE g

Moved(position, forward) == U8(IF forward THEN position + 1 ELSE position - 1)

update_ball(g) ==
  [g EXCEPT !.ball_pos_x = Moved(@, g.ball_vel_x), !.ball_pos_y = Moved(@, g.ball_vel_y)]

WallBeep(g) == IF WALLS_BEEP THEN start_short_beep(g) ELSE g

(* The four parts of check_ball_collisions, in their order. *)
(* A slip: the ball turns one row below the screen. *)
HitWallsLate(g) ==
  CASE g.ball_pos_y = 0             -> WallBeep([g EXCEPT !.ball_vel_y = TRUE])
    [] g.ball_pos_y = SCREEN_HEIGHT -> WallBeep([g EXCEPT !.ball_vel_y = FALSE])
    [] OTHER                        -> g

HitWalls(g) ==
  CASE g.ball_pos_y = 0                 -> WallBeep([g EXCEPT !.ball_vel_y = TRUE])
    [] g.ball_pos_y = SCREEN_HEIGHT - 1 -> WallBeep([g EXCEPT !.ball_vel_y = FALSE])
    [] OTHER                            -> g

Covers(racket_pos, y) == y >= racket_pos /\ y < racket_pos + RACKET_HEIGHT

(* A slip: the left racket lets the ball keep its direction. *)
HitRacket1Through(g) ==
  IF Covers(g.racket1_pos, g.ball_pos_y) /\ g.ball_pos_x = RACKET1_X + 1
  THEN start_short_beep(g) ELSE g

HitRacket1(g) ==
  IF Covers(g.racket1_pos, g.ball_pos_y) /\ g.ball_pos_x = RACKET1_X + 1
  THEN start_short_beep([g EXCEPT !.ball_vel_x = TRUE]) ELSE g

(* A slip: the right racket returns a ball in any column. *)
HitRacket2Anywhere(g) ==
  IF Covers(g.racket2_pos, g.ball_pos_y)
  THEN start_short_beep([g EXCEPT !.ball_vel_x = FALSE]) ELSE g

HitRacket2(g) ==
  IF Covers(g.racket2_pos, g.ball_pos_y) /\ g.ball_pos_x = RACKET2_X - 1
  THEN start_short_beep([g EXCEPT !.ball_vel_x = FALSE]) ELSE g

HitGoals(g) ==
  CASE g.ball_pos_x = 0 -> start_long_beep(reset_ball_position([g EXCEPT !.score2 = U8(@ + 1)]))
    [] g.ball_pos_x = SCREEN_WIDTH - 1 ->
         start_long_beep(reset_ball_position([g EXCEPT !.score1 = U8(@ + 1)]))
    [] OTHER -> g

check_ball_collisions(g) == HitGoals(HitRacket2(HitRacket1(HitWalls(g))))

(* The game part of handle_clock; what it draws is Frame below. *)
handle_clock(g) == check_ball_collisions(update_ball(check_score(g)))

-----------------------------------------------------------------------------
(***************************************************************************)
(* What handle_clock draws: the methods it commits to the IO chip, each    *)
(* with the arguments the method uses.                                     *)
(***************************************************************************)
DRAW_RECTANGLE    == \h00
DRAW_DOT          == \h02
DRAW_LINE         == \h03
BRUSH_SET_BODY    == \h80
BRUSH_SET_OUTLINE == \h81

BLACK  == \h00
BLUE   == \h03
YELLOW == \hFC
WHITE  == \hFF

Commit(method, args) == [method |-> method, args |-> args]

set_color(color) == <<Commit(BRUSH_SET_BODY, <<color>>), Commit(BRUSH_SET_OUTLINE, <<color>>)>>

clear_screen == <<Commit(DRAW_RECTANGLE, <<0, 0, SCREEN_WIDTH, SCREEN_HEIGHT>>)>>

draw_racket(x, racket_pos) == Commit(DRAW_LINE, <<x, racket_pos, x, U8(racket_pos + RACKET_HEIGHT)>>)

draw_rackets(g) == <<draw_racket(RACKET1_X, g.racket1_pos), draw_racket(RACKET2_X, g.racket2_pos)>>

draw_ball(g) == <<Commit(DRAW_DOT, <<g.ball_pos_x, g.ball_pos_y>>)>>

(* The second line has the length of score1 as well.  The two dots are at  *)
(* column 10, the winning score.                                           *)
draw_score(g) ==
  set_color(YELLOW)
    \o <<Commit(DRAW_LINE, <<0, SCREEN_HEIGHT - 1, g.score1, SCREEN_HEIGHT - 1>>)>>
    \o set_color(BLUE)
    \o <<Commit(DRAW_LINE, <<SCREEN_WIDTH - 1, SCREEN_HEIGHT - 1,
                            U8(SCREEN_WIDTH - 1 - g.score1), SCREEN_HEIGHT - 1>>)>>
    \o set_color(WHITE)
    \o <<Commit(DRAW_DOT, <<WINNING_SCORE, SCREEN_HEIGHT - 2>>),
         Commit(DRAW_DOT, <<WINNING_SCORE, SCREEN_HEIGHT - 1>>)>>

Court(g) ==
  set_color(BLACK) \o clear_screen \o set_color(WHITE) \o draw_rackets(g) \o draw_ball(g)

Frame(g) == Court(g) \o draw_score(g)

-----------------------------------------------------------------------------
(* The state when main has reached its loop. *)
InitialGame ==
  reset_game([racket1_pos |-> 0, racket2_pos |-> 0, score1 |-> 0, score2 |-> 0,
              ball_pos_x |-> 0, ball_pos_y |-> 0, ball_vel_x |-> FALSE, ball_vel_y |-> FALSE,
              audio1 |-> 0, timer1 |-> 0])

Init == game = InitialGame

(* The interrupt handler: events of other types change nothing. *)
irq(type, argument) ==
  game' = CASE type = EVENT_KEYDOWN -> handle_keypress(game, argument)
            [] type = EVENT_CLOCK1  -> handle_clock(game)
            [] type = EVENT_TIMER1  -> stop_beep(game)
            [] OTHER                -> game

key_press  == \E key \in {KEY_W, KEY_S, KEY_I, KEY_K} : irq(EVENT_KEYDOWN, key)
clock_tick == irq(EVENT_CLOCK1, 0)
timer_ends == irq(EVENT_TIMER1, 0)

Next == key_press \/ clock_tick \/ timer_ends

Spec == Init /\ [][Next]_game

(* The clock that main switches on goes on ticking; nobody has to press a key. *)
FairSpec == Spec /\ WF_game(clock_tick)

-----------------------------------------------------------------------------
(***************************************************************************)
(* Between two interrupts the ball is in the court, off both goal columns, *)
(* moves away from a wall it touches, and only moves outwards behind a     *)
(* racket: so it never takes the byte arithmetic of update_ball past 0 or  *)
(* past the edge of the screen (update_ball, check_ball_collisions,        *)
(* reset_ball_position).                                                   *)
(***************************************************************************)
BallInCourt ==
  /\ game.ball_pos_x \in 1 .. SCREEN_WIDTH - 2
  /\ game.ball_pos_y \in 0 .. SCREEN_HEIGHT - 1
  /\ game.ball_pos_y = 0 => game.ball_vel_y
  /\ game.ball_pos_y = SCREEN_HEIGHT - 1 => ~game.ball_vel_y
  /\ game.ball_pos_x <= RACKET1_X => ~game.ball_vel_x
  /\ game.ball_pos_x >= RACKET2_X => game.ball_vel_x

(***************************************************************************)
(* No score passes the winning score, and at most one player has it: the   *)
(* game starts again before another point can be made (check_score runs    *)
(* first in handle_clock).                                                 *)
(***************************************************************************)
ScoresBounded ==
  /\ game.score1 <= WINNING_SCORE /\ game.score2 <= WINNING_SCORE
  /\ ~(game.score1 = WINNING_SCORE /\ game.score2 = WINNING_SCORE)

(***************************************************************************)
(* Everything a frame draws is on the screen; a line does not draw its     *)
(* lower and right end (handle_keypress keeps the rackets on the screen,   *)
(* check_score the score lines).                                           *)
(***************************************************************************)
DrawnOnScreen(commit) ==
  LET a == commit.args
  IN  /\ commit.method = DRAW_DOT => a[1] < SCREEN_WIDTH /\ a[2] < SCREEN_HEIGHT
      /\ commit.method = DRAW_LINE =>
           /\ a[1] < SCREEN_WIDTH /\ a[3] < SCREEN_WIDTH
           /\ a[2] < SCREEN_HEIGHT /\ a[2] <= a[4] /\ a[4] <= SCREEN_HEIGHT

FrameOnScreen == LET frame == Frame(game) IN \A i \in DOMAIN frame : DrawnOnScreen(frame[i])

(***************************************************************************)
(* A racket that is always at the height of the ball concedes no point:    *)
(* the ball cannot pass it, whatever the other player does                 *)
(* (check_ball_collisions, over a whole game).                             *)
(***************************************************************************)
RacketDefends ==
  /\ [](Covers(game.racket1_pos, game.ball_pos_y)) => [](game.score2 = 0)
  /\ [](Covers(game.racket2_pos, game.ball_pos_y)) => [](game.score1 = 0)

(***************************************************************************)
(* A ball that moves to the right reaches the column of the right racket,  *)
(* where it is returned or missed, and one that moves to the left turns    *)
(* round again: no ball is stuck in the court.                             *)
(***************************************************************************)
BallCrosses ==
  /\ game.ball_vel_x ~> game.ball_pos_x = RACKET2_X - 1
  /\ ~game.ball_vel_x ~> game.ball_vel_x
=============================================================================
