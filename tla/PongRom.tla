------------------------------ MODULE PongRom ------------------------------
(***************************************************************************)
(* The machine with the program that main.cpp puts in its ROM: the game of *)
(* pong.cpp, translated by hand into the instructions of this CPU.  The    *)
(* instructions run one by one; what they are to achieve together is the   *)
(* game of module Pong, with the constants and the differences the program *)
(* in ROM has: it beeps at the walls as well, its two beeps sound the same *)
(* and it draws the scores in another way.                                 *)
(*                                                                         *)
(* The IO chip is its registers; an execution begins at power-on, or in    *)
(* the loop of the main routine with a game under way and an event that    *)
(* has been raised.                                                        *)
(***************************************************************************)
EXTENDS CPU

CONSTANT
  Events       \* the games under way and the event each meets: game, event_type, keycode

(***************************************************************************)
(* The routines, in the order of their addresses.                          *)
(***************************************************************************)
rom_main == <<\h78, \h20, \h79, \h49, \hA9, \h10, \h8D, \h06, \h49, \h58, \hEA, \h4C, \h2A, \h49>>

rom_irq ==
  <<\hAD, \h03, \h49, \hC9, \h01, \hF0, \h0B, \hC9, \h06, \hF0, \h0D, \hC9, \h08, \hF0,
    \h0F, \h4C, \h52, \h49, \h20, \h85, \h49, \h4C, \h52, \h49, \h20, \hD6, \h49, \h4C,
    \h52, \h49, \h20, \h73, \h49, \h4C, \h52, \h49, \h40>>

rom_start_short_beep ==
  <<\hA9, \hD9, \h8D, \h08, \h49, \hA9, \h00, \h8D, \h11, \h49, \hA9, \h0A, \h8D, \h10,
    \h49, \h60>>

rom_start_long_beep ==
  <<\hA9, \hD9, \h8D, \h08, \h49, \hA9, \h00, \h8D, \h11, \h49, \hA9, \h1E, \h8D, \h10,
    \h49, \h60>>

rom_stop_beep == <<\hA9, \h19, \h8D, \h08, \h49, \h60>>

rom_reset_game == <<\hA9, \h00, \h85, \h02, \hA9, \h00, \h85, \h03, \h20, \hF2, \h49, \h60>>

(* A slip: the code of the key that moves the left racket down is wrong. *)
rom_handle_keypress_wrong_key ==
  <<\hAD, \h04, \h49, \h85, \h08, \hC9, \h16, \hF0, \h0F, \hC9, \h13, \hF0, \h19, \hC9,
    \h08, \hF0, \h23, \hC9, \h0A, \hF0, \h2D, \h4C, \hD5, \h49, \hA5, \h00, \hC9, \h00,
    \hF0, \h32, \h18, \hE9, \h01, \h85, \h00, \h4C, \hD5, \h49, \hA5, \h00, \hC9, \h1C,
    \hF0, \h24, \h18, \h69, \h01, \h85, \h00, \h4C, \hD5, \h49, \hA5, \h01, \hC9, \h00,
    \hF0, \h16, \h18, \hE9, \h01, \h85, \h01, \h4C, \hD5, \h49, \hA5, \h01, \hC9, \h1C,
    \hF0, \h08, \h18, \h69, \h01, \h85, \h01, \h4C, \hD5, \h49, \h60>>

rom_handle_keypress ==
  <<\hAD, \h04, \h49, \h85, \h08, \hC9, \h16, \hF0, \h0F, \hC9, \h12, \hF0, \h19, \hC9,
    \h08, \hF0, \h23, \hC9, \h0A, \hF0, \h2D, \h4C, \hD5, \h49, \hA5, \h00, \hC9, \h00,
    \hF0, \h32, \h18, \hE9, \h01, \h85, \h00, \h4C, \hD5, \h49, \hA5, \h00, \hC9, \h1C,
    \hF0, \h24, \h18, \h69, \h01, \h85, \h00, \h4C, \hD5, \h49, \hA5, \h01, \hC9, \h00,
    \hF0, \h16, \h18, \hE9, \h01, \h85, \h01, \h4C, \hD5, \h49, \hA5, \h01, \hC9, \h1C,
    \hF0, \h08, \h18, \h69, \h01, \h85, \h01, \h4C, \hD5, \h49, \h60>>

rom_handle_clock ==
  <<\h20, \hBA, \h4A, \h20, \h0F, \h4A, \h20, \h41, \h4A, \h20, \hCD, \h4A, \h20, \h0D,
    \h4B, \h20, \hDD, \h4A, \h20, \h25, \h4B, \h20, \h56, \h4B, \h20, \h66, \h4B, \h60>>

rom_reset_positions == <<\hA9, \h0E, \h85, \h00, \hA9, \h0E, \h85, \h01, \h20, \hFE, \h49, \h60>>

rom_reset_ball_position ==
  <<\hA9, \h20, \h85, \h04, \hA9, \h12, \h85, \h05, \hA9, \h01, \h85, \h06, \hA9, \h01,
    \h85, \h07, \h60>>

rom_update_ball ==
  <<\hA5, \h06, \hD0, \h0A, \hA5, \h04, \h18, \hE9, \h01, \h85, \h04, \h4C, \h27, \h4A,
    \hA5, \h04, \h18, \h69, \h01, \h85, \h04, \h4C, \h27, \h4A, \hA5, \h07, \hD0, \h0A,
    \hA5, \h05, \h18, \hE9, \h01, \h85, \h05, \h4C, \h40, \h4A, \hA5, \h05, \h18, \h69,
    \h01, \h85, \h05, \hEA, \h4C, \h40, \h4A, \h60>>

rom_check_ball_collisions ==
  <<\hA5, \h05, \hC9, \h00, \hD0, \h07, \hA9, \h01, \h85, \h07, \h20, \h53, \h49, \hA5,
    \h05, \hC9, \h23, \hD0, \h07, \hA9, \h00, \h85, \h07, \h20, \h53, \h49, \hA5, \h05,
    \hC5, \h00, \h90, \h16, \hA5, \h05, \h18, \hE5, \h00, \hC9, \h08, \hB0, \h0D, \hA5,
    \h04, \hC9, \h02, \hD0, \h07, \hA9, \h01, \h85, \h06, \h20, \h53, \h49, \hA5, \h05,
    \hC5, \h01, \h90, \h16, \hA5, \h05, \h18, \hE5, \h01, \hC9, \h08, \hB0, \h0D, \hA5,
    \h04, \hC9, \h3D, \hD0, \h07, \hA9, \h00, \h85, \h06, \h20, \h53, \h49, \hA5, \h04,
    \hC9, \h00, \hD0, \h0D, \hA5, \h03, \h18, \h69, \h01, \h85, \h03, \h20, \hFE, \h49,
    \h20, \h63, \h49, \hA5, \h04, \hC9, \h3F, \hD0, \h0D, \hA5, \h02, \h18, \h69, \h01,
    \h85, \h02, \h20, \hFE, \h49, \h20, \h63, \h49, \h60>>

(* A slip: the JMP to the end leads to itself. *)
rom_check_score_stays ==
  <<\hA5, \h02, \hC9, \h0A, \hF0, \h09, \hA5, \h03, \hC9, \h0A, \hF0, \h03, \h4C, \hC6,
    \h4A, \h20, \h79, \h49, \h60>>

rom_check_score ==
  <<\hA5, \h02, \hC9, \h0A, \hF0, \h09, \hA5, \h03, \hC9, \h0A, \hF0, \h03, \h4C, \hCC,
    \h4A, \h20, \h79, \h49, \h60>>

rom_set_color_black ==
  <<\hA9, \h00, \h8D, \h0C, \h49, \hA9, \h80, \h8D, \h0B, \h49, \hA9, \h81, \h8D, \h0B,
    \h49, \h60>>

rom_set_color_white ==
  <<\hA9, \hFF, \h8D, \h0C, \h49, \hA9, \h80, \h8D, \h0B, \h49, \hA9, \h81, \h8D, \h0B,
    \h49, \h60>>

rom_set_color_blue ==
  <<\hA9, \h03, \h8D, \h0C, \h49, \hA9, \h80, \h8D, \h0B, \h49, \hA9, \h81, \h8D, \h0B,
    \h49, \h60>>

rom_set_color_yellow ==
  <<\hA9, \hFC, \h8D, \h0C, \h49, \hA9, \h80, \h8D, \h0B, \h49, \hA9, \h81, \h8D, \h0B,
    \h49, \h60>>

rom_clear_screen ==
  <<\hA9, \h00, \h8D, \h0C, \h49, \h8D, \h0D, \h49, \hA9, \h40, \h8D, \h0E, \h49, \hA9,
    \h24, \h8D, \h0F, \h49, \hA9, \h00, \h8D, \h0B, \h49, \h60>>

rom_draw_rackets ==
  <<\hA9, \h01, \h8D, \h0C, \h49, \h8D, \h0E, \h49, \hA5, \h00, \h8D, \h0D, \h49, \h18,
    \h69, \h08, \h8D, \h0F, \h49, \hA9, \h03, \h8D, \h0B, \h49, \hA9, \h3E, \h8D, \h0C,
    \h49, \h8D, \h0E, \h49, \hA5, \h01, \h8D, \h0D, \h49, \h18, \h69, \h08, \h8D, \h0F,
    \h49, \hA9, \h03, \h8D, \h0B, \h49, \h60>>

(* A slip: the dot is committed before its second argument is stored. *)
rom_draw_ball_early ==
  <<\hA5, \h04, \h8D, \h0C, \h49, \hA9, \h02, \h8D, \h0B, \h49, \hA5, \h05, \h8D, \h0D,
    \h49, \h60>>

rom_draw_ball ==
  <<\hA5, \h04, \h8D, \h0C, \h49, \hA5, \h05, \h8D, \h0D, \h49, \hA9, \h02, \h8D, \h0B,
    \h49, \h60>>

rom_draw_score ==
  <<\h20, \hFD, \h4A, \hA9, \h00, \h8D, \h0C, \h49, \hA9, \h23, \h8D, \h0D, \h49, \hA5,
    \h02, \h8D, \h0E, \h49, \hA9, \h23, \h8D, \h0F, \h49, \hA9, \h03, \h8D, \h0B, \h49,
    \h20, \hED, \h4A, \hA9, \h00, \h8D, \h0C, \h49, \hA9, \h22, \h8D, \h0D, \h49, \hA5,
    \h03, \h8D, \h0E, \h49, \hA9, \h22, \h8D, \h0F, \h49, \hA9, \h03, \h8D, \h0B, \h49,
    \h20, \hDD, \h4A, \hA9, \h0A, \h8D, \h0C, \h49, \hA9, \h22, \h8D, \h0D, \h49, \hA9,
    \h02, \h8D, \h0B, \h49, \hA9, \h0A, \h8D, \h0C, \h49, \hA9, \h23, \h8D, \h0D, \h49,
    \hA9, \h02, \h8D, \h0B, \h49, \h60>>

code ==
  rom_main \o rom_irq \o rom_start_short_beep \o rom_start_long_beep \o rom_stop_beep
    \o rom_reset_game \o rom_handle_keypress \o rom_handle_clock \o rom_reset_positions
    \o rom_reset_ball_position \o rom_update_ball \o rom_check_ball_collisions
    \o rom_check_score \o rom_set_color_black \o rom_set_color_white \o rom_set_color_blue
    \o rom_set_color_yellow \o rom_clear_screen \o rom_draw_rackets \o rom_draw_ball
    \o rom_draw_score

Rom == [a \in kAddrROM .. kAddrROM + Len(code) - 1 |-> code[a - kAddrROM + 1]]

(* The reset vector leads to rom_main, the interrupt vector to rom_irq. *)
RomVectors == [a \in kVecRES .. kVecIRQ + 1 |-> <<\h20, \h49, \h2E, \h49>>[a - kVecRES + 1]]

RomImage == [a \in DOMAIN Rom \cup DOMAIN RomVectors |->
               IF a \in DOMAIN Rom THEN Rom[a] ELSE RomVectors[a]]

-----------------------------------------------------------------------------
(* The IO registers the program uses, and the variables of its zero page. *)
event_type    == \h4903
keycode       == \h4904
audio_channel == \h4908
draw_method   == \h490B
draw_args     == \h490C
timer1        == \h4910

GameIn(m) ==
  [racket1_pos |-> read_byte(m, 0), racket2_pos |-> read_byte(m, 1),
   score1      |-> read_byte(m, 2), score2      |-> read_byte(m, 3),
   ball_pos_x  |-> read_byte(m, 4), ball_pos_y  |-> read_byte(m, 5),
   ball_vel_x  |-> read_byte(m, 6) # 0, ball_vel_y |-> read_byte(m, 7) # 0,
   audio1      |-> read_byte(m, audio_channel), timer1 |-> read_byte(m, timer1)]

VARIABLES
  entry,       \* <<the game as the running routine found it>>, or <<>> in the loop
  commits      \* what the running handler committed to the IO chip

romVars == <<cpu, mem, int, at, serving, raising, entry, commits>>

(* The game, which a routine of the program changes in one step. *)
played == IF entry = <<>> THEN GameIn(mem) ELSE entry[1]

Pong == INSTANCE Pong WITH
  SCREEN_WIDTH <- 64, SCREEN_HEIGHT <- 36,
  RACKET_HEIGHT <- 8, RACKET1_X <- 1, RACKET2_X <- 62, RACKET_INITIAL_Y <- 14,
  BALL_INITIAL_X <- 32, BALL_INITIAL_Y <- 18,
  WINNING_SCORE <- 10, BEEP_LONG_AUDIO <- \hD9, WALLS_BEEP <- TRUE,
  game <- played

-----------------------------------------------------------------------------
(* The NOP and the JMP of the loop that main ends in. *)
MainLoop == {\h492A, \h492B}

PowerOnInit ==
  /\ Init /\ mem = RomImage
  /\ entry = <<Pong!InitialGame>>
  /\ commits = <<>>

Bit(b) == IF b THEN 1 ELSE 0

(* The memory with a game under way. *)
Saved(e) ==
  LET g == e.game
      ram == <<g.racket1_pos, g.racket2_pos, g.score1, g.score2,
               g.ball_pos_x, g.ball_pos_y, Bit(g.ball_vel_x), Bit(g.ball_vel_y), 0>>
      io  == [a \in {event_type, keycode, audio_channel, timer1} |->
                CASE a = event_type    -> e.event_type
                  [] a = keycode       -> e.keycode
                  [] a = audio_channel -> g.audio1
                  [] OTHER             -> g.timer1]
  IN  [a \in 0 .. 8 \cup DOMAIN io \cup DOMAIN RomImage |->
         CASE a \in 0 .. 8       -> ram[a + 1]
           [] a \in DOMAIN io    -> io[a]
           [] OTHER              -> RomImage[a]]

EventInit ==
  /\ mem \in {Saved(e) : e \in Events}
  /\ \E pc \in MainLoop :
       cpu = [A |-> 2, X |-> 0, Y |-> 0, SP |-> kStackReset, PC |-> pc,
              STATUS |-> {kMaskConstant}, illegal_opcode |-> FALSE, shutdown |-> FALSE]
  /\ int = [l \in Line |-> l = "irq"]
  /\ at = "cycle_irq" /\ serving = FALSE
  /\ raising = [d \in Devices |-> "none"]
  /\ entry = <<>> /\ commits = <<>>

RomInit == PowerOnInit \/ EventInit

(* The methods of the IO chip and the argument registers each uses. *)
Arity(method) ==
  CASE method = Pong!DRAW_RECTANGLE -> 4
    [] method = Pong!DRAW_LINE      -> 4
    [] method = Pong!DRAW_DOT       -> 2
    [] OTHER                        -> 1

Committed ==
  Pong!Commit(cpu.A, [i \in 1 .. Arity(cpu.A) |-> read_byte(mem, draw_args + i - 1)])

Fetches(ops) == at = "fetch" /\ instruction.code \in ops

(* A routine ends with the CLI of main or the RTI of the handler. *)
RomNext ==
  /\ Next
  /\ entry' = CASE at = "cycle_irq" /\ serving -> <<GameIn(mem)>>
                [] Fetches({"cli", "rti"})     -> <<>>
                [] OTHER                       -> entry
  /\ commits' = CASE Fetches({"rti"})                         -> <<>>
                  [] Fetches({"sta"}) /\ src = draw_method     -> Append(commits, Committed)
                  [] OTHER                                     -> commits

RomSpec     == RomInit /\ [][RomNext]_romVars
RomFairSpec == RomSpec /\ Fairness

-----------------------------------------------------------------------------
(* The step of the handler's RTI. *)
Returns == Fetches({"rti"}) /\ at' # at

(***************************************************************************)
(* The program plays the game of pong.cpp: at each RTI the zero page, the  *)
(* audio channel and the timer hold what the handler of pong.cpp makes of  *)
(* the game that rom_irq found, for the event and the key in the           *)
(* registers - so no event is passed over that pong.cpp handles - and      *)
(* nothing else changes the game, which is the initial one when rom_main   *)
(* reaches its loop.  It relies on what this CPU does otherwise than a     *)
(* 6502: CLC before SBC (op_sbc).                                          *)
(***************************************************************************)
RomPlaysPong ==
  [][/\ Returns => Pong!irq(read_byte(mem, event_type), read_byte(mem, keycode))
     /\ ~Returns => UNCHANGED played]_romVars

(***************************************************************************)
(* A clock event draws the court as the game has left it and then the      *)
(* scores, committing each method when the arguments it uses are all in    *)
(* the registers; the other events draw nothing (rom_handle_clock, the     *)
(* rom_draw and rom_set_color routines).                                   *)
(***************************************************************************)
rom_score(g) ==
  Pong!set_color(Pong!YELLOW) \o <<Pong!Commit(Pong!DRAW_LINE, <<0, 35, g.score1, 35>>)>>
    \o Pong!set_color(Pong!BLUE) \o <<Pong!Commit(Pong!DRAW_LINE, <<0, 34, g.score2, 34>>)>>
    \o Pong!set_color(Pong!WHITE)
    \o <<Pong!Commit(Pong!DRAW_DOT, <<10, 34>>), Pong!Commit(Pong!DRAW_DOT, <<10, 35>>)>>

FrameDrawn ==
  [][Returns
       => commits = IF read_byte(mem, event_type) = Pong!EVENT_CLOCK1
                    THEN Pong!Court(played') \o rom_score(played')
                    ELSE <<>>]_romVars

(***************************************************************************)
(* Every routine ends, and it ends in the loop of main with nothing on the *)
(* stack and interrupts enabled, so that the next event is served: all     *)
(* branches of the routines lead forwards and every JSR meets its RTS.     *)
(***************************************************************************)
InLoop ==
  /\ entry = <<>>
  /\ cpu.PC \in MainLoop /\ cpu.SP = kStackReset /\ kMaskInterrupt \notin cpu.STATUS

RoutinesReturn == entry # <<>> ~> InLoop
=============================================================================
