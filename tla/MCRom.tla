------------------------------- MODULE MCRom -------------------------------
(***************************************************************************)
(* Events that meet the game where its routines branch: the ball about to  *)
(* reach a wall, an edge of a racket, a goal or two of them at once; the   *)
(* rackets at the ends of the screen; a game about to be won and one just  *)
(* won.  Every clock moves the ball by one in both directions, so the sum  *)
(* of its coordinates is even as at the start.                             *)
(***************************************************************************)
EXTENDS PongRom

PlayOn(rackets, scores, ball, forward, down) ==
  [racket1_pos |-> rackets[1], racket2_pos |-> rackets[2],
   score1 |-> scores[1], score2 |-> scores[2],
   ball_pos_x |-> ball[1], ball_pos_y |-> ball[2],
   ball_vel_x |-> forward, ball_vel_y |-> down,
   audio1 |-> Pong!SILENT_AUDIO, timer1 |-> \h0A]

(* Rackets that the ball misses and meets at both of their ends. *)
AtLeft  == {<<r, 14>> : r \in {10, 11, 18, 19}}
AtRight == {<<14, r>> : r \in {11, 12, 19, 20}}
AtEnds  == {<<0, 28>>, <<28, 0>>}

Clocks ==
  {PlayOn(<<14, 14>>, <<0, 0>>, <<31, 1>>, TRUE, FALSE),
   PlayOn(<<14, 14>>, <<0, 0>>, <<30, 34>>, FALSE, TRUE),
   PlayOn(<<0, 28>>, <<3, 4>>, <<3, 1>>, FALSE, FALSE),
   PlayOn(<<0, 28>>, <<3, 4>>, <<60, 34>>, TRUE, TRUE),
   PlayOn(<<28, 0>>, <<9, 9>>, <<1, 1>>, FALSE, FALSE),
   PlayOn(<<28, 0>>, <<9, 9>>, <<62, 34>>, TRUE, TRUE),
   PlayOn(<<28, 0>>, <<10, 7>>, <<32, 18>>, TRUE, TRUE),
   PlayOn(<<0, 28>>, <<7, 10>>, <<32, 18>>, TRUE, TRUE)}
  \cup {PlayOn(r, <<0, 0>>, <<3, 17>>, FALSE, TRUE) : r \in AtLeft}
  \cup {PlayOn(r, <<0, 0>>, <<60, 20>>, TRUE, FALSE) : r \in AtRight}

Keyed == {PlayOn(r, <<1, 2>>, <<40, 20>>, FALSE, TRUE) : r \in AtEnds \cup {<<14, 15>>}}

Event(g, type, key) == [game |-> g, event_type |-> type, keycode |-> key]

MCEvents ==
  {Event(g, Pong!EVENT_CLOCK1, 0) : g \in Clocks}
  \cup {Event(g, Pong!EVENT_KEYDOWN, key) :
          g \in Keyed, key \in {Pong!KEY_W, Pong!KEY_S, Pong!KEY_I, Pong!KEY_K, 0}}
  \cup {Event([g EXCEPT !.audio1 = Pong!BEEP_SHORT_AUDIO], type, 0) :
          g \in Keyed, type \in {Pong!EVENT_TIMER1, 0}}

MCPrograms == {RomImage}
NoLines    == [d \in Devices |-> Line]
MCGarbage  == [d \in Device |-> 0]
=============================================================================
