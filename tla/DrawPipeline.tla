---------------------------- MODULE DrawPipeline ----------------------------
(***************************************************************************)
(* The draw pipeline of the IO chip (src/src/iochip.cpp).  The CPU thread  *)
(* writes the argument registers and commits a method by writing           *)
(* kIODrawMethod, which appends an instruction to a queue and notifies a   *)
(* condition variable.  thread_drawing takes instructions from the queue   *)
(* and executes them.  The main thread closes the window and then calls    *)
(* stop, which joins the drawing thread.                                   *)
(*                                                                         *)
(* draw_pipeline_mutex makes each push, pop and size one step.  draw_mutex *)
(* has no variable: thread_drawing alone takes it, so it excludes nobody,  *)
(* in particular not the two threads that notify condition_draw.           *)
(*                                                                         *)
(* A shape is one entry in `vram'; the pixels it sets, and the orientation *)
(* that is read while they are set, are in module Shapes.                  *)
(***************************************************************************)
EXTENDS Bytes, Sequences

CONSTANTS
  Registers,    \* the argument registers, kIODrawArg1 being number 1
  Values,       \* the bytes the program writes to them
  Methods,      \* the bytes the program writes to kIODrawMethod
  MaxCommits    \* bound of the model: how many methods the program commits

ASSUME DrawAssumption ==
  /\ 1 \in Registers
  /\ Methods \subseteq Byte
  /\ MaxCommits \in Nat

kIODrawRectangle   == \h00
kIODrawSquare      == \h01
kIODrawDot         == \h02
kIODrawLine        == \h03
kIOBrushSetBody    == \h80
kIOBrushSetOutline == \h81

Shapes == {kIODrawRectangle, kIODrawSquare, kIODrawDot, kIODrawLine}

VARIABLES
  args,            \* kIODrawArg1 and the following registers
  draw_pipeline,   \* the queue
  brush,           \* brush_body_color and brush_outline_color
  vram,            \* the shapes drawn
  shutdown,        \* the flag of the IO chip
  drawer,          \* where thread_drawing is
  instruction,     \* its local variable, empty when not in scope
  writer,          \* where the CPU thread is in IOChip::write
  stopper,         \* where the main thread is in start and stop
  commits          \* how many methods were committed

vars == <<args, draw_pipeline, brush, vram, shutdown, drawer, instruction, writer, stopper,
          commits>>

Instruction == [method : Methods, args : [Registers -> Values]]
Brush       == [body : Values, outline : Values]

(***************************************************************************)
(* "test" evaluates the predicate of the wait, "sleep" has found it FALSE  *)
(* and not yet started to wait, "blocked" waits; "check" is the test after *)
(* the wait.                                                               *)
(***************************************************************************)
DrawerPlace == {"loop", "test", "sleep", "blocked", "check", "fetch", "execute", "returned"}

TypeOK ==
  /\ args \in [Registers -> Values]
  /\ draw_pipeline \in Seq(Instruction)
  /\ brush \in Brush
  /\ vram \in Seq([shape : Instruction, brush : Brush])
  /\ shutdown \in BOOLEAN
  /\ drawer \in DrawerPlace
  /\ instruction \in {<<>>} \cup {<<i>> : i \in Instruction}
  /\ writer \in {"running", "notify"}
  /\ stopper \in {"running", "closed", "notify", "join", "returned"}
  /\ commits \in 0 .. MaxCommits

(* The constructor leaves the argument registers and the brush uninitialised. *)
Init ==
  /\ args \in [Registers -> Values]
  /\ draw_pipeline = <<>>
  /\ brush \in Brush
  /\ vram = <<>>
  /\ shutdown = FALSE
  /\ drawer = "loop"
  /\ instruction = <<>>
  /\ writer = "running"
  /\ stopper = "running"
  /\ commits = 0

-----------------------------------------------------------------------------
(* The CPU thread: IOChip::write. *)

write_argument(r, v) ==
  /\ writer = "running"
  /\ args' = [args EXCEPT ![r] = v]
  /\ UNCHANGED <<draw_pipeline, brush, vram, shutdown, drawer, instruction, writer, stopper, commits>>

write_method(m) ==
  /\ writer = "running"
  /\ commits < MaxCommits
  /\ draw_pipeline' = Append(draw_pipeline, [method |-> m, args |-> args])
  /\ writer' = "notify"
  /\ commits' = commits + 1
  /\ UNCHANGED <<args, brush, vram, shutdown, drawer, instruction, stopper>>

(* condition_draw.notify_one wakes the drawing thread only if it waits already. *)
Woken == IF drawer = "blocked" THEN "test" ELSE drawer

(* A slip: the commit does not notify. *)
write_notify_none ==
  /\ writer = "notify"
  /\ writer' = "running"
  /\ UNCHANGED <<args, draw_pipeline, brush, vram, shutdown, drawer, instruction, stopper, commits>>

write_notify ==
  /\ writer = "notify"
  /\ drawer' = Woken
  /\ writer' = "running"
  /\ UNCHANGED <<args, draw_pipeline, brush, vram, shutdown, instruction, stopper, commits>>

-----------------------------------------------------------------------------
(* The drawing thread: thread_drawing. *)

draw_loop ==
  /\ drawer = "loop"
  /\ drawer' = IF shutdown THEN "returned" ELSE "test"
  /\ UNCHANGED <<args, draw_pipeline, brush, vram, shutdown, instruction, writer, stopper, commits>>

(* A slip: the predicate forgets the shutdown. *)
draw_test_no_shutdown ==
  /\ drawer = "test"
  /\ drawer' = IF draw_pipeline # <<>> THEN "check" ELSE "sleep"
  /\ UNCHANGED <<args, draw_pipeline, brush, vram, shutdown, instruction, writer, stopper, commits>>

draw_test ==
  /\ drawer = "test"
  /\ drawer' = IF draw_pipeline # <<>> \/ shutdown THEN "check" ELSE "sleep"
  /\ UNCHANGED <<args, draw_pipeline, brush, vram, shutdown, instruction, writer, stopper, commits>>

draw_sleep ==
  /\ drawer = "sleep"
  /\ drawer' = "blocked"
  /\ UNCHANGED <<args, draw_pipeline, brush, vram, shutdown, instruction, writer, stopper, commits>>

spurious_wakeup ==
  /\ drawer = "blocked"
  /\ drawer' = "test"
  /\ UNCHANGED <<args, draw_pipeline, brush, vram, shutdown, instruction, writer, stopper, commits>>

(* A slip: the shutdown is not tested again after the wait. *)
draw_check_none ==
  /\ drawer = "check"
  /\ drawer' = "fetch"
  /\ UNCHANGED <<args, draw_pipeline, brush, vram, shutdown, instruction, writer, stopper, commits>>

draw_check ==
  /\ drawer = "check"
  /\ drawer' = IF shutdown THEN "loop" ELSE "fetch"
  /\ UNCHANGED <<args, draw_pipeline, brush, vram, shutdown, instruction, writer, stopper, commits>>

(* A slip: the instruction is taken from the end of the queue. *)
draw_fetch_back ==
  /\ drawer = "fetch" /\ draw_pipeline # <<>>
  /\ instruction' = <<draw_pipeline[Len(draw_pipeline)]>>
  /\ draw_pipeline' = SubSeq(draw_pipeline, 1, Len(draw_pipeline) - 1)
  /\ drawer' = "execute"
  /\ UNCHANGED <<args, brush, vram, shutdown, writer, stopper, commits>>

(* front and pop of an empty queue are undefined: see FetchFindsInstruction. *)
draw_fetch ==
  /\ drawer = "fetch" /\ draw_pipeline # <<>>
  /\ instruction' = <<Head(draw_pipeline)>>
  /\ draw_pipeline' = Tail(draw_pipeline)
  /\ drawer' = "execute"
  /\ UNCHANGED <<args, brush, vram, shutdown, writer, stopper, commits>>

(* The switch over method_code; other codes do nothing. *)
draw_execute ==
  /\ drawer = "execute"
  /\ LET i == Head(instruction)
     IN  /\ brush' = CASE i.method = kIOBrushSetBody    -> [brush EXCEPT !.body = i.args[1]]
                       [] i.method = kIOBrushSetOutline -> [brush EXCEPT !.outline = i.args[1]]
                       [] OTHER                         -> brush
         /\ vram' = IF i.method \in Shapes THEN Append(vram, [shape |-> i, brush |-> brush]) ELSE vram
  /\ instruction' = <<>>
  /\ drawer' = "loop"
  /\ UNCHANGED <<args, draw_pipeline, shutdown, writer, stopper, commits>>

-----------------------------------------------------------------------------
(* The main thread: the event loop of start, then stop. *)

close_window ==
  /\ stopper = "running"
  /\ shutdown' = TRUE
  /\ stopper' = "closed"
  /\ UNCHANGED <<args, draw_pipeline, brush, vram, drawer, instruction, writer, commits>>

(* stop sets shutdown again and joins the rendering thread, which sees it too. *)
stop_joins_render ==
  /\ stopper = "closed"
  /\ shutdown' = TRUE
  /\ stopper' = "notify"
  /\ UNCHANGED <<args, draw_pipeline, brush, vram, drawer, instruction, writer, commits>>

stop_notifies ==
  /\ stopper = "notify"
  /\ drawer' = Woken
  /\ stopper' = "join"
  /\ UNCHANGED <<args, draw_pipeline, brush, vram, shutdown, instruction, writer, commits>>

stop_joins_drawing ==
  /\ stopper = "join" /\ drawer = "returned"
  /\ stopper' = "returned"
  /\ UNCHANGED <<args, draw_pipeline, brush, vram, shutdown, drawer, instruction, writer, commits>>

-----------------------------------------------------------------------------
Drawer == draw_loop \/ draw_test \/ draw_sleep \/ draw_check \/ draw_fetch \/ draw_execute

Stop == stop_joins_render \/ stop_notifies \/ stop_joins_drawing

Next ==
  \/ \E r \in Registers, v \in Values : write_argument(r, v)
  \/ \E m \in Methods : write_method(m)
  \/ write_notify
  \/ Drawer \/ spurious_wakeup
  \/ close_window \/ Stop

Spec == Init /\ [][Next]_vars

(* Threads that can run do; the program may stop committing, and nobody has *)
(* to close the window.                                                     *)
Fairness == WF_vars(Drawer) /\ WF_vars(write_notify) /\ WF_vars(Stop)

FairSpec == Spec /\ Fairness

-----------------------------------------------------------------------------
Sequential == INSTANCE Drawing WITH
  SetBody    <- kIOBrushSetBody,
  SetOutline <- kIOBrushSetOutline,
  todo       <- instruction \o draw_pipeline

(***************************************************************************)
(* The program sees its drawing as if every commit were executed in its    *)
(* turn: shapes in the order of the commits, with the arguments of their   *)
(* commit although the program overwrites the registers meanwhile, and     *)
(* with the colours set by the brush methods committed before them (write, *)
(* thread_drawing).                                                        *)
(***************************************************************************)
PaintedAsCommitted == Sequential!DSpec

(***************************************************************************)
(* thread_drawing never takes an instruction from an empty queue, also     *)
(* when shutdown made its predicate true (the second test of shutdown).    *)
(***************************************************************************)
FetchFindsInstruction == drawer = "fetch" => draw_pipeline # <<>>

(* The drawing thread runs, or is about to be notified while it waits. *)
Awake == drawer \notin {"sleep", "blocked"}
WakesFor(notifying) == Awake \/ (drawer = "blocked" /\ notifying)

(***************************************************************************)
(* A drawing thread that runs, or that waits when the commit notifies,     *)
(* draws all that is committed; what is left is the notification that      *)
(* comes between its predicate and its sleep.                              *)
(***************************************************************************)
DrawnWhenAwake ==
  WakesFor(writer = "notify") ~> (draw_pipeline = <<>> \/ shutdown)

(***************************************************************************)
(* Likewise the drawing thread ends, so that stop's join returns, unless   *)
(* it had found the predicate false and was not yet waiting.               *)
(***************************************************************************)
DrawingEnds ==
  (shutdown /\ WakesFor(stopper = "notify")) ~> drawer = "returned"

(***************************************************************************)
(* Documentation: "Writing to kIODrawMethod will commit the action and     *)
(* execute the corresponding method" (src/include/iochip.h).  The          *)
(* notification of the last commit may be lost, and its instruction stays  *)
(* in the queue.                                                           *)
(***************************************************************************)
CommittedDrawn == draw_pipeline # <<>> ~> (draw_pipeline = <<>> \/ shutdown)
=============================================================================
