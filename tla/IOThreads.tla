------------------------------ MODULE IOThreads ------------------------------
(***************************************************************************)
(* The event sources of the IO chip and its lifecycle (src/src/iochip.cpp, *)
(* src/src/main.cpp).  Clocks, timers and counters have a thread each in   *)
(* worker_threads; the main thread, in IOChip::start, turns key presses    *)
(* into events.  Each source stores event_type and then raises the IRQ, in *)
(* two steps, and all share that byte and that line.  The CPU accepts the  *)
(* IRQ, and its handler then reads what it finds.  When the window is      *)
(* closed the main thread calls stop, which joins the threads, and main    *)
(* joins the CPU thread.                                                   *)
(*                                                                         *)
(* Time is left out: a sleep may end at any moment, so of a register only  *)
(* matters whether it is 0.  The program in ROM is any sequence of writes  *)
(* to its registers.                                                       *)
(* Left to other modules is the notification of WAI (CPU).  Of the drawing *)
(* thread only its wait for condition_draw and its end are here, as far as *)
(* stop depends on them; what it draws is in DrawPipeline.                 *)
(***************************************************************************)
EXTENDS Bytes, Sequences, FiniteSets

CONSTANTS
  Clocks, Timers, Counters,   \* the registers in use
  Programs,                   \* for each program of the CPU, the registers it writes
  Keys,                       \* the codes of the keys pressed
  MaxKeys, MaxWrites          \* bounds of the model: for each program, the key presses
                              \* while it runs and its writes

kIOClock1   == \h906
kIOClock2   == \h907
kIOTimer1Lo == \h910
kIOTimer2Lo == \h912
kIOCounter1 == \h914
kIOCounter2 == \h915

ASSUME ThreadsAssumption ==
  /\ Clocks \subseteq {kIOClock1, kIOClock2}
  /\ Timers \subseteq {kIOTimer1Lo, kIOTimer2Lo}
  /\ Counters \subseteq {kIOCounter1, kIOCounter2}
  /\ Keys \subseteq Byte
  /\ MaxKeys \in [Programs -> Nat] /\ MaxWrites \in [Programs -> Nat]

kIOEventUnspecified == \h00
kIOEventKeydown     == \h01

EventOf(source) ==
  CASE source = kIOClock1   -> \h06
    [] source = kIOClock2   -> \h07
    [] source = kIOTimer1Lo -> \h08
    [] source = kIOTimer2Lo -> \h09
    [] source = kIOCounter1 -> \h0A
    [] source = kIOCounter2 -> \h0B

Sources == Clocks \cup Timers \cup Counters

VARIABLES
  register,         \* the bytes of the clocks and counters
  event_type,       \* what the sources store for the handler ...
  keycode,          \* ... and, with a key press, its code
  irq,              \* Bus::int_irq's flag
  worker_threads,   \* the vector of threads: the source of each and where it is
  render_thread,    \* "unstarted", "running" or "returned"
  drawing_thread,   \* likewise, or in its wait: "sleep" or "blocked"
  shutdown,         \* the flag of the IO chip
  main,             \* where the main thread is in start, stop and main
  joined,           \* in stop's loop: the threads joined, and those it will join
  cpu,              \* where the CPU thread is
  unread,           \* history: an event was raised and event_type not read since
  handled,          \* history: the key code that a handler read last
  program,          \* the program in ROM
  keys, writes      \* how many key presses and writes there were

eventVars == <<event_type, keycode, irq, unread>>
workVars  == <<worker_threads, render_thread, drawing_thread>>
mainVars  == <<main, joined, shutdown, keys>>
cpuVars   == <<cpu, register, handled, program, writes>>

threadVars == <<eventVars, workVars, mainVars, cpuVars>>

(***************************************************************************)
(* The places of a worker: "test" of the shutdown, "load" of the register, *)
(* "store" of event_type once the sleep is over, "raise" of the IRQ.  A    *)
(* timer sleeps before its test.                                           *)
(***************************************************************************)
WorkerPlace == {"test", "load", "store", "raise", "returned"}

(* "exited" and "aborted" end the program, "aborted" after an error. *)
MainPlace == {"starting", "events", "key_payload", "key_raise", "join_render", "notify_draw",
              "join_drawing", "join_workers", "join_cpu", "exited", "aborted"}

(* In its wait the drawing thread has found the predicate FALSE: "sleep"    *)
(* before it waits, "blocked" while it does.                                *)
DrawingPlace == {"unstarted", "running", "sleep", "blocked", "returned"}

ThreadsTypeOK ==
  /\ register \in [Clocks \cup Counters -> {0, 1}]
  /\ event_type \in {kIOEventUnspecified, kIOEventKeydown} \cup {EventOf(s) : s \in Sources}
  /\ keycode \in Keys \cup {0} /\ handled \in Keys \cup {0}
  /\ irq \in BOOLEAN /\ shutdown \in BOOLEAN /\ unread \in BOOLEAN
  /\ worker_threads \in Seq([source : Sources, at : WorkerPlace])
  /\ render_thread \in {"unstarted", "running", "returned"}
  /\ drawing_thread \in DrawingPlace
  /\ main \in MainPlace
  /\ joined \in [done : Nat, end : Nat]
  /\ cpu \in {"program", "accepted", "keydown", "halted"}
  /\ program \in Programs
  /\ keys \in 0 .. MaxKeys[program] /\ writes \in 0 .. MaxWrites[program]

(* main has started the CPU thread and calls start. *)
ThreadsInit ==
  /\ register = [r \in Clocks \cup Counters |-> 0]
  /\ event_type = kIOEventUnspecified
  /\ keycode = 0
  /\ irq = FALSE
  /\ worker_threads = <<>>
  /\ render_thread = "unstarted" /\ drawing_thread = "unstarted"
  /\ shutdown = FALSE
  /\ main = "starting"
  /\ joined = [done |-> 0, end |-> 0]
  /\ cpu = "program"
  /\ unread = FALSE
  /\ handled = 0
  /\ program \in Programs
  /\ keys = 0 /\ writes = 0

-----------------------------------------------------------------------------
(* The main thread: start. *)

Started(source) == \E i \in DOMAIN worker_threads : worker_threads[i].source = source

start_clock(c) ==
  /\ main = "starting" /\ ~Started(c)
  /\ \A d \in Clocks : d < c => Started(d)
  /\ worker_threads' = Append(worker_threads, [source |-> c, at |-> "test"])
  /\ UNCHANGED <<eventVars, mainVars, cpuVars, render_thread, drawing_thread>>

start_window ==
  /\ main = "starting" /\ \A c \in Clocks : Started(c)
  /\ drawing_thread' = "running" /\ render_thread' = "running"
  /\ main' = "events"
  /\ UNCHANGED <<eventVars, cpuVars, worker_threads, shutdown, joined, keys>>

(* A key press: the type, the code, the interrupt. *)
key_type ==
  /\ main = "events" /\ ~shutdown
  /\ keys < MaxKeys[program]
  /\ keys' = keys + 1
  /\ event_type' = kIOEventKeydown
  /\ main' = "key_payload"
  /\ UNCHANGED <<workVars, cpuVars, keycode, irq, shutdown, joined, unread>>

key_payload(k) ==
  /\ main = "key_payload"
  /\ keycode' = k
  /\ main' = "key_raise"
  /\ UNCHANGED <<workVars, cpuVars, event_type, irq, shutdown, joined, unread, keys>>

(* A slip: a key press does not interrupt. *)
key_raise_none ==
  /\ main = "key_raise"
  /\ main' = "events"
  /\ UNCHANGED <<eventVars, workVars, cpuVars, shutdown, joined, keys>>

key_raise ==
  /\ main = "key_raise"
  /\ irq' = TRUE /\ unread' = TRUE
  /\ main' = "events"
  /\ UNCHANGED <<workVars, cpuVars, event_type, keycode, shutdown, joined, keys>>

(* start returns, and stop sets shutdown again. *)
close_window ==
  /\ main = "events"
  /\ shutdown' = TRUE
  /\ main' = "join_render"
  /\ UNCHANGED <<eventVars, workVars, cpuVars, joined, keys>>

-----------------------------------------------------------------------------
(* The main thread: stop, then the end of main. *)

stop_joins_render ==
  /\ main = "join_render" /\ render_thread = "returned"
  /\ main' = "notify_draw"
  /\ UNCHANGED <<eventVars, workVars, cpuVars, shutdown, joined, keys>>

(* A slip: stop does not notify the drawing thread. *)
stop_notifies_none ==
  /\ main = "notify_draw"
  /\ main' = "join_drawing"
  /\ UNCHANGED <<eventVars, workVars, cpuVars, shutdown, joined, keys>>

(* condition_draw.notify_one wakes the drawing thread only if it waits already. *)
stop_notifies ==
  /\ main = "notify_draw"
  /\ drawing_thread' = IF drawing_thread = "blocked" THEN "running" ELSE drawing_thread
  /\ main' = "join_drawing"
  /\ UNCHANGED <<eventVars, cpuVars, worker_threads, render_thread, shutdown, joined, keys>>

(* The loop over worker_threads takes the end of the vector when it begins. *)
stop_joins_drawing ==
  /\ main = "join_drawing" /\ drawing_thread = "returned"
  /\ main' = "join_workers"
  /\ joined' = [done |-> 0, end |-> Len(worker_threads)]
  /\ UNCHANGED <<eventVars, workVars, cpuVars, shutdown, keys>>

stop_joins_worker ==
  /\ main = "join_workers" /\ joined.done < joined.end
  /\ worker_threads[joined.done + 1].at = "returned"
  /\ joined' = [joined EXCEPT !.done = @ + 1]
  /\ UNCHANGED <<eventVars, workVars, cpuVars, shutdown, main, keys>>

(* Destroying a thread that was not joined terminates the program. *)
Destroy(threads, place) == main' = IF threads = <<>> THEN place ELSE "aborted"

stop_clears ==
  /\ main = "join_workers" /\ joined.done = joined.end
  /\ Destroy(SubSeq(worker_threads, joined.end + 1, Len(worker_threads)), "join_cpu")
  /\ worker_threads' = <<>>
  /\ UNCHANGED <<eventVars, cpuVars, render_thread, drawing_thread, shutdown, joined, keys>>

(* main returns; the destructor does not call stop again. *)
main_returns ==
  /\ main = "join_cpu" /\ cpu = "halted"
  /\ Destroy(worker_threads, "exited")
  /\ UNCHANGED <<eventVars, workVars, cpuVars, shutdown, joined, keys>>

-----------------------------------------------------------------------------
(* The other threads of the IO chip. *)

render_returns ==
  /\ render_thread = "running"
  /\ shutdown
  /\ render_thread' = "returned"
  /\ UNCHANGED <<eventVars, mainVars, cpuVars, worker_threads, drawing_thread>>

Draws == UNCHANGED <<eventVars, mainVars, cpuVars, worker_threads, render_thread>>

(* An empty queue, and shutdown not set when the predicate is evaluated. *)
drawing_waits ==
  /\ drawing_thread = "running" /\ ~shutdown
  /\ drawing_thread' = "sleep"
  /\ Draws

drawing_sleeps ==
  /\ drawing_thread = "sleep"
  /\ drawing_thread' = "blocked"
  /\ Draws

(* A method that the program commits, or a spurious wakeup. *)
drawing_wakes ==
  /\ drawing_thread = "blocked"
  /\ drawing_thread' = "running"
  /\ Draws

drawing_returns ==
  /\ drawing_thread = "running" /\ shutdown
  /\ drawing_thread' = "returned"
  /\ Draws

At(i, place)   == i \in DOMAIN worker_threads /\ worker_threads[i].at = place
Goto(i, place) == worker_threads' = [worker_threads EXCEPT ![i].at = place]

(* A slip: a timer does not test the shutdown. *)
worker_test_timer_not(i) ==
  /\ At(i, "test")
  /\ Goto(i, IF worker_threads[i].source \in Timers THEN "store"
             ELSE IF shutdown THEN "returned"
             ELSE IF worker_threads[i].source \in Clocks THEN "load" ELSE "store")
  /\ UNCHANGED <<eventVars, mainVars, cpuVars, render_thread, drawing_thread>>

worker_test(i) ==
  /\ At(i, "test")
  /\ Goto(i, IF shutdown THEN "returned"
             ELSE IF worker_threads[i].source \in Clocks THEN "load" ELSE "store")
  /\ UNCHANGED <<eventVars, mainVars, cpuVars, render_thread, drawing_thread>>

(* A slip: the thread of a clock ends when the clock is switched off. *)
worker_load_ends(i) ==
  /\ At(i, "load")
  /\ LET source == worker_threads[i].source
     IN  Goto(i, IF register[source] = 0 THEN "returned"
                 ELSE IF source \in Clocks THEN "store" ELSE "test")
  /\ UNCHANGED <<eventVars, mainVars, cpuVars, render_thread, drawing_thread>>

(* Clocks and counters: a clock that is off waits, a counter at 0 ends. *)
worker_load(i) ==
  /\ At(i, "load")
  /\ LET source == worker_threads[i].source
     IN  Goto(i, CASE register[source] = 0 /\ source \in Clocks    -> "test"
                   [] register[source] = 0 /\ source \notin Clocks -> "returned"
                   [] register[source] # 0 /\ source \in Clocks    -> "store"
                   [] OTHER                                        -> "test")
  /\ UNCHANGED <<eventVars, mainVars, cpuVars, render_thread, drawing_thread>>

worker_store(i) ==
  /\ At(i, "store")
  /\ event_type' = EventOf(worker_threads[i].source)
  /\ Goto(i, "raise")
  /\ UNCHANGED <<mainVars, cpuVars, keycode, irq, render_thread, drawing_thread, unread>>

(* A slip: a counter goes on with the value it had. *)
AfterRaiseStale(source) ==
  CASE source \in Clocks -> "test" [] source \in Timers -> "returned" [] OTHER -> "test"

(* A timer ends; the others loop, a counter by loading its register again. *)
AfterRaise(source) ==
  CASE source \in Clocks -> "test" [] source \in Timers -> "returned" [] OTHER -> "load"

worker_raise(i) ==
  /\ At(i, "raise")
  /\ irq' = TRUE /\ unread' = TRUE
  /\ Goto(i, AfterRaise(worker_threads[i].source))
  /\ UNCHANGED <<mainVars, cpuVars, event_type, keycode, render_thread, drawing_thread>>

-----------------------------------------------------------------------------
(* The CPU thread: the program writes the registers, in handlers or not. *)

Writes(r) ==
  /\ cpu # "halted"
  /\ r \in program /\ writes < MaxWrites[program]
  /\ writes' = writes + 1
  /\ UNCHANGED program

write_clock(c, v) ==
  /\ Writes(c)
  /\ register' = [register EXCEPT ![c] = v]
  /\ UNCHANGED <<eventVars, workVars, mainVars, cpu, handled>>

(***************************************************************************)
(* A write to a timer or a counter starts a thread.  The register is past  *)
(* the end of `memory', and push_back may run while the main thread adds   *)
(* to the vector or iterates over it: both are undefined behaviour, which  *)
(* may end the program.                                                    *)
(***************************************************************************)
push_back(thread) ==
  \/ /\ worker_threads' = Append(worker_threads, thread)
     /\ UNCHANGED main
  \/ /\ main' = "aborted"
     /\ UNCHANGED worker_threads

write_timer(t) ==
  /\ Writes(t)
  /\ push_back([source |-> t, at |-> "test"])
  /\ UNCHANGED <<eventVars, register, render_thread, drawing_thread, shutdown, joined, cpu, handled,
                 keys>>

write_counter(c, v) ==
  /\ Writes(c)
  /\ register' = [register EXCEPT ![c] = v]
  /\ push_back([source |-> c, at |-> "load"])
  /\ UNCHANGED <<eventVars, render_thread, drawing_thread, shutdown, joined, cpu, handled, keys>>

handle_irq ==
  /\ cpu = "program" /\ irq
  /\ irq' = FALSE
  /\ cpu' = "accepted"
  /\ UNCHANGED <<workVars, mainVars, register, event_type, keycode, unread, handled, program, writes>>

(* The handler of the program in ROM: the type, and with a key its code. *)
read_event ==
  /\ cpu = "accepted"
  /\ cpu' = IF event_type = kIOEventKeydown THEN "keydown" ELSE "program"
  /\ unread' = FALSE
  /\ UNCHANGED <<workVars, mainVars, register, event_type, keycode, irq, handled, program, writes>>

(* A slip: the handler clears the flag when it is done. *)
read_keycode_clears ==
  /\ cpu = "keydown"
  /\ handled' = keycode
  /\ cpu' = "program"
  /\ irq' = FALSE
  /\ UNCHANGED <<workVars, mainVars, event_type, keycode, unread, register, program, writes>>

read_keycode ==
  /\ cpu = "keydown"
  /\ handled' = keycode
  /\ cpu' = "program"
  /\ UNCHANGED <<eventVars, workVars, mainVars, register, program, writes>>

(* A program with an illegal opcode ends the CPU thread. *)
halts ==
  /\ cpu # "halted"
  /\ cpu' = "halted"
  /\ UNCHANGED <<eventVars, workVars, mainVars, register, handled, program, writes>>

-----------------------------------------------------------------------------
Worker(i) == worker_test(i) \/ worker_load(i) \/ worker_store(i) \/ worker_raise(i)

(* What the drawing thread does without being woken. *)
Drawing == drawing_sleeps \/ drawing_returns

Main ==
  \/ \E c \in Clocks : start_clock(c)
  \/ start_window
  \/ \E k \in Keys : key_payload(k)
  \/ key_raise
  \/ stop_joins_render \/ stop_notifies \/ stop_joins_drawing
  \/ stop_joins_worker \/ stop_clears
  \/ main_returns

Handler == handle_irq \/ read_event \/ read_keycode

Writing ==
  \/ \E c \in Clocks, v \in {0, 1} : write_clock(c, v)
  \/ \E t \in Timers : write_timer(t)
  \/ \E c \in Counters, v \in {0, 1} : write_counter(c, v)

Running == main \notin {"exited", "aborted"}

ThreadsNext ==
  /\ Running
  /\ \/ Main \/ key_type \/ close_window
     \/ render_returns
     \/ drawing_waits \/ drawing_wakes \/ Drawing
     \/ \E i \in DOMAIN worker_threads : Worker(i)
     \/ Handler \/ Writing \/ halts

ThreadsSpec == ThreadsInit /\ [][ThreadsNext]_threadVars

(***************************************************************************)
(* Every thread that can run does, and a sleep ends.  The handler too: the *)
(* programs of this machine do not mask interrupts for ever.  Nothing      *)
(* presses a key, closes the window, writes a register, commits a method   *)
(* or halts the CPU.                                                       *)
(***************************************************************************)
ThreadsFairness ==
  /\ WF_threadVars(Running /\ Main)
  /\ WF_threadVars(Running /\ render_returns)
  /\ WF_threadVars(Running /\ Drawing)
  /\ \A i \in UNION {1 .. Cardinality(Clocks) + MaxWrites[p] : p \in Programs} :
       WF_threadVars(Running /\ Worker(i))
  /\ WF_threadVars(Running /\ Handler)

-----------------------------------------------------------------------------
(***************************************************************************)
(* An event that was raised is not forgotten: until a handler has read     *)
(* event_type after it, the flag is set or a handler is about to read.     *)
(* The event itself may have been overwritten by a later one (the stores   *)
(* and raises of five kinds of thread, and handle_irq, which clears the    *)
(* flag before the handler reads).                                         *)
(***************************************************************************)
EventNotForgotten == unread => irq \/ cpu \in {"accepted", "halted"}

(***************************************************************************)
(* Once stop has returned the IO chip raises no event any more, whatever   *)
(* was running before and whatever timers and counters the program, which  *)
(* runs on, starts afterwards (stop's joins, and the tests of shutdown     *)
(* after the sleep of a timer and before that of a counter).               *)
(***************************************************************************)
StopSilences ==
  main \in {"join_cpu", "exited"} =>
    \A i \in DOMAIN worker_threads : worker_threads[i].at \notin {"store", "raise"}

(***************************************************************************)
(* A key press is handled with its own code, even if a handler that ran    *)
(* for another source has already seen its type with an older code, unless *)
(* another event or another key is stored over it (the event loop of       *)
(* start).                                                                 *)
(***************************************************************************)
KeyHandled ==
  \A k \in Keys :
    (main = "key_raise" /\ keycode = k)
      ~> (handled = k \/ event_type # kIOEventKeydown \/ keycode # k \/ cpu = "halted" \/ ~Running)

(***************************************************************************)
(* A clock that stays switched on, with no other periodic source on, is    *)
(* seen by the handler again and again, although it may have been off and  *)
(* although timers and keys overwrite its event (thread_clock).            *)
(***************************************************************************)
ClockServed ==
  \A c \in Clocks :
    <>[](/\ Running /\ ~shutdown /\ cpu # "halted"
         /\ \A r \in Clocks \cup Counters : (register[r] # 0) <=> (r = c))
      => []<><<read_event /\ event_type = EventOf(c)>>_threadVars

(***************************************************************************)
(* A clock or counter whose register stays 0 becomes silent: "A counter    *)
(* can be cancelled while running by writing 0 to memory", also one that   *)
(* several writes started several threads for (thread_clock,               *)
(* thread_counter).                                                        *)
(***************************************************************************)
SwitchedOffStops ==
  \A r \in Clocks \cup Counters :
    <>[](register[r] = 0 /\ Running) =>
      <>[](\A i \in DOMAIN worker_threads :
             worker_threads[i].source = r => worker_threads[i].at \notin {"store", "raise"})

(***************************************************************************)
(* stop gets as far as its notification of the drawing thread; and if that *)
(* does not fall between the predicate and the sleep of thread_drawing -   *)
(* when it is lost and the join blocks for ever - stop returns, whatever   *)
(* the threads were doing when the window was closed, unless a timer or    *)
(* counter started meanwhile ends the program (the joins of stop).         *)
(***************************************************************************)
StopReturns ==
  /\ main = "join_render" ~> main \in {"notify_draw", "aborted"}
  /\ (main = "notify_draw" /\ drawing_thread # "sleep") ~> main \in {"join_cpu", "aborted"}
=============================================================================
