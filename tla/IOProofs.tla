------------------------------ MODULE IOProofs ------------------------------
(***************************************************************************)
(* Proofs about the event sources, the lifecycle and the audio channels,   *)
(* for any programs, keys and settings and any number of writes: a raised  *)
(* event is not forgotten, stop silences every source and destroys no      *)
(* running thread, and a sole channel sounds as it was set.                *)
(***************************************************************************)
EXTENDS IOChip, BytesProofs

-----------------------------------------------------------------------------
(* A raised event is not forgotten. *)

(* The steps of the drawing thread. *)
DrawingStep == drawing_waits \/ drawing_wakes \/ Drawing

(* They change the place of that thread and nothing else. *)
LEMMA DrawingAlone ==
  DrawingStep => /\ Draws /\ drawing_thread' \in DrawingPlace
                 /\ UNCHANGED <<eventVars, mainVars, cpuVars, worker_threads, render_thread>>
  BY DEF DrawingStep, Drawing, drawing_waits, drawing_wakes, drawing_sleeps, drawing_returns, Draws,
         DrawingPlace

(* EventNotForgotten is inductive. *)
LEMMA NotForgottenStep == EventNotForgotten /\ [Next]_ioVars => EventNotForgotten'
<1> SUFFICES ASSUME EventNotForgotten, [Next]_ioVars PROVE EventNotForgotten'
  OBVIOUS
<1> USE DEF EventNotForgotten
<1>1. CASE Main
  <2>1. CASE key_raise
    BY <2>1 DEF key_raise
  <2>2. CASE UNCHANGED <<eventVars, cpuVars>>
    BY <2>2 DEF eventVars, cpuVars
  <2>3. ASSUME NEW k \in Keys, key_payload(k) PROVE EventNotForgotten'
    BY <2>3 DEF key_payload, cpuVars
  <2> QED
    BY <1>1, <2>1, <2>2, <2>3
       DEF Main, start_clock, start_window, stop_joins_render, stop_notifies, stop_joins_drawing,
           stop_joins_worker, stop_clears, main_returns
<1>2. CASE key_type \/ close_window \/ render_returns \/ DrawingStep
  BY <1>2, DrawingAlone DEF key_type, close_window, render_returns, eventVars, cpuVars
<1>3. ASSUME NEW i \in DOMAIN worker_threads, Worker(i) PROVE EventNotForgotten'
  BY <1>3 DEF Worker, worker_test, worker_load, worker_store, worker_raise, eventVars, cpuVars
<1>4. CASE Handler
  BY <1>4 DEF Handler, handle_irq, read_event, read_keycode, eventVars
<1>5. CASE Writing \/ halts
  BY <1>5 DEF Writing, write_clock, write_timer, write_counter, halts, eventVars
<1>6. CASE \E c \in Channels, value \in AudioSettings : write_channel(c, value)
  BY <1>6 DEF write_channel, eventVars
<1>7. CASE UNCHANGED ioVars
  BY <1>7 DEF ioVars, threadVars, eventVars, cpuVars
<1> QED
  BY <1>1, <1>2, <1>3, <1>4, <1>5, <1>6, <1>7 DEF Next, ThreadsNext, DrawingStep

(***************************************************************************)
(* In every interleaving of the sources, the CPU and the handler, an event *)
(* that was raised and not read yet has the flag set or a handler about to *)
(* read it (handle_irq clears the flag before the handler runs).           *)
(***************************************************************************)
THEOREM NotForgotten == Spec => []EventNotForgotten
<1>1. Init => EventNotForgotten
  BY DEF Init, ThreadsInit, EventNotForgotten
<1> QED
  BY <1>1, NotForgottenStep, PTL DEF Spec

-----------------------------------------------------------------------------
(***************************************************************************)
(* stop silences the sources.  The invariant: once main has left the event *)
(* loop shutdown is set for good, and once stop has returned only timers   *)
(* and counters are left, the threads that were started since, none of     *)
(* them past its test of shutdown.                                         *)
(***************************************************************************)
Worker_threads == worker_threads \in Seq([source : Sources, at : WorkerPlace])

Stopping ==
  main \in {"join_render", "notify_draw", "join_drawing", "join_workers", "join_cpu", "exited"}
    => shutdown

NoneRaises ==
  main \in {"join_cpu", "exited"} =>
    \A i \in DOMAIN worker_threads :
      worker_threads[i].source \notin Clocks /\ worker_threads[i].at \in {"test", "load", "returned"}

StopInv == Worker_threads /\ Stopping /\ NoneRaises

(* The registers of the three kinds are different. *)
LEMMA KindsDisjoint == Clocks \cap Timers = {} /\ Clocks \cap Counters = {}
<1>1. \A a \in {\h906, \h907}, b \in {\h910, \h912, \h914, \h915} : a # b
  BY SMT
<1> QED
  BY <1>1, ThreadsAssumption
     DEF ThreadsAssumption, kIOClock1, kIOClock2, kIOTimer1Lo, kIOTimer2Lo, kIOCounter1, kIOCounter2

(* One more thread. *)
LEMMA AppendThread ==
  ASSUME NEW S, NEW s \in Seq(S), NEW t \in S
  PROVE  /\ Append(s, t) \in Seq(S)
         /\ \A i \in DOMAIN Append(s, t) :
              Append(s, t)[i] = t \/ (i \in DOMAIN s /\ Append(s, t)[i] = s[i])
OBVIOUS

(* A thread that goes on. *)
LEMMA GotoThread ==
  ASSUME Worker_threads, NEW i \in DOMAIN worker_threads, NEW place \in WorkerPlace, Goto(i, place)
  PROVE  /\ Worker_threads'
         /\ DOMAIN worker_threads' = DOMAIN worker_threads
         /\ worker_threads'[i].source = worker_threads[i].source /\ worker_threads'[i].at = place
         /\ \A j \in DOMAIN worker_threads : j # i => worker_threads'[j] = worker_threads[j]
<1> DEFINE T == [source : Sources, at : WorkerPlace]
           t == [worker_threads[i] EXCEPT !.at = place]
<1>1. worker_threads \in Seq(T) /\ worker_threads[i] \in T
  <2>1. \A S : \A q \in Seq(S) : \A j \in DOMAIN q : q[j] \in S
    OBVIOUS
  <2>2. worker_threads \in Seq(T)
    BY DEF Worker_threads
  <2> HIDE DEF T
  <2> QED
    BY <2>1, <2>2
<1>2. t \in T /\ t.source = worker_threads[i].source /\ t.at = place
  <2>1. ASSUME NEW u \in T
        PROVE  /\ [u EXCEPT !.at = place] \in T
               /\ [u EXCEPT !.at = place].source = u.source
               /\ [u EXCEPT !.at = place].at = place
    OBVIOUS
  <2> QED
    BY <1>1, <2>1
<1>3. worker_threads' = [worker_threads EXCEPT ![i] = t]
  BY DEF Goto
<1> HIDE DEF T, t
<1>4. worker_threads' \in Seq(T)
  BY <1>1, <1>2, <1>3
<1>5. worker_threads'[i] = t
  BY <1>1, <1>3
<1> QED
  BY <1>1, <1>2, <1>3, <1>4, <1>5 DEF Worker_threads, T

(* Steps that leave the threads alone, and those that start one. *)
LEMMA StopInvKept ==
  ASSUME StopInv, UNCHANGED worker_threads, UNCHANGED main, UNCHANGED shutdown
  PROVE  StopInv'
BY DEF StopInv, Worker_threads, Stopping, NoneRaises

(* Starting a thread keeps the invariant. *)
LEMMA StopInvStarting ==
  ASSUME StopInv, UNCHANGED shutdown, main' = main \/ main' = "aborted",
         NEW t \in [source : Sources, at : WorkerPlace], t.at \in {"test", "load"},
         main = "starting" \/ t.source \notin Clocks,
         UNCHANGED worker_threads \/ worker_threads' = Append(worker_threads, t)
  PROVE  StopInv'
<1>1. Worker_threads'
  <2> DEFINE T == [source : Sources, at : WorkerPlace]
  <2>1. worker_threads \in Seq(T) /\ t \in T
    BY DEF StopInv, Worker_threads
  <2> HIDE DEF T
  <2>2. worker_threads' \in Seq(T)
    BY <2>1, AppendThread
  <2> QED
    BY <2>2 DEF Worker_threads, T
<1>2. Stopping'
  BY DEF StopInv, Stopping
<1>3. NoneRaises'
  <2> SUFFICES ASSUME main' \in {"join_cpu", "exited"}, NEW i \in DOMAIN worker_threads'
               PROVE  /\ worker_threads'[i].source \notin Clocks
                      /\ worker_threads'[i].at \in {"test", "load", "returned"}
    BY DEF NoneRaises
  <2>1. main = main' /\ t.source \notin Clocks
    OBVIOUS
  <2>2. worker_threads'[i] = t \/ (i \in DOMAIN worker_threads /\ worker_threads'[i] = worker_threads[i])
    <3> DEFINE T == [source : Sources, at : WorkerPlace]
    <3>1. worker_threads \in Seq(T) /\ t \in T
      BY DEF StopInv, Worker_threads
    <3> HIDE DEF T
    <3> QED
      BY <3>1, AppendThread
  <2> QED
    BY <2>1, <2>2 DEF StopInv, NoneRaises
<1> QED
  BY <1>1, <1>2, <1>3 DEF StopInv

(* Each kind of step keeps the invariant. *)
LEMMA StopInvMain == StopInv /\ Main => StopInv'
<1> SUFFICES ASSUME StopInv, Main PROVE StopInv'
  OBVIOUS
<1>1. ASSUME NEW c \in Clocks, start_clock(c) PROVE StopInv'
  <2> DEFINE t == [source |-> c, at |-> "test"]
  <2>1. t \in [source : Sources, at : WorkerPlace] /\ t.at \in {"test", "load"}
    BY DEF Sources, WorkerPlace
  <2>2. /\ main = "starting" /\ main' = main /\ UNCHANGED shutdown
        /\ worker_threads' = Append(worker_threads, t)
    BY <1>1 DEF start_clock, mainVars
  <2> HIDE DEF t
  <2> QED
    BY <2>1, <2>2, StopInvStarting
<1>2. CASE start_window \/ key_raise \/ \E k \in Keys : key_payload(k)
  BY <1>2 DEF start_window, key_raise, key_payload, workVars, StopInv, Worker_threads, Stopping,
              NoneRaises
<1>3. CASE stop_joins_render \/ stop_notifies \/ stop_joins_drawing \/ stop_joins_worker
  BY <1>3 DEF stop_joins_render, stop_notifies, stop_joins_drawing, stop_joins_worker, workVars,
              StopInv, Worker_threads, Stopping, NoneRaises
<1>4. CASE stop_clears
  BY <1>4 DEF stop_clears, Destroy, StopInv, Worker_threads, Stopping, NoneRaises
<1>5. CASE main_returns
  BY <1>5 DEF main_returns, Destroy, workVars, StopInv, Worker_threads, Stopping, NoneRaises
<1> QED
  BY <1>1, <1>2, <1>3, <1>4, <1>5 DEF Main

(* A thread that goes on to a place it may be in after stop. *)
LEMMA StopInvGoto ==
  ASSUME StopInv, UNCHANGED main, UNCHANGED shutdown, NEW i \in DOMAIN worker_threads,
         NEW place \in WorkerPlace, Goto(i, place),
         main \in {"join_cpu", "exited"} => place \in {"test", "load", "returned"}
  PROVE  StopInv'
<1>1. Worker_threads
  BY DEF StopInv
<1>2. /\ Worker_threads'
      /\ DOMAIN worker_threads' = DOMAIN worker_threads
      /\ worker_threads'[i].source = worker_threads[i].source /\ worker_threads'[i].at = place
      /\ \A j \in DOMAIN worker_threads : j # i => worker_threads'[j] = worker_threads[j]
  BY <1>1, GotoThread
<1> QED
  BY <1>2 DEF StopInv, Stopping, NoneRaises

(* And so does a step of a thread. *)
LEMMA StopInvWorker ==
  ASSUME StopInv, NEW i \in DOMAIN worker_threads, Worker(i)
  PROVE  StopInv'
<1> DEFINE late == main \in {"join_cpu", "exited"}
<1>1. /\ late => shutdown
      /\ late => /\ worker_threads[i].source \notin Clocks
                 /\ worker_threads[i].at \in {"test", "load", "returned"}
  BY DEF StopInv, Stopping, NoneRaises
<1>2. UNCHANGED main /\ UNCHANGED shutdown
  BY DEF Worker, worker_test, worker_load, worker_store, worker_raise, mainVars
<1>3. ASSUME NEW place \in WorkerPlace, Goto(i, place), late => place \in {"test", "load", "returned"}
      PROVE  StopInv'
  BY <1>2, <1>3, StopInvGoto
<1>4. CASE worker_test(i)
  BY <1>1, <1>3, <1>4 DEF worker_test, WorkerPlace
<1>5. CASE worker_load(i)
  BY <1>1, <1>3, <1>5 DEF worker_load, WorkerPlace
<1>6. CASE worker_store(i)
  BY <1>1, <1>3, <1>6 DEF worker_store, At, WorkerPlace
<1>7. CASE worker_raise(i)
  BY <1>1, <1>3, <1>7 DEF worker_raise, At, AfterRaise, WorkerPlace
<1> QED
  BY <1>4, <1>5, <1>6, <1>7 DEF Worker

(* And so does a write of the program. *)
LEMMA StopInvWriting == StopInv /\ Writing => StopInv'
<1> SUFFICES ASSUME StopInv, Writing PROVE StopInv'
  OBVIOUS
<1>1. ASSUME NEW c \in Clocks, NEW v \in {0, 1}, write_clock(c, v) PROVE StopInv'
  BY <1>1, StopInvKept DEF write_clock, workVars, mainVars
<1>2. ASSUME NEW s \in Timers \cup Counters, NEW place \in {"test", "load"}, UNCHANGED shutdown,
             push_back([source |-> s, at |-> place])
      PROVE  StopInv'
  <2> DEFINE t == [source |-> s, at |-> place]
  <2>1. t \in [source : Sources, at : WorkerPlace] /\ t.at \in {"test", "load"}
    BY DEF Sources, WorkerPlace
  <2>2. t.source \notin Clocks
    BY KindsDisjoint
  <2>3. /\ main' = main \/ main' = "aborted"
        /\ UNCHANGED worker_threads \/ worker_threads' = Append(worker_threads, t)
    BY <1>2 DEF push_back
  <2> HIDE DEF t
  <2> QED
    BY <1>2, <2>1, <2>2, <2>3, StopInvStarting
<1>3. ASSUME NEW t \in Timers, write_timer(t) PROVE StopInv'
  BY <1>2, <1>3 DEF write_timer
<1>4. ASSUME NEW c \in Counters, NEW v \in {0, 1}, write_counter(c, v) PROVE StopInv'
  BY <1>2, <1>4 DEF write_counter
<1> QED
  BY <1>1, <1>3, <1>4 DEF Writing

(* And so does every step. *)
LEMMA StopInvStep == StopInv /\ [Next]_ioVars => StopInv'
<1> SUFFICES ASSUME StopInv, [Next]_ioVars PROVE StopInv'
  OBVIOUS
<1>1. CASE key_type \/ close_window
  BY <1>1 DEF key_type, close_window, workVars, StopInv, Worker_threads, Stopping, NoneRaises
<1>2. CASE render_returns \/ DrawingStep \/ Handler \/ halts
  BY <1>2, StopInvKept, DrawingAlone
     DEF render_returns, Handler, handle_irq, read_event, read_keycode, halts, workVars, mainVars
<1>3. CASE \E c \in Channels, value \in AudioSettings : write_channel(c, value)
  BY <1>3, StopInvKept DEF write_channel, workVars, mainVars
<1>4. CASE UNCHANGED ioVars
  BY <1>4, StopInvKept DEF ioVars, threadVars, workVars, mainVars
<1> QED
  BY <1>1, <1>2, <1>3, <1>4, StopInvMain, StopInvWorker, StopInvWriting
     DEF Next, ThreadsNext, DrawingStep

(* So it always holds. *)
LEMMA AlwaysStop == Spec => []StopInv
<1>1. Init => StopInv
  BY DEF Init, ThreadsInit, StopInv, Worker_threads, Stopping, NoneRaises
<1> QED
  BY <1>1, StopInvStep, PTL DEF Spec

(***************************************************************************)
(* Once stop has returned no source raises an event, for any number of     *)
(* timers and counters that are asleep or started later (stop's joins and  *)
(* the tests of shutdown in thread_timer and thread_counter).              *)
(***************************************************************************)
THEOREM Silenced == Spec => []StopSilences
<1>1. StopInv => StopSilences
  BY DEF StopInv, NoneRaises, StopSilences
<1> QED
  BY <1>1, AlwaysStop, PTL

-----------------------------------------------------------------------------
(***************************************************************************)
(* The types, and the joins of stop.  All of ThreadsTypeOK but the vector, *)
(* which StopInv has.                                                      *)
(***************************************************************************)
EventTypes ==
  /\ event_type \in {kIOEventUnspecified, kIOEventKeydown} \cup {EventOf(s) : s \in Sources}
  /\ keycode \in Keys \cup {0} /\ irq \in BOOLEAN /\ unread \in BOOLEAN

MainTypes ==
  /\ main \in MainPlace /\ shutdown \in BOOLEAN
  /\ joined \in [done : Nat, end : Nat] /\ keys \in 0 .. MaxKeys[program]

ProgramTypes ==
  /\ register \in [Clocks \cup Counters -> {0, 1}]
  /\ cpu \in {"program", "accepted", "keydown", "halted"} /\ handled \in Keys \cup {0}
  /\ program \in Programs /\ writes \in 0 .. MaxWrites[program]

RenderTypes ==
  render_thread \in {"unstarted", "running", "returned"} /\ drawing_thread \in DrawingPlace

ThreadTypes == EventTypes /\ MainTypes /\ ProgramTypes /\ RenderTypes

(* What a thread and the handler keep. *)
LEMMA EventTypesStep == ThreadTypes /\ Worker_threads /\ [Next]_ioVars => EventTypes'
<1> SUFFICES ASSUME EventTypes, Worker_threads, [Next]_ioVars
             PROVE  EventTypes'
  BY DEF ThreadTypes
<1> USE DEF EventTypes
<1>1. CASE Main
  <2>1. CASE UNCHANGED eventVars
    BY <2>1 DEF eventVars
  <2>2. CASE key_raise
    BY <2>2 DEF key_raise
  <2>3. ASSUME NEW k \in Keys, key_payload(k)
        PROVE  EventTypes'
    BY <2>3 DEF key_payload
  <2> QED
    BY <1>1, <2>1, <2>2, <2>3
       DEF Main, start_clock, start_window, stop_joins_render, stop_notifies, stop_joins_drawing,
           stop_joins_worker, stop_clears, main_returns
<1>2. CASE key_type
  BY <1>2 DEF key_type
<1>3. CASE close_window \/ render_returns \/ DrawingStep
  BY <1>3, DrawingAlone DEF close_window, render_returns, eventVars
<1>4. ASSUME NEW i \in DOMAIN worker_threads, Worker(i)
      PROVE  EventTypes'
  <2>1. worker_threads[i].source \in Sources
    <3> DEFINE T == [source : Sources, at : WorkerPlace]
    <3>1. worker_threads \in Seq(T)
      BY DEF Worker_threads
    <3>2. worker_threads[i] \in T
      <4>1. \A S : \A q \in Seq(S) : \A j \in DOMAIN q : q[j] \in S
        OBVIOUS
      <4> HIDE DEF T
      <4> QED
        BY <3>1, <4>1
    <3> QED
      BY <3>2
  <2> QED
    BY <1>4, <2>1 DEF Worker, worker_test, worker_load, worker_store, worker_raise, eventVars
<1>5. CASE Handler
  BY <1>5 DEF Handler, handle_irq, read_event, read_keycode, eventVars
<1>6. CASE Writing \/ halts
  BY <1>6 DEF Writing, write_clock, write_timer, write_counter, halts, eventVars
<1>7. CASE \E c \in Channels, value \in AudioSettings : write_channel(c, value)
  BY <1>7 DEF write_channel, eventVars
<1>8. CASE UNCHANGED ioVars
  BY <1>8 DEF ioVars, threadVars, eventVars
<1> QED
  BY <1>1, <1>2, <1>3, <1>4, <1>5, <1>6, <1>7, <1>8 DEF Next, ThreadsNext, DrawingStep

(* The program in ROM does not change. *)
LEMMA ProgramKept == [Next]_ioVars => program' = program
<1> SUFFICES ASSUME [Next]_ioVars PROVE program' = program
  OBVIOUS
<1>1. CASE UNCHANGED cpuVars
  BY <1>1 DEF cpuVars
<1>2. CASE Main \/ key_type \/ close_window \/ render_returns \/ DrawingStep
  BY <1>1, <1>2, DrawingAlone
     DEF Main, start_clock, start_window, key_payload, key_raise, stop_joins_render, stop_notifies,
         stop_joins_drawing, stop_joins_worker, stop_clears, main_returns, key_type, close_window,
         render_returns
<1>3. ASSUME NEW i \in DOMAIN worker_threads, Worker(i) PROVE program' = program
  BY <1>1, <1>3 DEF Worker, worker_test, worker_load, worker_store, worker_raise
<1>4. CASE Handler \/ Writing \/ halts
  BY <1>4 DEF Handler, handle_irq, read_event, read_keycode, Writing, Writes, write_clock,
              write_timer, write_counter, halts
<1>5. CASE \E c \in Channels, value \in AudioSettings : write_channel(c, value)
  BY <1>5 DEF write_channel, Writes
<1>6. CASE UNCHANGED ioVars
  BY <1>1, <1>6 DEF ioVars, threadVars
<1> QED
  BY <1>2, <1>3, <1>4, <1>5, <1>6 DEF Next, ThreadsNext, DrawingStep

(* What the main thread keeps. *)
LEMMA MainTypesStep == ThreadTypes /\ Worker_threads /\ [Next]_ioVars => MainTypes'
<1> SUFFICES ASSUME MainTypes, program \in Programs, program' = program, Worker_threads,
                    [Next]_ioVars
             PROVE  MainTypes'
  BY ProgramKept DEF ThreadTypes, ProgramTypes
<1> USE DEF MainTypes
<1>1. CASE UNCHANGED mainVars
  BY <1>1 DEF mainVars
<1>2. CASE Main
  <2>1. CASE start_window \/ key_raise \/ main_returns \/ stop_clears \/ \E k \in Keys : key_payload(k)
    BY <2>1 DEF start_window, key_raise, main_returns, stop_clears, key_payload, Destroy, MainPlace
  <2>2. CASE stop_joins_drawing
    <3>1. Len(worker_threads) \in Nat
      BY DEF Worker_threads
    <3> QED
      BY <2>2, <3>1 DEF stop_joins_drawing, MainPlace
  <2>3. CASE stop_joins_worker
    BY <2>3 DEF stop_joins_worker
  <2>4. CASE stop_joins_render \/ stop_notifies
    BY <2>4 DEF stop_joins_render, stop_notifies, MainPlace
  <2> QED
    BY <1>1, <1>2, <2>1, <2>2, <2>3, <2>4 DEF Main, start_clock
<1>3. CASE key_type
  <2>1. MaxKeys[program] \in Nat
    BY ThreadsAssumption DEF ThreadsAssumption
  <2> QED
    BY <1>3, <2>1 DEF key_type, MainPlace
<1>4. CASE close_window
  BY <1>4 DEF close_window, MainPlace
<1>5. CASE render_returns \/ DrawingStep \/ Handler \/ halts
  BY <1>1, <1>5, DrawingAlone
     DEF render_returns, Handler, handle_irq, read_event, read_keycode, halts
<1>6. ASSUME NEW i \in DOMAIN worker_threads, Worker(i)
      PROVE  MainTypes'
  BY <1>1, <1>6 DEF Worker, worker_test, worker_load, worker_store, worker_raise
<1>7. CASE Writing
  <2>1. UNCHANGED <<shutdown, joined, keys>> /\ (main' = main \/ main' = "aborted")
    BY <1>7 DEF Writing, write_clock, write_timer, write_counter, push_back, mainVars
  <2> QED
    BY <2>1 DEF MainPlace
<1>8. CASE \E c \in Channels, value \in AudioSettings : write_channel(c, value)
  BY <1>1, <1>8 DEF write_channel
<1>9. CASE UNCHANGED ioVars
  BY <1>1, <1>9 DEF ioVars, threadVars
<1> QED
  BY <1>2, <1>3, <1>4, <1>5, <1>6, <1>7, <1>8, <1>9 DEF Next, ThreadsNext, DrawingStep

(* What the program keeps. *)
LEMMA ProgramTypesStep == ThreadTypes /\ [Next]_ioVars => ProgramTypes'
<1> SUFFICES ASSUME ThreadTypes, ProgramTypes, [Next]_ioVars
             PROVE  ProgramTypes'
  BY DEF ThreadTypes
<1>1. CASE UNCHANGED cpuVars
  BY <1>1 DEF ProgramTypes, cpuVars
<1>2. CASE Main \/ key_type \/ close_window \/ render_returns \/ DrawingStep
  BY <1>1, <1>2, DrawingAlone
     DEF Main, start_clock, start_window, key_payload, key_raise, stop_joins_render, stop_notifies,
         stop_joins_drawing, stop_joins_worker, stop_clears, main_returns, key_type, close_window,
         render_returns
<1>3. ASSUME NEW i \in DOMAIN worker_threads, Worker(i)
      PROVE  ProgramTypes'
  BY <1>1, <1>3 DEF Worker, worker_test, worker_load, worker_store, worker_raise
<1>4. CASE Handler \/ halts
  BY <1>4 DEF Handler, handle_irq, read_event, read_keycode, halts, ThreadTypes, EventTypes,
              ProgramTypes
<1>5. ASSUME NEW r, Writes(r)
      PROVE  program' = program /\ writes' \in 0 .. MaxWrites[program]
  <2>1. MaxWrites[program] \in Nat
    BY ThreadsAssumption DEF ThreadsAssumption, ProgramTypes
  <2> QED
    BY <1>5, <2>1 DEF Writes, ProgramTypes
<1>6. ASSUME NEW c \in Clocks \cup Counters, NEW v \in {0, 1},
             register' = [register EXCEPT ![c] = v]
      PROVE  register' \in [Clocks \cup Counters -> {0, 1}]
  BY <1>6 DEF ProgramTypes
<1>7. CASE Writing
  <2>1. ASSUME NEW c \in Clocks, NEW v \in {0, 1}, write_clock(c, v)
        PROVE  ProgramTypes'
    BY <1>5, <1>6, <2>1 DEF write_clock, ProgramTypes
  <2>2. ASSUME NEW t \in Timers, write_timer(t)
        PROVE  ProgramTypes'
    BY <1>5, <2>2 DEF write_timer, ProgramTypes
  <2>3. ASSUME NEW c \in Counters, NEW v \in {0, 1}, write_counter(c, v)
        PROVE  ProgramTypes'
    BY <1>5, <1>6, <2>3 DEF write_counter, ProgramTypes
  <2> QED
    BY <1>7, <2>1, <2>2, <2>3 DEF Writing
<1>8. CASE \E c \in Channels, value \in AudioSettings : write_channel(c, value)
  BY <1>5, <1>8 DEF write_channel, ProgramTypes
<1>9. CASE UNCHANGED ioVars
  BY <1>1, <1>9 DEF ioVars, threadVars
<1> QED
  BY <1>2, <1>3, <1>4, <1>7, <1>8, <1>9 DEF Next, ThreadsNext, DrawingStep

(* The rendering and the drawing thread are started once, and change themselves but for stop. *)
LEMMA RenderTypesStep == ThreadTypes /\ [Next]_ioVars => RenderTypes'
<1> SUFFICES ASSUME RenderTypes, [Next]_ioVars
             PROVE  RenderTypes'
  BY DEF ThreadTypes
<1>1. CASE UNCHANGED <<render_thread, drawing_thread>>
  BY <1>1 DEF RenderTypes
<1>2. CASE render_returns \/ DrawingStep
  BY <1>2, DrawingAlone DEF render_returns, RenderTypes
<1>3. CASE Main \/ key_type \/ close_window
  <2>1. CASE start_window \/ stop_notifies
    BY <2>1 DEF start_window, stop_notifies, RenderTypes, DrawingPlace
  <2> QED
    BY <1>1, <1>3, <2>1
       DEF Main, start_clock, key_payload, key_raise, stop_joins_render, stop_joins_drawing,
           stop_joins_worker, stop_clears, main_returns, key_type, close_window, workVars
<1>4. ASSUME NEW i \in DOMAIN worker_threads, Worker(i)
      PROVE  UNCHANGED <<render_thread, drawing_thread>>
  BY <1>4 DEF Worker, worker_test, worker_load, worker_store, worker_raise
<1>5. CASE Handler \/ Writing \/ halts
  BY <1>1, <1>5 DEF Handler, handle_irq, read_event, read_keycode, Writing, write_clock,
                    write_timer, write_counter, halts, workVars
<1>6. CASE \E c \in Channels, value \in AudioSettings : write_channel(c, value)
  BY <1>1, <1>6 DEF write_channel, workVars
<1>7. CASE UNCHANGED ioVars
  BY <1>1, <1>7 DEF ioVars, threadVars, workVars
<1> QED
  BY <1>1, <1>2, <1>3, <1>4, <1>5, <1>6, <1>7 DEF Next, ThreadsNext, DrawingStep

(* The types hold at the start. *)
LEMMA ThreadTypesInit == Init => ThreadTypes
<1> SUFFICES ASSUME Init
             PROVE  ThreadTypes
  OBVIOUS
<1>1. program \in Programs /\ MaxWrites[program] \in Nat
  BY ThreadsAssumption DEF Init, ThreadsInit, ThreadsAssumption
<1>2. EventTypes
  BY DEF Init, ThreadsInit, EventTypes
<1>3. MainTypes
  <2>1. MaxKeys[program] \in Nat /\ 0 \in 0 .. MaxKeys[program]
    BY <1>1, ThreadsAssumption DEF ThreadsAssumption
  <2>2. main = "starting" /\ shutdown = FALSE /\ joined = [done |-> 0, end |-> 0] /\ keys = 0
    BY DEF Init, ThreadsInit
  <2>3. joined \in [done : Nat, end : Nat]
    BY <2>2
  <2> QED
    BY <2>1, <2>2, <2>3 DEF MainTypes, MainPlace
<1>4. ProgramTypes
  BY <1>1 DEF Init, ThreadsInit, ProgramTypes
<1>5. RenderTypes
  BY DEF Init, ThreadsInit, RenderTypes, DrawingPlace
<1> QED
  BY <1>2, <1>3, <1>4, <1>5 DEF ThreadTypes

(* So they always hold. *)
LEMMA AlwaysTyped == Spec => []ThreadTypes
<1>1. ThreadTypes /\ StopInv /\ [Next]_ioVars => ThreadTypes'
  BY EventTypesStep, MainTypesStep, ProgramTypesStep, RenderTypesStep DEF StopInv, ThreadTypes
<1> QED
  BY <1>1, ThreadTypesInit, AlwaysStop, PTL DEF Spec

(***************************************************************************)
(* The variables of the threads keep their types, for any programs, keys   *)
(* and numbers of writes: event_type holds the event of a source in use,   *)
(* and the vector only threads of such sources.                            *)
(***************************************************************************)
THEOREM ThreadsTypeCorrect == Spec => []ThreadsTypeOK
<1>1. ThreadTypes /\ StopInv => ThreadsTypeOK
  BY DEF ThreadTypes, EventTypes, MainTypes, ProgramTypes, RenderTypes, StopInv, Worker_threads,
         ThreadsTypeOK
<1> QED
  BY <1>1, AlwaysTyped, AlwaysStop, PTL

(***************************************************************************)
(* The loop of stop stays within the vector although the program on the    *)
(* CPU appends to it, and a thread that was joined does not run again.     *)
(***************************************************************************)
Joined ==
  /\ joined.done <= joined.end /\ joined.end <= Len(worker_threads)
  /\ \A i \in 1 .. joined.done : worker_threads[i].at = "returned"

JoinsDone == main = "join_workers" => Joined

(* A thread that goes on was not joined. *)
LEMMA JoinsDoneWorker ==
  ASSUME JoinsDone, ThreadTypes, Worker_threads, NEW i \in DOMAIN worker_threads, Worker(i)
  PROVE  JoinsDone'
<1>1. UNCHANGED <<main, joined>> /\ worker_threads[i].at # "returned"
  BY DEF Worker, worker_test, worker_load, worker_store, worker_raise, mainVars, At
<1>2. PICK place \in WorkerPlace : Goto(i, place)
  BY DEF Worker, worker_test, worker_load, worker_store, worker_raise, AfterRaise, WorkerPlace
<1>3. /\ Worker_threads' /\ DOMAIN worker_threads' = DOMAIN worker_threads
      /\ \A j \in DOMAIN worker_threads : j # i => worker_threads'[j] = worker_threads[j]
  BY <1>2, GotoThread
<1>4. /\ Len(worker_threads) \in Nat /\ Len(worker_threads') = Len(worker_threads)
      /\ DOMAIN worker_threads = 1 .. Len(worker_threads)
  BY <1>3 DEF Worker_threads
<1>5. joined.done \in Nat /\ joined.end \in Nat
  BY DEF ThreadTypes, MainTypes
<1> QED
  BY <1>1, <1>3, <1>4, <1>5 DEF JoinsDone, Joined

(* A thread started while stop joins comes behind those it joins. *)
LEMMA JoinsDoneAppend ==
  ASSUME JoinsDone, ThreadTypes, Worker_threads, UNCHANGED joined,
         main' = "join_workers" => main' = main,
         NEW t \in [source : Sources, at : WorkerPlace],
         UNCHANGED worker_threads \/ worker_threads' = Append(worker_threads, t)
  PROVE  JoinsDone'
<1>1. /\ Len(worker_threads) \in Nat /\ Len(worker_threads') >= Len(worker_threads)
      /\ \A i \in 1 .. Len(worker_threads) : worker_threads'[i] = worker_threads[i]
  BY DEF Worker_threads
<1>2. joined.done \in Nat /\ joined.end \in Nat
  BY DEF ThreadTypes, MainTypes
<1> QED
  BY <1>1, <1>2 DEF JoinsDone, Joined

(* Every step keeps it. *)
LEMMA JoinsDoneStep == JoinsDone /\ ThreadTypes /\ Worker_threads /\ [Next]_ioVars => JoinsDone'
<1> SUFFICES ASSUME JoinsDone, ThreadTypes, Worker_threads, [Next]_ioVars
             PROVE  JoinsDone'
  OBVIOUS
<1>1. CASE UNCHANGED <<worker_threads, main, joined>>
  BY <1>1 DEF JoinsDone, Joined
<1>2. CASE main' # "join_workers"
  BY <1>2 DEF JoinsDone
<1>3. CASE Main
  <2>1. CASE \/ start_window \/ key_raise \/ stop_joins_render \/ stop_notifies
             \/ \E k \in Keys : key_payload(k)
    BY <1>2, <2>1 DEF start_window, key_raise, key_payload, stop_joins_render, stop_notifies
  <2>2. CASE stop_clears \/ main_returns
    BY <1>2, <2>2 DEF stop_clears, main_returns, Destroy
  <2>3. CASE stop_joins_drawing
    <3>1. /\ joined' = [done |-> 0, end |-> Len(worker_threads)]
          /\ worker_threads' = worker_threads /\ Len(worker_threads) \in Nat
      BY <2>3 DEF stop_joins_drawing, workVars, Worker_threads
    <3> QED
      BY <3>1 DEF JoinsDone, Joined
  <2>4. CASE stop_joins_worker
    <3>1. /\ main = "join_workers" /\ joined.done < joined.end
          /\ worker_threads[joined.done + 1].at = "returned"
          /\ joined' = [joined EXCEPT !.done = @ + 1] /\ worker_threads' = worker_threads
      BY <2>4 DEF stop_joins_worker, workVars
    <3>2. joined.done \in Nat /\ joined.end \in Nat
          /\ joined'.done = joined.done + 1 /\ joined'.end = joined.end
      BY <3>1 DEF ThreadTypes, MainTypes
    <3>3. Joined
      BY <3>1 DEF JoinsDone
    <3>4. \A i \in 1 .. joined.done + 1 : i \in 1 .. joined.done \/ i = joined.done + 1
      BY <3>2
    <3> QED
      BY <3>1, <3>2, <3>3, <3>4 DEF JoinsDone, Joined
  <2>5. ASSUME NEW c \in Clocks, start_clock(c)
        PROVE  JoinsDone'
    BY <1>2, <2>5 DEF start_clock, mainVars
  <2> QED
    BY <1>3, <2>1, <2>2, <2>3, <2>4, <2>5 DEF Main
<1>4. CASE key_type \/ close_window
  BY <1>2, <1>4 DEF key_type, close_window
<1>5. CASE render_returns \/ DrawingStep \/ Handler \/ halts
  BY <1>1, <1>5, DrawingAlone
     DEF render_returns, Handler, handle_irq, read_event, read_keycode, halts, mainVars, workVars
<1>6. CASE Writing
  <2>1. ASSUME NEW c \in Clocks, NEW v \in {0, 1}, write_clock(c, v)
        PROVE  JoinsDone'
    BY <1>1, <2>1 DEF write_clock, workVars, mainVars
  <2>2. ASSUME NEW s \in Timers \cup Counters, NEW place \in {"test", "load"}, UNCHANGED joined,
               push_back([source |-> s, at |-> place])
        PROVE  JoinsDone'
    <3> DEFINE t == [source |-> s, at |-> place]
    <3>1. t \in [source : Sources, at : WorkerPlace]
      BY DEF Sources, WorkerPlace
    <3>2. /\ main' = main \/ main' = "aborted"
          /\ UNCHANGED worker_threads \/ worker_threads' = Append(worker_threads, t)
      BY <2>2 DEF push_back
    <3> HIDE DEF t
    <3> QED
      BY <2>2, <3>1, <3>2, JoinsDoneAppend
  <2>3. ASSUME NEW t \in Timers, write_timer(t)
        PROVE  JoinsDone'
    BY <2>2, <2>3 DEF write_timer
  <2>4. ASSUME NEW c \in Counters, NEW v \in {0, 1}, write_counter(c, v)
        PROVE  JoinsDone'
    BY <2>2, <2>4 DEF write_counter
  <2> QED
    BY <1>6, <2>1, <2>3, <2>4 DEF Writing
<1>7. CASE \E c \in Channels, value \in AudioSettings : write_channel(c, value)
  BY <1>1, <1>7 DEF write_channel, workVars, mainVars
<1>8. CASE UNCHANGED ioVars
  BY <1>1, <1>8 DEF ioVars, threadVars, workVars, mainVars
<1> QED
  BY <1>3, <1>4, <1>5, <1>6, <1>7, <1>8, JoinsDoneWorker
     DEF Next, ThreadsNext, DrawingStep

(* When stop clears the vector and main goes on, all threads have returned. *)
ClearsReturned ==
  stop_clears /\ main' = "join_cpu" =>
    \A i \in 1 .. Len(worker_threads) : worker_threads[i].at = "returned"

(* It follows from the joins. *)
LEMMA ClearsReturnedStep ==
  JoinsDone /\ ThreadTypes /\ Worker_threads => [ClearsReturned]_ioVars
<1> SUFFICES ASSUME JoinsDone, ThreadTypes, Worker_threads, stop_clears, main' = "join_cpu",
                    NEW i \in 1 .. Len(worker_threads)
             PROVE  worker_threads[i].at = "returned"
  BY DEF ClearsReturned
<1> DEFINE rest == SubSeq(worker_threads, joined.end + 1, Len(worker_threads))
<1>1. Joined /\ joined.done = joined.end /\ rest = <<>>
  BY DEF JoinsDone, stop_clears, Destroy
<1>2. Len(worker_threads) \in Nat /\ joined.end \in Nat
  BY DEF Worker_threads, ThreadTypes, MainTypes
<1>3. ~(joined.end < Len(worker_threads))
  <2> SUFFICES ASSUME joined.end < Len(worker_threads)
               PROVE  FALSE
    OBVIOUS
  <2>1. Len(rest) = Len(worker_threads) - joined.end
    BY <1>2 DEF Worker_threads
  <2>2. Len(rest) = 0
    <3> HIDE DEF rest
    <3> QED
      BY <1>1
  <2> QED
    BY <1>2, <2>1, <2>2
<1> QED
  BY <1>1, <1>2, <1>3 DEF Joined

(***************************************************************************)
(* stop destroys no running thread.  Its loop ends with every thread that  *)
(* was in the vector at its beginning returned, in any interleaving with a *)
(* program that starts more; when one of those is left the program aborts, *)
(* and otherwise the threads that worker_threads.clear destroys have all   *)
(* returned, whatever their number.                                        *)
(***************************************************************************)
THEOREM StopDestroysReturned == Spec => [][ClearsReturned]_ioVars
<1>1. Init => JoinsDone
  BY DEF Init, ThreadsInit, JoinsDone
<1>2. StopInv => Worker_threads
  BY DEF StopInv
<1> QED
  BY <1>1, <1>2, AlwaysTyped, AlwaysStop, JoinsDoneStep, ClearsReturnedStep, PTL DEF Spec

-----------------------------------------------------------------------------
(***************************************************************************)
(* A sole channel sounds as it was set.  The invariant: while one channel  *)
(* is used the cache is that channel's byte, decoded, and before any is    *)
(* used it is byte 0, every sound is new and nothing is varied.            *)
(***************************************************************************)
Volume   == {0, 25, 50, 100}
Settings == [volume : Volume, wave_function : 0 .. 3, pitch : Int]
Sound    == [volume : Volume, wave_function : 0 .. 4, pitch : Int, playing : BOOLEAN]

Plays(s, d, V) == s.playing <=> d.volume # 0 /\ "wave_function" \in V

(* A sound after settings d, when the settings in V were varied. *)
Heard(s, d, V) ==
  /\ IF "volume" \in V THEN s.volume = d.volume
     ELSE s.volume = NewSound.volume /\ d.volume = decode(0).volume
  /\ IF "pitch" \in V THEN s.pitch = d.pitch
     ELSE s.pitch = NewSound.pitch /\ d.pitch = decode(0).pitch
  /\ IF "wave_function" \in V THEN s.wave_function = d.wave_function
     ELSE s.wave_function = NewSound.wave_function /\ d.wave_function = decode(0).wave_function
  /\ Plays(s, d, V)

SoleInv ==
  /\ used \subseteq Channels /\ varied \subseteq Settable
  /\ sound \in [Channels -> Sound]
  /\ DOMAIN channel = Channels
  /\ audio_cache1 \in Settings
  /\ used = {} =>
       /\ varied = {} /\ audio_cache1 = decode(0) /\ sound = [c \in Channels |-> NewSound]
  /\ \A c \in Channels :
       used = {c} => audio_cache1 = Decoded(c) /\ Heard(sound[c], Decoded(c), varied)

(* Every byte decodes to settings. *)
LEMMA DecodeType == ASSUME NEW data \in Byte PROVE decode(data) \in Settings
<1>1. data \in Int /\ 0 <= data /\ data <= 255
  BY ByteBounds
<1>2. data \div \h40 \in 0 .. 3 /\ (data \div \h10) % 4 \in 0 .. 3 /\ 8 + 5 * (data % \h10) \in Int
  BY SMT, <1>1
<1>3. <<0, 25, 50, 100>>[data \div \h40 + 1] \in Volume
  BY SMT, <1>2 DEF Volume
<1> QED
  BY <1>2, <1>3 DEF decode, Settings

(* What the methods of sf::Sound change, and what they leave alone. *)
Record(V, W) == [volume : V, wave_function : W, pitch : Int, playing : BOOLEAN]

(* pause stops the sound. *)
LEMMA PauseChanges ==
  ASSUME NEW V, NEW W, NEW s \in Record(V, W)
  PROVE  /\ pause(s) \in Record(V, W) /\ ~pause(s).playing
         /\ pause(s).volume = s.volume /\ pause(s).pitch = s.pitch
         /\ pause(s).wave_function = s.wave_function
  BY DEF Record, pause

(* setVolume changes the volume alone. *)
LEMMA SetVolumeChanges ==
  ASSUME NEW V, NEW W, NEW s \in Record(V, W), NEW v \in V
  PROVE  /\ setVolume(s, v) \in Record(V, W) /\ setVolume(s, v).volume = v
         /\ setVolume(s, v).pitch = s.pitch /\ setVolume(s, v).wave_function = s.wave_function
         /\ setVolume(s, v).playing <=> s.playing
  BY DEF Record, setVolume

(* setPitch changes the pitch alone. *)
LEMMA SetPitchChanges ==
  ASSUME NEW V, NEW W, NEW s \in Record(V, W), NEW p \in Int
  PROVE  /\ setPitch(s, p) \in Record(V, W) /\ setPitch(s, p).pitch = p
         /\ setPitch(s, p).volume = s.volume /\ setPitch(s, p).wave_function = s.wave_function
         /\ setPitch(s, p).playing <=> s.playing
  BY DEF Record, setPitch

(* setBuffer changes the wave and stops the sound. *)
LEMMA SetBufferChanges ==
  ASSUME NEW V, NEW W, NEW s \in Record(V, W), NEW w \in W
  PROVE  /\ setBuffer(s, w) \in Record(V, W) /\ setBuffer(s, w).wave_function = w
         /\ setBuffer(s, w).volume = s.volume /\ setBuffer(s, w).pitch = s.pitch
         /\ ~setBuffer(s, w).playing
  BY DEF Record, setBuffer

(* play makes the sound play if it has a buffer. *)
LEMMA PlayChanges ==
  ASSUME NEW V, NEW W, NEW s \in Record(V, W)
  PROVE  /\ play(s) \in Record(V, W) /\ play(s).wave_function = s.wave_function
         /\ play(s).volume = s.volume /\ play(s).pitch = s.pitch
         /\ play(s).playing <=> s.wave_function # NoBuffer
  BY DEF Record, play

(* Sounds and settings are such records. *)
LEMMA SoundRecord ==
  /\ Sound = Record(Volume, 0 .. 4) /\ 0 \in Volume
  /\ \A d \in Settings : d.volume \in Volume /\ d.pitch \in Int /\ d.wave_function \in 0 .. 4
  BY DEF Sound, Record, Volume, Settings

(* What the four steps of update_audio make of a sound. *)
Final(s, d, cache) ==
  ApplyPlay(ApplyWave(ApplyPitch(ApplyVolume(s, d, cache), d, cache), d, cache), d)

(* What they make of each field. *)
LEMMA Applied ==
  ASSUME NEW V, NEW W, NEW s \in Record(V, W), 0 \in V, NEW cache,
         NEW d, d.volume \in V, d.pitch \in Int, d.wave_function \in W
  PROVE  /\ Final(s, d, cache) \in Record(V, W)
         /\ Final(s, d, cache).volume = IF d.volume = cache.volume THEN s.volume ELSE d.volume
         /\ Final(s, d, cache).pitch = IF d.pitch = cache.pitch THEN s.pitch ELSE d.pitch
         /\ Final(s, d, cache).wave_function =
              IF d.wave_function = cache.wave_function THEN s.wave_function ELSE d.wave_function
         /\ Final(s, d, cache).playing <=>
              IF d.volume # 0 THEN Final(s, d, cache).wave_function # NoBuffer
              ELSE /\ s.playing /\ d.volume = cache.volume
                   /\ d.wave_function = cache.wave_function
<1> DEFINE v == ApplyVolume(s, d, cache)
           p == ApplyPitch(v, d, cache)
           w == ApplyWave(p, d, cache)
           r == ApplyPlay(w, d)
<1>1. /\ v \in Record(V, W) /\ v.pitch = s.pitch /\ v.wave_function = s.wave_function
      /\ v.volume = IF d.volume = cache.volume THEN s.volume ELSE d.volume
      /\ v.playing <=> s.playing /\ (d.volume = cache.volume \/ d.volume # 0)
  <2>1. CASE d.volume = cache.volume
    <3>1. v = s
      BY <2>1 DEF ApplyVolume
    <3> HIDE DEF v
    <3> QED
      BY <2>1, <3>1
  <2>2. CASE d.volume # cache.volume /\ d.volume = 0
    <3>1. v = setVolume(pause(s), 0)
      BY <2>2 DEF ApplyVolume
    <3> HIDE DEF v
    <3> QED
      BY <2>2, <3>1, PauseChanges, SetVolumeChanges
  <2>3. CASE d.volume # cache.volume /\ d.volume # 0
    <3>1. v = setVolume(s, d.volume)
      BY <2>3 DEF ApplyVolume
    <3> HIDE DEF v
    <3> QED
      BY <2>3, <3>1, SetVolumeChanges
  <2> QED
    BY <2>1, <2>2, <2>3
<1> HIDE DEF v
<1>2. /\ p \in Record(V, W) /\ p.volume = v.volume /\ p.wave_function = v.wave_function
      /\ p.pitch = IF d.pitch = cache.pitch THEN v.pitch ELSE d.pitch
      /\ p.playing <=> v.playing
  BY <1>1, SetPitchChanges DEF ApplyPitch
<1> HIDE DEF p
<1>3. /\ w \in Record(V, W) /\ w.volume = p.volume /\ w.pitch = p.pitch
      /\ w.wave_function =
           IF d.wave_function = cache.wave_function THEN p.wave_function ELSE d.wave_function
      /\ w.playing <=> p.playing /\ d.wave_function = cache.wave_function
  BY <1>2, SetBufferChanges DEF ApplyWave
<1> HIDE DEF w
<1>4. /\ r \in Record(V, W) /\ r.volume = w.volume /\ r.pitch = w.pitch
      /\ r.wave_function = w.wave_function
      /\ r.playing <=> IF d.volume # 0 THEN w.wave_function # NoBuffer ELSE w.playing
  BY <1>3, PlayChanges DEF ApplyPlay
<1>5. r = Final(s, d, cache)
  BY DEF Final, r, w, p, v
<1> HIDE DEF r
<1> QED
  BY <1>1, <1>2, <1>3, <1>4, <1>5

(* A write to the only channel in use, and the first write of all. *)
LEMMA HeardApplied ==
  ASSUME NEW s \in Sound, NEW d \in Settings, NEW cache \in Settings, NEW V, NEW W,
         Heard(s, cache, V),
         "volume" \in W <=> "volume" \in V \/ d.volume # decode(0).volume,
         "pitch" \in W <=> "pitch" \in V \/ d.pitch # decode(0).pitch,
         "wave_function" \in W <=>
           "wave_function" \in V \/ d.wave_function # decode(0).wave_function
  PROVE  Final(s, d, cache) \in Sound /\ Heard(Final(s, d, cache), d, W)
<1> DEFINE r == Final(s, d, cache)
           zero == decode(0)
<1>1. /\ r \in Sound
      /\ r.volume = IF d.volume = cache.volume THEN s.volume ELSE d.volume
      /\ r.pitch = IF d.pitch = cache.pitch THEN s.pitch ELSE d.pitch
      /\ r.wave_function =
           IF d.wave_function = cache.wave_function THEN s.wave_function ELSE d.wave_function
      /\ r.playing <=>
           IF d.volume # 0 THEN r.wave_function # NoBuffer
           ELSE s.playing /\ d.volume = cache.volume /\ d.wave_function = cache.wave_function
  BY Applied, SoundRecord
<1>2. zero = decode(0)
  OBVIOUS
<1> HIDE DEF r, zero
<1>3. s.playing <=> cache.volume # 0 /\ "wave_function" \in V
  BY DEF Heard, Plays
<1>4. IF "volume" \in W THEN r.volume = d.volume
      ELSE r.volume = NewSound.volume /\ d.volume = zero.volume
  BY <1>1, <1>2 DEF Heard
<1>5. IF "pitch" \in W THEN r.pitch = d.pitch
      ELSE r.pitch = NewSound.pitch /\ d.pitch = zero.pitch
  BY <1>1, <1>2 DEF Heard
<1>6. IF "wave_function" \in W THEN r.wave_function = d.wave_function
      ELSE r.wave_function = NewSound.wave_function /\ d.wave_function = zero.wave_function
  BY <1>1, <1>2 DEF Heard
<1>7. r.wave_function # NoBuffer <=> "wave_function" \in W
  <2>1. d.wave_function # NoBuffer
    BY DEF Settings, NoBuffer
  <2> QED
    BY <1>6, <2>1 DEF NewSound
<1>8. Plays(r, d, W)
  <2>1. CASE d.volume # 0
    BY <1>1, <1>7, <2>1 DEF Plays
  <2>2. CASE d.volume = 0
    <3>1. ~(s.playing /\ d.volume = cache.volume)
      BY <1>3, <2>2
    <3>2. ~r.playing
      BY <1>1, <2>2, <3>1
    <3> QED
      BY <2>2, <3>2 DEF Plays
  <2> QED
    BY <2>1, <2>2
<1>9. Heard(r, d, W)
  BY <1>2, <1>4, <1>5, <1>6, <1>8 DEF Heard
<1> QED
  BY <1>1, <1>9 DEF r

(* Before any write every sound is as byte 0 has it. *)
LEMMA NewHeard ==
  decode(0) \in Settings /\ NewSound \in Sound /\ Heard(NewSound, decode(0), {})
<1>1. 0 \in Byte
  BY SMT, ByteBounds
<1>2. decode(0) \in Settings
  BY <1>1, DecodeType
<1>3. NewSound \in Sound
  BY DEF NewSound, Sound, NoBuffer, Volume
<1>4. ~NewSound.playing
  BY DEF NewSound
<1>5. Heard(NewSound, decode(0), {})
  BY <1>4 DEF Heard, Plays
<1> QED
  BY <1>2, <1>3, <1>5

(* What a byte varies. *)
LEMMA VariesField ==
  ASSUME NEW data, NEW setting \in Settable
  PROVE  setting \in Varies(data) <=> decode(data)[setting] # decode(0)[setting]
  BY DEF Varies

(* A write to a channel keeps the invariant. *)
LEMMA SoleWrite ==
  ASSUME SoleInv, NEW c \in Channels, NEW value \in AudioSettings, update_audio(c, value)
  PROVE  SoleInv'
<1> DEFINE d == decode(value)
           r == Final(sound[c], d, audio_cache1)
<1>1. d \in Settings
  BY DecodeType, AudioAssumption
<1>0. /\ "volume" \in Varies(value) <=> d.volume # decode(0).volume
      /\ "pitch" \in Varies(value) <=> d.pitch # decode(0).pitch
      /\ "wave_function" \in Varies(value) <=> d.wave_function # decode(0).wave_function
  BY VariesField DEF Settable
<1> HIDE DEF d
<1>2. /\ channel' = [channel EXCEPT ![c] = value]
      /\ sound' = [sound EXCEPT ![c] = r]
      /\ audio_cache1' = d
      /\ used' = used \cup {c}
      /\ varied' = varied \cup Varies(value)
  BY DEF update_audio, r, d, Final
<1>3. sound \in [Channels -> Sound] /\ DOMAIN channel = Channels /\ audio_cache1 \in Settings
  BY DEF SoleInv
<1>4. sound[c] \in Sound
  BY <1>3
<1>5. r \in Sound
  BY <1>1, <1>4, Applied, SoundRecord
<1>6. used \subseteq {c} => Heard(r, d, varied')
  <2> SUFFICES ASSUME used \subseteq {c} PROVE Heard(r, d, varied')
    OBVIOUS
  <2>1. used = {} \/ used = {c}
    OBVIOUS
  <2>2. Heard(sound[c], audio_cache1, varied)
    <3>1. CASE used = {}
      BY <3>1, NewHeard DEF SoleInv
    <3>2. CASE used = {c}
      BY <3>2 DEF SoleInv
    <3> QED
      BY <2>1, <3>1, <3>2
  <2>3. /\ "volume" \in varied' <=> "volume" \in varied \/ d.volume # decode(0).volume
        /\ "pitch" \in varied' <=> "pitch" \in varied \/ d.pitch # decode(0).pitch
        /\ "wave_function" \in varied' <=>
             "wave_function" \in varied \/ d.wave_function # decode(0).wave_function
    BY <1>0, <1>2
  <2> QED
    BY <1>1, <1>3, <1>4, <2>2, <2>3, HeardApplied
<1> HIDE DEF r
<1>7. sound' \in [Channels -> Sound] /\ DOMAIN channel' = Channels
  BY <1>2, <1>3, <1>5
<1>8. used' \subseteq Channels /\ used' # {} /\ varied' \subseteq Settable
  BY <1>2 DEF SoleInv, Varies
<1>9. ASSUME NEW e \in Channels, used' = {e}
      PROVE  /\ audio_cache1' = decode(channel'[e])
             /\ Heard(sound'[e], decode(channel'[e]), varied')
  <2>1. e = c /\ used \subseteq {c}
    BY <1>2, <1>9
  <2>2. channel'[e] = value /\ sound'[e] = r
    BY <1>2, <1>3, <2>1
  <2>3. decode(channel'[e]) = d
    BY <2>2 DEF d
  <2> QED
    BY <1>2, <1>6, <2>1, <2>2, <2>3
<1>10. audio_cache1' \in Settings
  BY <1>1, <1>2
<1> QED
  BY <1>7, <1>8, <1>9, <1>10 DEF SoleInv, Decoded, Heard, Plays

(* And so does every step. *)
LEMMA SoleStep == SoleInv /\ [Next]_ioVars => SoleInv'
<1> SUFFICES ASSUME SoleInv, [Next]_ioVars PROVE SoleInv'
  OBVIOUS
<1>1. CASE UNCHANGED audioVars
  BY <1>1 DEF audioVars, SoleInv, Decoded, Heard, Plays
<1>2. ASSUME NEW c \in Channels, NEW value \in AudioSettings, write_channel(c, value)
      PROVE  SoleInv'
  BY <1>2, SoleWrite DEF write_channel
<1>3. UNCHANGED ioVars => UNCHANGED audioVars
  BY DEF ioVars
<1> QED
  BY <1>1, <1>2, <1>3 DEF Next

(***************************************************************************)
(* What a program that uses one channel hears, whatever bytes it wrote to  *)
(* it before and whatever the other threads of the IO chip do in between:  *)
(* of every setting it ever varied the value in the last byte, of the      *)
(* others that of a new sound, and a tone exactly if the last volume is    *)
(* not 0 and the wave was varied (update_audio).                           *)
(***************************************************************************)
THEOREM SoleChannel == Spec => []SoleChannelAsSet
<1>1. Init => SoleInv
  <2> SUFFICES ASSUME AudioInit PROVE SoleInv
    BY DEF Init
  <2>1. /\ sound = [c \in Channels |-> NewSound] /\ DOMAIN channel = Channels
        /\ audio_cache1 = decode(0) /\ used = {} /\ varied = {}
    BY DEF AudioInit
  <2> QED
    BY <2>1, NewHeard DEF SoleInv
<1>2. SoleInv => SoleChannelAsSet
  <2> SUFFICES ASSUME SoleInv, NEW c \in Channels, used = {c}
               PROVE  /\ \A setting \in varied : sound[c][setting] = Decoded(c)[setting]
                      /\ \A setting \in Settable \ varied :
                           sound[c][setting] = NewSound[setting]
                      /\ sound[c].playing <=>
                           Decoded(c).volume # 0 /\ "wave_function" \in varied
    BY DEF SoleChannelAsSet
  <2>1. Heard(sound[c], Decoded(c), varied) /\ varied \subseteq Settable
    BY DEF SoleInv
  <2>2. ASSUME NEW setting \in Settable
        PROVE  IF setting \in varied THEN sound[c][setting] = Decoded(c)[setting]
               ELSE sound[c][setting] = NewSound[setting]
    <3>1. setting = "volume" \/ setting = "pitch" \/ setting = "wave_function"
      BY DEF Settable
    <3> QED
      BY <2>1, <3>1 DEF Heard
  <2>3. sound[c].playing <=> Decoded(c).volume # 0 /\ "wave_function" \in varied
    BY <2>1 DEF Heard, Plays
  <2> QED
    BY <2>1, <2>2, <2>3
<1> QED
  BY <1>1, <1>2, SoleStep, PTL DEF Spec
=============================================================================
