----------------------------- MODULE DrawProofs -----------------------------
(***************************************************************************)
(* Proofs about the draw pipeline, for all sets of registers, bytes and    *)
(* methods and any number of commits: the drawing thread never takes an    *)
(* instruction from an empty queue, and the pipeline implements sequential *)
(* drawing.  Both rest on the invariant DrawInv, which says what the       *)
(* drawing thread knows at each of its places.                             *)
(***************************************************************************)
EXTENDS DrawPipeline, SequenceTheorems, TLAPS

(* An instruction is in scope where it is executed, and nowhere else. *)
InScope == drawer = "execute" <=> instruction # <<>>

(* After the wait there is something to draw, or a reason not to fetch it. *)
WaitEndsForAReason == drawer = "check" => draw_pipeline # <<>> \/ shutdown

DrawInv == TypeOK /\ InScope /\ WaitEndsForAReason /\ FetchFindsInstruction

-----------------------------------------------------------------------------
(* Sequences. *)

(* A sequence of one instruction is a sequence of instructions. *)
LEMMA OneInstruction == \A i \in Instruction : <<i>> \in Seq(Instruction) /\ <<i>> # <<>>
  OBVIOUS

(* Appending to the second of two sequences appends to their concatenation. *)
LEMMA ConcatAppend ==
  ASSUME NEW S, NEW s \in Seq(S), NEW t \in Seq(S), NEW e \in S
  PROVE  s \o Append(t, e) = Append(s \o t, e)
<1>1. <<e>> \in Seq(S)
  OBVIOUS
<1>2. s \o t \in Seq(S)
  BY ConcatProperties
<1>3. Append(t, e) = t \o <<e>> /\ Append(s \o t, e) = (s \o t) \o <<e>>
  BY <1>2, AppendIsConcat
<1> QED
  BY <1>1, <1>3, ConcatAssociative

(* A nonempty sequence is its head before its tail. *)
LEMMA HeadBeforeTail ==
  ASSUME NEW S, NEW s \in Seq(S), s # <<>>
  PROVE  <<Head(s)>> \o Tail(s) = s
  OBVIOUS

(* The head and the tail of a sequence with one element put in front. *)
LEMMA PutInFront ==
  ASSUME NEW S, NEW s \in Seq(S), NEW e \in S
  PROVE  Head(<<e>> \o s) = e /\ Tail(<<e>> \o s) = s /\ <<e>> \o s # <<>>
  OBVIOUS

-----------------------------------------------------------------------------
(* The invariant. *)

(* It holds at the start. *)
LEMMA DrawInitial == Init => DrawInv
<1> SUFFICES ASSUME Init PROVE DrawInv
  OBVIOUS
<1>1. commits \in 0 .. MaxCommits
  BY SMT, DrawAssumption DEF Init
<1>2. draw_pipeline \in Seq(Instruction) /\ vram \in Seq([shape : Instruction, brush : Brush])
  BY EmptySeq DEF Init
<1>3. TypeOK
  BY <1>1, <1>2 DEF Init, TypeOK, DrawerPlace, Brush
<1> QED
  BY <1>3 DEF Init, DrawInv, InScope, WaitEndsForAReason, FetchFindsInstruction

(* The steps of the CPU thread keep it: a commit only adds to the queue, and *)
(* a notification does not wake the drawing thread after its predicate.      *)
LEMMA WriterPreserves ==
  ASSUME DrawInv,
         \/ \E r \in Registers, v \in Values : write_argument(r, v)
         \/ \E m \in Methods : write_method(m)
         \/ write_notify
  PROVE  DrawInv'
<1> USE DEF DrawInv, InScope, WaitEndsForAReason, FetchFindsInstruction
<1>1. ASSUME NEW r \in Registers, NEW v \in Values, write_argument(r, v) PROVE DrawInv'
  <2>1. args' \in [Registers -> Values]
    BY <1>1 DEF write_argument, TypeOK
  <2> QED
    BY <1>1, <2>1 DEF write_argument, TypeOK
<1>2. ASSUME NEW m \in Methods, write_method(m) PROVE DrawInv'
  <2>1. [method |-> m, args |-> args] \in Instruction
    BY DEF TypeOK, Instruction
  <2>2. draw_pipeline' \in Seq(Instruction) /\ draw_pipeline' # <<>>
    BY <1>2, <2>1, AppendProperties DEF write_method, TypeOK
  <2>3. commits' \in 0 .. MaxCommits
    BY SMT, <1>2, DrawAssumption DEF write_method, TypeOK
  <2> QED
    BY <1>2, <2>2, <2>3 DEF write_method, TypeOK
<1>3. CASE write_notify
  BY <1>3 DEF write_notify, Woken, TypeOK, DrawerPlace
<1> QED
  BY <1>1, <1>2, <1>3

(* The steps of the drawing thread keep it: it alone removes instructions. *)
LEMMA DrawerPreserves ==
  ASSUME DrawInv, Drawer \/ spurious_wakeup
  PROVE  DrawInv'
<1> USE DEF DrawInv, InScope, WaitEndsForAReason, FetchFindsInstruction
<1>1. CASE draw_loop
  BY <1>1 DEF draw_loop, TypeOK, DrawerPlace
<1>2. CASE draw_test
  BY <1>2 DEF draw_test, TypeOK, DrawerPlace
<1>3. CASE draw_sleep
  BY <1>3 DEF draw_sleep, TypeOK, DrawerPlace
<1>4. CASE draw_check
  BY <1>4 DEF draw_check, TypeOK, DrawerPlace
<1>5. CASE draw_fetch
  <2>1. Head(draw_pipeline) \in Instruction /\ Tail(draw_pipeline) \in Seq(Instruction)
    BY <1>5, HeadTailProperties DEF draw_fetch, TypeOK
  <2>2. <<Head(draw_pipeline)>> # <<>>
    BY <2>1, OneInstruction
  <2> QED
    BY <1>5, <2>1, <2>2 DEF draw_fetch, TypeOK, DrawerPlace
<1>6. CASE draw_execute
  <2>1. PICK i \in Instruction : instruction = <<i>>
    BY <1>6 DEF draw_execute, TypeOK
  <2>2. Head(instruction) = i /\ i.args[1] \in Values
    BY <2>1, DrawAssumption DEF Instruction
  <2>3. brush' \in Brush
    BY <1>6, <2>2 DEF draw_execute, TypeOK, Brush
  <2>4. [shape |-> i, brush |-> brush] \in [shape : Instruction, brush : Brush]
    BY DEF TypeOK
  <2>5. vram' \in Seq([shape : Instruction, brush : Brush])
    BY <1>6, <2>2, <2>4, AppendProperties DEF draw_execute, TypeOK
  <2> QED
    BY <1>6, <2>3, <2>5 DEF draw_execute, TypeOK, DrawerPlace
<1>7. CASE spurious_wakeup
  BY <1>7 DEF spurious_wakeup, TypeOK, DrawerPlace
<1> QED
  BY <1>1, <1>2, <1>3, <1>4, <1>5, <1>6, <1>7 DEF Drawer

(* The steps of the main thread keep it: shutdown is set and never reset. *)
LEMMA StopPreserves ==
  ASSUME DrawInv, close_window \/ Stop
  PROVE  DrawInv'
<1> USE DEF DrawInv, InScope, WaitEndsForAReason, FetchFindsInstruction
<1>1. CASE close_window
  BY <1>1 DEF close_window, TypeOK
<1>2. CASE stop_joins_render
  BY <1>2 DEF stop_joins_render, TypeOK
<1>3. CASE stop_notifies
  BY <1>3 DEF stop_notifies, Woken, TypeOK, DrawerPlace
<1>4. CASE stop_joins_drawing
  BY <1>4 DEF stop_joins_drawing, TypeOK
<1> QED
  BY <1>1, <1>2, <1>3, <1>4 DEF Stop

(* Every step keeps it. *)
LEMMA DrawInductive == DrawInv /\ [Next]_vars => DrawInv'
<1> SUFFICES ASSUME DrawInv, [Next]_vars PROVE DrawInv'
  OBVIOUS
<1>1. CASE Next
  BY <1>1, WriterPreserves, DrawerPreserves, StopPreserves DEF Next
<1>2. CASE UNCHANGED vars
  BY <1>2 DEF vars, DrawInv, TypeOK, InScope, WaitEndsForAReason, FetchFindsInstruction
<1> QED
  BY <1>1, <1>2

(* DrawInv holds in every reachable state. *)
LEMMA DrawInvariant == Spec => []DrawInv
BY DrawInitial, DrawInductive, PTL DEF Spec

(***************************************************************************)
(* The queue holds instructions made of the registers' bytes, the brush a  *)
(* byte for each colour, and every thread is at one of its places.         *)
(***************************************************************************)
THEOREM DrawTypeCorrect == Spec => []TypeOK
<1>1. DrawInv => TypeOK
  BY DEF DrawInv
<1> QED
  BY <1>1, DrawInvariant, PTL

(***************************************************************************)
(* thread_drawing never takes from an empty queue: only it removes         *)
(* instructions, and when shutdown alone ended the wait the second test    *)
(* sees it, because nobody resets it.                                      *)
(***************************************************************************)
THEOREM FetchSafe == Spec => []FetchFindsInstruction
<1>1. DrawInv => FetchFindsInstruction
  BY DEF DrawInv
<1> QED
  BY <1>1, DrawInvariant, PTL

-----------------------------------------------------------------------------
(* The refinement: what is committed and not performed is the instruction in *)
(* scope before those of the queue.                                          *)

todo == instruction \o draw_pipeline

(* The initial states of the pipeline are initial states of the drawing. *)
LEMMA DrawingInitial == Init => Sequential!DInit
BY ConcatEmptySeq, EmptySeq DEF Init, Sequential!DInit, Brush

(* A commit appends to what is to be done. *)
LEMMA CommitImplements ==
  ASSUME DrawInv, NEW m \in Methods, write_method(m)
  PROVE  Sequential!Commit(m)
<1>1. [method |-> m, args |-> args] \in Instruction
  BY DEF DrawInv, TypeOK, Instruction
<1>2. instruction \in Seq(Instruction) /\ draw_pipeline \in Seq(Instruction)
  BY OneInstruction, EmptySeq DEF DrawInv, TypeOK
<1>3. instruction \o Append(draw_pipeline, [method |-> m, args |-> args])
        = Append(todo, [method |-> m, args |-> args])
  BY <1>1, <1>2, ConcatAppend DEF todo
<1> QED
  BY <1>3 DEF write_method, Sequential!Commit, todo

(* Fetching leaves what is to be done, executing removes its first method. *)
LEMMA FetchStutters ==
  ASSUME DrawInv, draw_fetch
  PROVE  UNCHANGED Sequential!dvars
<1>1. instruction = <<>>
  BY DEF draw_fetch, DrawInv, InScope
<1>2. instruction' \o draw_pipeline' = draw_pipeline
  BY HeadBeforeTail DEF draw_fetch, DrawInv, TypeOK
<1>3. instruction \o draw_pipeline = draw_pipeline
  BY <1>1, ConcatEmptySeq DEF DrawInv, TypeOK
<1> QED
  BY <1>2, <1>3 DEF draw_fetch, Sequential!dvars

(* The method executed is the first of those to be done. *)
LEMMA ExecuteImplements ==
  ASSUME DrawInv, draw_execute
  PROVE  Sequential!Perform
<1>1. PICK i \in Instruction : instruction = <<i>>
  BY DEF draw_execute, DrawInv, TypeOK, InScope
<1>2. draw_pipeline \in Seq(Instruction)
  BY DEF DrawInv, TypeOK
<1>3. Head(todo) = i /\ Tail(todo) = draw_pipeline /\ todo # <<>>
  BY <1>1, <1>2, PutInFront DEF todo
<1>4. instruction' \o draw_pipeline' = draw_pipeline
  BY <1>2, ConcatEmptySeq DEF draw_execute
<1>5. Head(instruction) = i
  BY <1>1
<1> QED
  BY <1>3, <1>4, <1>5 DEF draw_execute, Sequential!Perform, Sequential!Colour, todo

(* Every step of the pipeline is a step of the drawing or leaves it alone. *)
LEMMA StepImplements == DrawInv /\ [Next]_vars => [Sequential!DNext]_(Sequential!dvars)
<1> SUFFICES ASSUME DrawInv, [Next]_vars PROVE [Sequential!DNext]_(Sequential!dvars)
  OBVIOUS
<1>1. ASSUME NEW r \in Registers, NEW v \in Values, write_argument(r, v)
      PROVE  Sequential!DNext
  <2>1. Sequential!SetArgument(r, v)
    BY <1>1 DEF write_argument, Sequential!SetArgument
  <2> QED
    BY <2>1 DEF Sequential!DNext
<1>2. ASSUME NEW m \in Methods, write_method(m) PROVE Sequential!DNext
  BY <1>2, CommitImplements DEF Sequential!DNext
<1>3. CASE draw_execute
  BY <1>3, ExecuteImplements DEF Sequential!DNext
<1>4. CASE draw_fetch
  BY <1>4, FetchStutters
<1>5. CASE draw_loop \/ draw_test \/ draw_sleep \/ draw_check \/ spurious_wakeup \/ write_notify
  BY <1>5 DEF draw_loop, draw_test, draw_sleep, draw_check, spurious_wakeup, write_notify,
              Sequential!dvars
<1>6. CASE close_window \/ Stop
  BY <1>6 DEF close_window, Stop, stop_joins_render, stop_notifies, stop_joins_drawing,
              Sequential!dvars
<1>7. CASE UNCHANGED vars
  BY <1>7 DEF vars, Sequential!dvars
<1> QED
  BY <1>1, <1>2, <1>3, <1>4, <1>5, <1>6, <1>7 DEF Next, Drawer

(***************************************************************************)
(* The program sees its drawing as if every commit were performed in its   *)
(* turn, with its own arguments and the brush set by the commits before    *)
(* it, whatever the threads do meanwhile and however much is committed.    *)
(***************************************************************************)
THEOREM DrawingImplemented == Spec => PaintedAsCommitted
<1>1. Spec => Sequential!DInit /\ [][Sequential!DNext]_(Sequential!dvars)
  BY DrawingInitial, StepImplements, DrawInvariant, PTL DEF Spec
<1> QED
  BY <1>1 DEF PaintedAsCommitted, Sequential!DSpec
=============================================================================
