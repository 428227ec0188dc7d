--------------------------- MODULE ContextsProofs ---------------------------
(***************************************************************************)
(* Theorems about what the stack promises to the code that interrupts and  *)
(* calls suspend (CPUContexts), for every memory map with a RAM, every     *)
(* program and every number of nested contexts.                            *)
(*                                                                         *)
(* The invariant, ContextsInv: every context on the list is live.  Its     *)
(* bytes are in their slots, and the stack pointer is at least its size    *)
(* below it, counted down the ring of 256 slots.  A push writes only the   *)
(* slots at and below the stack pointer, which a live context does not     *)
(* reach unless the stack has gone once around its page; a pull drops the  *)
(* contexts it uses up and moves the stack pointer up to the others.       *)
(*                                                                         *)
(* The CPU checks nothing of the kind, so the theorems are conditional on  *)
(* the program: StackDiscipline (no wrap onto a context, no store into     *)
(* one), HandlersRestore and IRQDiscipline, which speak of the program's   *)
(* own instructions and never of what the CPU has to restore.              *)
(***************************************************************************)
EXTENDS CPUContexts, ISAProofs, FiniteSetTheorems

-----------------------------------------------------------------------------
(***************************************************************************)
(* The ring of 256 stack slots.                                            *)
(***************************************************************************)

(* Steps down and up the ring. *)
LEMMA Ring ==
  \A p, n \in Byte :
    /\ Down(p, n) \in Byte /\ Down(p, n) = IF n <= p THEN p - n ELSE p - n + 256
    /\ Up(p, n) \in Byte /\ Up(p, n) = IF p + n <= 255 THEN p + n ELSE p + n - 256
<1> SUFFICES ASSUME NEW p \in Byte, NEW n \in Byte
             PROVE  /\ Down(p, n) \in Byte /\ Down(p, n) = IF n <= p THEN p - n ELSE p - n + 256
                    /\ Up(p, n) \in Byte /\ Up(p, n) = IF p + n <= 255 THEN p + n ELSE p + n - 256
  OBVIOUS
<1>1. p \in Int /\ 0 <= p /\ p <= 255 /\ n \in Int /\ 0 <= n /\ n <= 255
  BY ByteBounds
<1>2. (p - n) % 256 = IF n <= p THEN p - n ELSE p - n + 256
  BY SMT, <1>1
<1>3. (p + n) % 256 = IF p + n <= 255 THEN p + n ELSE p + n - 256
  BY SMT, <1>1
<1>4. Down(p, n) = IF n <= p THEN p - n ELSE p - n + 256
  BY <1>2 DEF Down
<1>5. Up(p, n) = IF p + n <= 255 THEN p + n ELSE p + n - 256
  BY <1>3 DEF Up
<1>6. Down(p, n) \in Int /\ 0 <= Down(p, n) /\ Down(p, n) <= 255
  BY SMT, <1>1, <1>4
<1>7. Up(p, n) \in Int /\ 0 <= Up(p, n) /\ Up(p, n) <= 255
  BY SMT, <1>1, <1>5
<1> QED
  BY <1>4, <1>5, <1>6, <1>7, ByteBounds

(* Small numbers of bytes. *)
LEMMA SmallBytes == 0 \in Byte /\ 1 \in Byte /\ 2 \in Byte /\ 3 \in Byte
BY SMT, ByteBounds

(* Pushes go down the ring, one slot each. *)
LEMMA PushedDown ==
  \A p \in Byte : /\ Down(p, 0) = p /\ Down(p, 1) = Pushed(p) /\ Down(p, 2) = Pushed(Pushed(p))
                  /\ Down(p, 3) = Pushed(Pushed(Pushed(p)))
<1> SUFFICES ASSUME NEW p \in Byte
             PROVE  /\ Down(p, 0) = p /\ Down(p, 1) = Pushed(p) /\ Down(p, 2) = Pushed(Pushed(p))
                    /\ Down(p, 3) = Pushed(Pushed(Pushed(p)))
  OBVIOUS
<1>1. p \in Int /\ 0 <= p /\ p <= 255
  BY ByteBounds
<1>2. \A n \in Byte : Down(p, n) = IF n <= p THEN p - n ELSE p - n + 256
  BY Ring
<1>3. /\ Down(p, 0) = IF 0 <= p THEN p - 0 ELSE p - 0 + 256
      /\ Down(p, 1) = IF 1 <= p THEN p - 1 ELSE p - 1 + 256
      /\ Down(p, 2) = IF 2 <= p THEN p - 2 ELSE p - 2 + 256
      /\ Down(p, 3) = IF 3 <= p THEN p - 3 ELSE p - 3 + 256
  BY <1>2, SmallBytes
<1>4. Pushed(p) = IF p = 0 THEN 255 ELSE p - 1
  BY DEF Pushed, kStackReset
<1>5. Pushed(Pushed(p)) = IF Pushed(p) = 0 THEN 255 ELSE Pushed(p) - 1
  BY DEF Pushed, kStackReset
<1>6. Pushed(Pushed(Pushed(p))) = IF Pushed(Pushed(p)) = 0 THEN 255 ELSE Pushed(Pushed(p)) - 1
  BY DEF Pushed, kStackReset
<1> QED
  BY SMT, <1>1, <1>3, <1>4, <1>5, <1>6

(* The bytes between a context at F and the stack pointer p: after n pushes *)
(* they are n more, which touch none of its `size' slots, if the ring is    *)
(* not full.                                                                *)
LEMMA RingPush ==
  ASSUME NEW F \in Byte, NEW p \in Byte, NEW n \in Byte, NEW size \in Byte,
         Down(F, p) >= size, Down(F, p) + n <= 255
  PROVE  /\ Down(F, Down(p, n)) = Down(F, p) + n
         /\ \A i, j \in Byte : i < n /\ j < size => Down(p, i) # Down(F, j)
<1>1. /\ F \in Int /\ 0 <= F /\ F <= 255 /\ p \in Int /\ 0 <= p /\ p <= 255
      /\ n \in Int /\ 0 <= n /\ n <= 255 /\ size \in Int /\ 0 <= size /\ size <= 255
  BY ByteBounds
<1>2. /\ Down(p, n) \in Byte /\ Down(p, n) = IF n <= p THEN p - n ELSE p - n + 256
      /\ Down(F, p) = IF p <= F THEN F - p ELSE F - p + 256
  BY Ring
<1>3. Down(F, Down(p, n)) = IF Down(p, n) <= F THEN F - Down(p, n) ELSE F - Down(p, n) + 256
  BY <1>2, Ring
<1>4. Down(F, Down(p, n)) = Down(F, p) + n
  BY SMT, <1>1, <1>2, <1>3
<1>5. ASSUME NEW i \in Byte, NEW j \in Byte, i < n, j < size
      PROVE  Down(p, i) # Down(F, j)
  <2>1. i \in Int /\ 0 <= i /\ i <= 255 /\ j \in Int /\ 0 <= j /\ j <= 255
    BY ByteBounds
  <2>2. /\ Down(p, i) = IF i <= p THEN p - i ELSE p - i + 256
        /\ Down(F, j) = IF j <= F THEN F - j ELSE F - j + 256
    BY Ring
  <2> QED
    BY SMT, <1>1, <1>2, <1>5, <2>1, <2>2
<1> QED
  BY <1>4, <1>5

(* After n pulls that free none of its slots all of them are stacked still. *)
LEMMA RingPull ==
  ASSUME NEW F \in Byte, NEW p \in Byte, NEW n \in Byte, NEW size \in Byte,
         1 <= size, Down(F, p) >= size,
         \A i, j \in Byte : 1 <= i /\ i <= n /\ j < size => Up(p, i) # Down(F, j)
  PROVE  Down(F, Up(p, n)) >= size
<1>1. /\ F \in Int /\ 0 <= F /\ F <= 255 /\ p \in Int /\ 0 <= p /\ p <= 255
      /\ n \in Int /\ 0 <= n /\ n <= 255 /\ size \in Int /\ 0 <= size /\ size <= 255
  BY ByteBounds
<1>2. /\ Up(p, n) \in Byte /\ Up(p, n) = IF p + n <= 255 THEN p + n ELSE p + n - 256
      /\ Down(F, p) = IF p <= F THEN F - p ELSE F - p + 256
  BY Ring
<1>3. Down(F, Up(p, n)) = IF Up(p, n) <= F THEN F - Up(p, n) ELSE F - Up(p, n) + 256
  BY <1>2, Ring
<1> DEFINE d == Down(F, p)
           i == d - size + 1
           j == size - 1
<1>4. CASE d - n >= size
  BY SMT, <1>1, <1>2, <1>3, <1>4
<1>5. CASE ~(d - n >= size)
  <2>1. /\ i \in Int /\ 0 <= i /\ i <= 255 /\ 1 <= i /\ i <= n
        /\ j \in Int /\ 0 <= j /\ j <= 255 /\ j < size
    BY SMT, <1>1, <1>2, <1>5
  <2>2. i \in Byte /\ j \in Byte
    BY <2>1, ByteBounds
  <2>3. /\ Up(p, i) = IF p + i <= 255 THEN p + i ELSE p + i - 256
        /\ Down(F, j) = IF j <= F THEN F - j ELSE F - j + 256
    BY <2>2, Ring
  <2>4. Up(p, i) = Down(F, j)
    BY SMT, <1>1, <1>2, <2>1, <2>3
  <2> QED
    BY <2>1, <2>2, <2>4
<1> QED
  BY <1>4, <1>5

-----------------------------------------------------------------------------
(***************************************************************************)
(* Saved contexts.                                                         *)
(***************************************************************************)
Kinds == {"irq", "nmi", "brk", "jsr"}

(* A context with registers that a running CPU has, and their status byte. *)
IsFrame(f) ==
  /\ f.kind \in Kinds /\ f.cpu \in CPUState /\ f.status \in SUBSET Masks
  /\ ~f.cpu.illegal_opcode /\ ~f.cpu.shutdown
  /\ kMaskConstant \in f.cpu.STATUS
  /\ f.status \ {kMaskBreak} = f.cpu.STATUS \ {kMaskBreak}

(* Slot i of a context at stack pointer sp in memory m. *)
At(m, sp, i) == read_byte(m, kStackBase + Down(sp, i))

(* Memory m holds the return address, and the status byte, of a context. *)
HoldsReturn(f, m) == MkWord(At(m, f.cpu.SP, 1), At(m, f.cpu.SP, 0)) = U16(f.cpu.PC - 1)
HoldsState(f, m)  == /\ MkWord(At(m, f.cpu.SP, 1), At(m, f.cpu.SP, 0)) = f.cpu.PC
                     /\ Bits(At(m, f.cpu.SP, 2)) = f.status
Holds(f, m)       == IF f.kind = "jsr" THEN HoldsReturn(f, m) ELSE HoldsState(f, m)

(* FramesIntact, one context at a time. *)
LEMMA IntactHolds == FramesIntact <=> \A i \in 1 .. Len(frames) : Holds(frames[i], mem)
BY DEF FramesIntact, Holds, HoldsReturn, HoldsState, At, OnStack

(* The size of a context. *)
LEMMA SizeType == \A kind : /\ FrameSize(kind) \in Byte /\ FrameSize(kind) >= 1
                            /\ kind = "jsr" => FrameSize(kind) = 2
                            /\ kind # "jsr" => FrameSize(kind) = 3
BY SmallBytes DEF FrameSize

(* The slots of a context. *)
LEMMA SlotsOf ==
  ASSUME NEW f, IsFrame(f)
  PROVE  \A s : s \in Slots(f) <=> \E j \in Byte : j < FrameSize(f.kind) /\ s = Down(f.cpu.SP, j)
<1> DEFINE size == FrameSize(f.kind)
<1>1. size \in Int /\ 0 <= size /\ size <= 255
  BY SizeType, ByteBounds
<1> HIDE DEF size
<1>2. \A j : j \in 0 .. size - 1 <=> j \in Byte /\ j < size
  BY SMT, <1>1, ByteBounds
<1>3. Slots(f) = {Down(f.cpu.SP, j) : j \in 0 .. size - 1}
  BY DEF Slots, size
<1> QED
  BY <1>2, <1>3 DEF size

(* A memory that reads the same in the slots of a context holds it as well. *)
LEMMA HoldsKept ==
  ASSUME NEW f, IsFrame(f), NEW m, NEW n, Holds(f, m),
         \A s \in Slots(f) : read_byte(n, kStackBase + s) = read_byte(m, kStackBase + s)
  PROVE  Holds(f, n)
<1>1. \A j \in Byte : j < FrameSize(f.kind) => Down(f.cpu.SP, j) \in Slots(f)
  BY SlotsOf
<1>2. \A j \in Byte : j < FrameSize(f.kind) => At(n, f.cpu.SP, j) = At(m, f.cpu.SP, j)
  BY <1>1 DEF At
<1>3. CASE f.kind = "jsr"
  <2>1. At(n, f.cpu.SP, 0) = At(m, f.cpu.SP, 0) /\ At(n, f.cpu.SP, 1) = At(m, f.cpu.SP, 1)
    BY <1>2, <1>3, SmallBytes DEF FrameSize
  <2> QED
    BY <1>3, <2>1 DEF Holds, HoldsReturn
<1>4. CASE f.kind # "jsr"
  <2>1. /\ At(n, f.cpu.SP, 0) = At(m, f.cpu.SP, 0) /\ At(n, f.cpu.SP, 1) = At(m, f.cpu.SP, 1)
        /\ At(n, f.cpu.SP, 2) = At(m, f.cpu.SP, 2)
    BY <1>2, <1>4, SmallBytes DEF FrameSize
  <2> QED
    BY <1>4, <2>1 DEF Holds, HoldsState
<1> QED
  BY <1>3, <1>4

(* Stacked is a way down the ring. *)
LEMMA StackedDown == \A f : Stacked(f) = Down(f.cpu.SP, cpu.SP)
BY DEF Stacked, Down

(* The memory holds a context, and all its bytes are above the stack       *)
(* pointer, now and after a step.                                          *)
Live(f)      == Holds(f, mem) /\ Down(f.cpu.SP, cpu.SP) >= FrameSize(f.kind)
LiveAfter(f) == Holds(f, mem') /\ Down(f.cpu.SP, cpu'.SP) >= FrameSize(f.kind)

(* The n slots below the stack pointer. *)
LEMMA SlotsBelow ==
  ASSUME NEW n \in Byte
  PROVE  \A b : b \in PushSlots(n) <=> \E i \in Byte : i < n /\ b = kStackBase + Down(cpu.SP, i)
<1>1. n \in Int /\ 0 <= n /\ n <= 255
  BY ByteBounds
<1>2. \A i : i \in 0 .. n - 1 <=> i \in Byte /\ i < n
  BY SMT, <1>1, ByteBounds
<1> QED
  BY <1>2 DEF PushSlots, Down

(* A context stays live in a step that pushes n bytes and stores elsewhere. *)
LEMMA PushKeeps ==
  ASSUME NEW f, IsFrame(f), Live(f), cpu.SP \in Byte, NEW n \in Byte, NEW T,
         Stacked(f) + n <= 255, cpu'.SP = Down(cpu.SP, n),
         WritesIn(mem, mem', PushSlots(n) \cup T),
         \A s \in Slots(f) : kStackBase + s \notin T
  PROVE  LiveAfter(f)
<1> DEFINE F    == f.cpu.SP
           size == FrameSize(f.kind)
<1>1. F \in Byte /\ size \in Byte
  BY SizeType DEF IsFrame, CPUState
<1>2. Down(F, cpu.SP) >= size /\ Down(F, cpu.SP) + n <= 255
  BY StackedDown DEF Live
<1>3. /\ Down(F, Down(cpu.SP, n)) = Down(F, cpu.SP) + n
      /\ \A i, j \in Byte : i < n /\ j < size => Down(cpu.SP, i) # Down(F, j)
  <2> HIDE DEF F, size
  <2> QED
    BY <1>1, <1>2, RingPush
<1>4. Down(F, cpu'.SP) >= size
  <2>1. cpu'.SP = Down(cpu.SP, n)
    OBVIOUS
  <2>2. Down(F, cpu.SP) \in Int /\ size \in Int /\ n \in Int /\ 0 <= n
    BY <1>1, Ring, ByteBounds
  <2> HIDE DEF F, size
  <2> QED
    BY SMT, <1>2, <1>3, <2>1, <2>2
<1>5. ASSUME NEW s \in Slots(f)
      PROVE  read_byte(mem', kStackBase + s) = read_byte(mem, kStackBase + s)
  <2>1. PICK j \in Byte : j < size /\ s = Down(F, j)
    BY SlotsOf
  <2>2. s \in Byte
    BY <1>1, <2>1, Ring
  <2>3. kStackBase + s \in Word
    BY <2>2, SlotType
  <2>4. kStackBase + s \notin PushSlots(n)
    <3>1. SUFFICES ASSUME kStackBase + s \in PushSlots(n)
                   PROVE  FALSE
      OBVIOUS
    <3>2. PICK i \in Byte : i < n /\ kStackBase + s = kStackBase + Down(cpu.SP, i)
      BY <3>1, SlotsBelow
    <3>3. Down(cpu.SP, i) \in Byte
      BY Ring
    <3>4. s = Down(cpu.SP, i)
      BY <2>2, <3>2, <3>3, SlotsDistinct
    <3> QED
      BY <1>3, <2>1, <3>2, <3>4
  <2>5. kStackBase + s \notin T
    OBVIOUS
  <2> QED
    BY <2>3, <2>4, <2>5 DEF WritesIn
<1>6. Holds(f, mem')
  BY <1>5, HoldsKept DEF Live
<1> QED
  BY <1>4, <1>6 DEF LiveAfter

(* A context stays live in a step that pulls n bytes, but none of its own. *)
LEMMA PullKeeps ==
  ASSUME NEW f, IsFrame(f), Live(f), cpu.SP \in Byte, NEW n \in Byte,
         cpu'.SP = Up(cpu.SP, n), mem' = mem, Slots(f) \cap Popped(n) = {}
  PROVE  LiveAfter(f)
<1> DEFINE F    == f.cpu.SP
           size == FrameSize(f.kind)
<1>1. F \in Byte /\ size \in Byte /\ 1 <= size
  BY SizeType DEF IsFrame, CPUState
<1>2. Down(F, cpu.SP) >= size
  BY StackedDown DEF Live
<1>3. ASSUME NEW i \in Byte, NEW j \in Byte, 1 <= i, i <= n, j < size
      PROVE  Up(cpu.SP, i) # Down(F, j)
  <2>1. Down(F, j) \in Slots(f)
    BY <1>3, SlotsOf
  <2>2. i \in 1 .. n
    BY SMT, <1>3, ByteBounds
  <2>3. Up(cpu.SP, i) \in Popped(n)
    BY <2>2 DEF Popped
  <2> QED
    BY <2>1, <2>3
<1>4. Down(F, Up(cpu.SP, n)) >= size
  <2> HIDE DEF F, size
  <2> QED
    BY <1>1, <1>2, <1>3, RingPull
<1> QED
  BY <1>4 DEF Live, LiveAfter

-----------------------------------------------------------------------------
(***************************************************************************)
(* What the pushes store, and where they leave the stack pointer.          *)
(***************************************************************************)

(* A return address pushed: it is there, nothing else is touched. *)
PushedWord(m, sp, w, t) ==
  /\ t.SP = Down(sp, 2)
  /\ At(t.mem, sp, 0) = Hi(w) /\ At(t.mem, sp, 1) = Lo(w)
  /\ WritesIn(m, t.mem, {kStackBase + sp, kStackBase + Pushed(sp)})
  /\ IsStack(t)

(* stack_push_word does it. *)
LEMMA WordStored ==
  ASSUME NEW s, IsStack(s), NEW w \in Word, "RAM" \in Attached
  PROVE  PushedWord(s.mem, s.SP, w, stack_push_word(s, w))
<1> DEFINE p  == s.SP
           p1 == Pushed(p)
           t1 == stack_push_byte(s, Hi(w))
           t2 == stack_push_byte(t1, Lo(w))
           slot(q) == kStackBase + q
<1>1. p \in Byte /\ p1 \in Byte /\ p # p1
  BY PushedType DEF IsStack
<1>2. Hi(w) \in Byte /\ Lo(w) \in Byte
  BY HalvesType
<1>3. slot(p) \in Word /\ slot(p1) \in Word /\ slot(p) # slot(p1)
  BY <1>1, SlotType, SlotsDistinct
<1>4. /\ t1.SP = p1
      /\ \A b \in Word : read_byte(t1.mem, b) = IF b = slot(p) THEN Hi(w) ELSE read_byte(s.mem, b)
  BY <1>2, PushStores
<1>5. IsStack(t1)
  BY <1>2, PushByteType
<1> HIDE DEF t1
<1>6. /\ t2.SP = Pushed(p1)
      /\ \A b \in Word : read_byte(t2.mem, b) = IF b = slot(p1) THEN Lo(w) ELSE read_byte(t1.mem, b)
  BY <1>2, <1>4, <1>5, PushStores
<1> HIDE DEF t2
<1>7. read_byte(t2.mem, slot(p)) = Hi(w) /\ read_byte(t2.mem, slot(p1)) = Lo(w)
  BY <1>3, <1>4, <1>6
<1>8. Down(p, 0) = p /\ Down(p, 1) = p1 /\ Down(p, 2) = Pushed(p1)
  BY <1>1, PushedDown
<1>9. stack_push_word(s, w) = t2
  BY DEF stack_push_word, t2, t1
<1>10. /\ WritesIn(s.mem, stack_push_word(s, w).mem, {kStackBase + s.SP, kStackBase + Pushed(s.SP)})
       /\ IsStack(stack_push_word(s, w))
  BY PushWordTouches
<1> QED
  BY <1>6, <1>7, <1>8, <1>9, <1>10 DEF PushedWord, At

(* A frame pushed by handle_irq, handle_nmi or op_brk. *)
PushedFrame(c, m, status, t) ==
  /\ t.SP = Down(c.SP, 3)
  /\ MkWord(At(t.mem, c.SP, 1), At(t.mem, c.SP, 0)) = c.PC
  /\ Bits(At(t.mem, c.SP, 2)) = status
  /\ WritesIn(m, t.mem, {kStackBase + c.SP, kStackBase + Pushed(c.SP),
                         kStackBase + Pushed(Pushed(c.SP))})

(* The three bytes of a saved frame do it. *)
LEMMA FrameStored ==
  ASSUME NEW c \in CPUState, NEW m, IsMemory(m), NEW status \in SUBSET Masks, "RAM" \in Attached
  PROVE  PushedFrame(c, m, status, SavedFrame(c, m, status))
<1> DEFINE s0 == Stack(c, m)
           s2 == stack_push_word(s0, c.PC)
           s3 == stack_push_byte(s2, FromBits(status))
           p  == c.SP
           p1 == Pushed(p)
           p2 == Pushed(p1)
           slot(q) == kStackBase + q
<1>1. c.PC \in Word /\ p \in Byte /\ FromBits(status) \in Byte
  BY FromBitsType DEF CPUState
<1>2. IsStack(s0) /\ s0.SP = p /\ s0.mem = m
  BY StackType DEF Stack
<1>3. PushedWord(m, p, c.PC, s2)
  BY <1>1, <1>2, WordStored
<1> HIDE DEF s0, s2
<1>4. IsStack(s2) /\ s2.SP = p2
  BY <1>1, <1>3, PushedDown DEF PushedWord
<1>5. /\ s3.SP = Pushed(p2)
      /\ \A b \in Word : read_byte(s3.mem, b) =
                           IF b = slot(p2) THEN FromBits(status) ELSE read_byte(s2.mem, b)
  BY <1>1, <1>4, PushStores
<1>6. WritesIn(s2.mem, s3.mem, {kStackBase + p2})
  BY <1>1, <1>4, PushTouches
<1> HIDE DEF s3
<1>7. p1 \in Byte /\ p2 \in Byte /\ p # p1 /\ p # p2 /\ p1 # p2
  BY <1>1, PushedType
<1>8. slot(p) \in Word /\ slot(p1) \in Word /\ slot(p2) \in Word
      /\ slot(p2) # slot(p) /\ slot(p2) # slot(p1)
  BY <1>1, <1>7, SlotType, SlotsDistinct
<1>9. Down(p, 0) = p /\ Down(p, 1) = p1 /\ Down(p, 2) = p2 /\ Down(p, 3) = Pushed(p2)
  BY <1>1, PushedDown
<1>10. /\ At(s3.mem, p, 0) = Hi(c.PC) /\ At(s3.mem, p, 1) = Lo(c.PC)
       /\ At(s3.mem, p, 2) = FromBits(status)
  BY <1>3, <1>5, <1>8, <1>9 DEF PushedWord, At
<1>11. MkWord(At(s3.mem, p, 1), At(s3.mem, p, 0)) = c.PC /\ Bits(At(s3.mem, p, 2)) = status
  BY <1>1, <1>10, HalvesMakeWord, BitsFromBits
<1>12. WritesIn(m, s3.mem, {slot(p), slot(p1)} \cup {slot(p2)})
  BY <1>3, <1>6, WritesCompose DEF PushedWord
<1>13. {slot(p), slot(p1)} \cup {slot(p2)} = {slot(p), slot(p1), slot(p2)}
  OBVIOUS
<1>14. WritesIn(m, s3.mem, {slot(p), slot(p1), slot(p2)})
  BY <1>12, <1>13
<1>15. SavedFrame(c, m, status) = s3
  BY DEF SavedFrame, s3, s2, s0
<1> QED
  BY <1>5, <1>9, <1>11, <1>14, <1>15 DEF PushedFrame

(* The stack pointer after an instruction that neither pulls nor is TXS. *)
LEMMA StackPointerDown ==
  ASSUME Good, Instructions, instruction.code \notin {"pla", "plp", "rts", "rti", "txs"}
  PROVE  cpu'.SP = Down(cpu.SP, Pushes(instruction.code))
<1> DEFINE code == instruction.code
<1>1. TypeOK /\ cpu.SP \in Byte /\ fetched \in CPUState /\ fetched.SP = cpu.SP
  BY InstructionParts DEF Good
<1>2. /\ Down(cpu.SP, 0) = cpu.SP /\ Down(cpu.SP, 1) = Pushed(cpu.SP)
      /\ Down(cpu.SP, 2) = Pushed(Pushed(cpu.SP))
      /\ Down(cpu.SP, 3) = Pushed(Pushed(Pushed(cpu.SP)))
  BY <1>1, PushedDown
<1>3. ~op_pla /\ ~op_plp /\ ~op_rts /\ ~op_rti /\ ~op_txs
  BY OpCodes
<1>4. cpu'.SP = cpu.SP /\ code \notin {"brk", "jsr", "pha", "php"}
        => cpu'.SP = Down(cpu.SP, Pushes(code))
  BY <1>2 DEF Pushes
<1>5. CASE op_and \/ op_eor \/ op_ora \/ op_lda \/ op_txa \/ op_tya
  BY <1>1, <1>4, <1>5, OpCodes DEF op_and, op_eor, op_ora, op_lda, op_txa, op_tya, AssignA,
     Retire, CPUState
<1>6. CASE op_ldx \/ op_dex \/ op_inx \/ op_tax \/ op_tsx
  BY <1>1, <1>4, <1>6, OpCodes DEF op_ldx, op_dex, op_inx, op_tax, op_tsx, AssignX, Retire,
     CPUState
<1>7. CASE op_ldy \/ op_dey \/ op_iny \/ op_tay
  BY <1>1, <1>4, <1>7, OpCodes DEF op_ldy, op_dey, op_iny, op_tay, AssignY, Retire, CPUState
<1>8. CASE op_inc \/ op_dec
  BY <1>1, <1>4, <1>8, OpCodes DEF op_inc, op_dec, Modify, Retire, CPUState
<1>9. CASE op_asl \/ op_lsr \/ op_rol \/ op_ror
  BY <1>1, <1>4, <1>9, OpCodes DEF op_asl, op_lsr, op_rol, op_ror, Shift, Retire, CPUState
<1>10. CASE op_bcc \/ op_bcs \/ op_beq \/ op_bmi \/ op_bne \/ op_bpl \/ op_bvs
  BY <1>1, <1>4, <1>10, OpCodes DEF op_bcc, op_bcs, op_beq, op_bmi, op_bne, op_bpl, op_bvs,
     Branch, Retire, CPUState
<1>11. CASE op_clc \/ op_cld \/ op_cli \/ op_clv \/ op_sec \/ op_sed \/ op_sei
  BY <1>1, <1>4, <1>11, OpCodes DEF op_clc, op_cld, op_cli, op_clv, op_sec, op_sed, op_sei,
     SetFlag, Retire, CPUState
<1>12. CASE op_cmp \/ op_cpx \/ op_cpy
  BY <1>1, <1>4, <1>12, OpCodes DEF op_cmp, op_cpx, op_cpy, Compare, Retire, CPUState
<1>13. CASE op_adc \/ op_sbc \/ op_bit
  BY <1>1, <1>4, <1>13, OpCodes DEF op_adc, op_sbc, op_bit, Retire, CPUState
<1>14. CASE op_illegal \/ op_jmp \/ op_nop \/ op_sta \/ op_stx \/ op_sty
  BY <1>1, <1>4, <1>14, OpCodes DEF op_illegal, op_jmp, op_nop, op_sta, op_stx, op_sty, Retire,
     CPUState
<1>15. CASE op_wai
  BY <1>1, <1>4, <1>15, OpCodes DEF op_wai
<1>16. CASE op_pha \/ op_php
  <2>1. \E v : cpu'.SP = stack_push_byte(Stack(cpu, mem), v).SP
    BY <1>1, <1>16 DEF op_pha, op_php, Push, Retire, CPUState
  <2>2. cpu'.SP = Pushed(cpu.SP)
    BY <2>1 DEF stack_push_byte, Stack, Pushed
  <2>3. Pushes(code) = 1
    BY <1>16, OpCodes DEF Pushes
  <2> QED
    BY <1>2, <2>2, <2>3
<1>17. CASE op_jsr
  <2> DEFINE w == U16(fetched.PC - 1)
             s == stack_push_word(Stack(cpu, mem), w)
  <2>1. cpu'.SP = s.SP
    BY <1>1, <1>17 DEF op_jsr, Retire, CPUState
  <2>2. s.SP = Pushed(Pushed(cpu.SP))
    BY DEF stack_push_word, stack_push_byte, Stack, Pushed
  <2>3. Pushes(code) = 2
    BY <1>17, OpCodes DEF Pushes
  <2> QED
    BY <1>2, <2>1, <2>2, <2>3
<1>18. CASE op_brk
  <2> DEFINE c == [fetched EXCEPT !.PC = U16(@ + 1)]
             s == SavedFrame(c, mem, c.STATUS \cup {kMaskBreak})
  <2>1. cpu'.SP = s.SP /\ c.SP = cpu.SP
    BY <1>1, <1>18 DEF op_brk, Retire, Entered, CPUState
  <2>2. s.SP = Pushed(Pushed(Pushed(c.SP)))
    <3> HIDE DEF c
    <3> QED
      BY DEF SavedFrame, stack_push_word, stack_push_byte, Stack, Pushed
  <2>3. Pushes(code) = 3
    BY <1>18, OpCodes DEF Pushes
  <2> QED
    BY <1>2, <2>1, <2>2, <2>3
<1> QED
  BY <1>3, <1>5, <1>6, <1>7, <1>8, <1>9, <1>10, <1>11, <1>12, <1>13, <1>14, <1>15, <1>16,
     <1>17, <1>18 DEF Instructions

(* The instructions that pull. *)
LEMMA StackPointerUp ==
  ASSUME Good, op_pla \/ op_plp \/ op_rts \/ op_rti
  PROVE  cpu'.SP = Up(cpu.SP, PoppedBytes[instruction.code]) /\ mem' = mem
<1> DEFINE code == instruction.code
           p    == cpu.SP
           up(q) == IF q = \hFF THEN 0 ELSE q + 1
<1>1. TypeOK /\ p \in Byte /\ fetched \in CPUState /\ fetched.SP = p
  BY InstructionParts DEF Good
<1>2. p \in Int /\ 0 <= p /\ p <= 255
  BY <1>1, ByteBounds
<1>3. \A n \in Byte : Up(p, n) = IF p + n <= 255 THEN p + n ELSE p + n - 256
  BY <1>1, Ring
<1>4. /\ Up(p, 1) = IF p + 1 <= 255 THEN p + 1 ELSE p + 1 - 256
      /\ Up(p, 2) = IF p + 2 <= 255 THEN p + 2 ELSE p + 2 - 256
      /\ Up(p, 3) = IF p + 3 <= 255 THEN p + 3 ELSE p + 3 - 256
  BY <1>3, SmallBytes
<1>5. Up(p, 1) = up(p) /\ Up(p, 2) = up(up(p)) /\ Up(p, 3) = up(up(up(p)))
  <2> HIDE DEF p
  <2> QED
    BY SMT, <1>2, <1>4
<1>6. /\ stack_pop_byte(Stack(cpu, mem)).SP = up(p)
      /\ stack_pop_word(Stack(cpu, mem)).SP = up(up(p))
      /\ stack_pop_word(stack_pop_byte(Stack(cpu, mem))).SP = up(up(up(p)))
  BY DEF stack_pop_word, stack_pop_byte, Stack
<1> HIDE DEF up
<1>7. CASE op_pla \/ op_plp
  <2>1. cpu'.SP = up(p) /\ mem' = mem
    BY <1>1, <1>6, <1>7 DEF op_pla, op_plp, Retire, CPUState
  <2>2. PoppedBytes[code] = 1
    BY <1>7, OpCodes DEF PoppedBytes
  <2> QED
    BY <1>5, <2>1, <2>2
<1>8. CASE op_rts
  <2>1. cpu'.SP = up(up(p)) /\ mem' = mem
    BY <1>1, <1>6, <1>8 DEF op_rts, Retire, CPUState
  <2>2. PoppedBytes[code] = 2
    BY <1>8, OpCodes DEF PoppedBytes
  <2> QED
    BY <1>5, <2>1, <2>2
<1>9. CASE op_rti
  <2>1. cpu'.SP = up(up(up(p))) /\ mem' = mem
    BY <1>1, <1>6, <1>9 DEF op_rti, Retire, CPUState
  <2>2. PoppedBytes[code] = 3
    BY <1>9, OpCodes DEF PoppedBytes
  <2> QED
    BY <1>5, <2>1, <2>2
<1> QED
  BY <1>7, <1>8, <1>9

-----------------------------------------------------------------------------
(***************************************************************************)
(* A CPU that handles an interrupt or executes an instruction has met no   *)
(* illegal opcode and is not shut down.                                    *)
(***************************************************************************)
Quiet ==
  /\ ~cpu.shutdown
  /\ cpu.illegal_opcode => ~serving /\ at \in {"cycle_irq", "stopped"}

(* No instruction sets shutdown. *)
LEMMA ShutdownKept ==
  ASSUME TypeOK, Instructions
  PROVE  cpu'.shutdown = cpu.shutdown
<1>1. fetched \in CPUState /\ fetched.shutdown = cpu.shutdown
  BY InstructionParts DEF fetched, CPUState
<1>2. CASE op_and \/ op_eor \/ op_ora \/ op_lda \/ op_txa \/ op_tya
  BY <1>1, <1>2 DEF op_and, op_eor, op_ora, op_lda, op_txa, op_tya, AssignA, Retire, CPUState
<1>3. CASE op_ldx \/ op_dex \/ op_inx \/ op_tax \/ op_tsx
  BY <1>1, <1>3 DEF op_ldx, op_dex, op_inx, op_tax, op_tsx, AssignX, Retire, CPUState
<1>4. CASE op_ldy \/ op_dey \/ op_iny \/ op_tay
  BY <1>1, <1>4 DEF op_ldy, op_dey, op_iny, op_tay, AssignY, Retire, CPUState
<1>5. CASE op_inc \/ op_dec \/ op_asl \/ op_lsr \/ op_rol \/ op_ror
  BY <1>1, <1>5 DEF op_inc, op_dec, op_asl, op_lsr, op_rol, op_ror, Modify, Shift, Retire,
     CPUState
<1>6. CASE op_bcc \/ op_bcs \/ op_beq \/ op_bmi \/ op_bne \/ op_bpl \/ op_bvs
  BY <1>1, <1>6 DEF op_bcc, op_bcs, op_beq, op_bmi, op_bne, op_bpl, op_bvs, Branch, Retire,
     CPUState
<1>7. CASE op_clc \/ op_cld \/ op_cli \/ op_clv \/ op_sec \/ op_sed \/ op_sei
  BY <1>1, <1>7 DEF op_clc, op_cld, op_cli, op_clv, op_sec, op_sed, op_sei, SetFlag, Retire,
     CPUState
<1>8. CASE op_cmp \/ op_cpx \/ op_cpy \/ op_adc \/ op_sbc \/ op_bit
  BY <1>1, <1>8 DEF op_cmp, op_cpx, op_cpy, Compare, op_adc, op_sbc, op_bit, Retire, CPUState
<1>9. CASE op_illegal \/ op_jmp \/ op_nop \/ op_sta \/ op_stx \/ op_sty \/ op_txs \/ op_wai
  BY <1>1, <1>9 DEF op_illegal, op_jmp, op_nop, op_sta, op_stx, op_sty, op_txs, op_wai, Retire,
     CPUState
<1>10. CASE op_pha \/ op_php \/ op_pla \/ op_plp \/ op_jsr \/ op_rts \/ op_rti
  BY <1>1, <1>10 DEF op_pha, op_php, Push, op_pla, op_plp, op_jsr, op_rts, op_rti, Retire,
     CPUState
<1>11. CASE op_brk
  BY <1>1, <1>11 DEF op_brk, Entered, Retire, CPUState
<1> QED
  BY <1>2, <1>3, <1>4, <1>5, <1>6, <1>7, <1>8, <1>9, <1>10, <1>11 DEF Instructions

(* An instruction but WAI retires to the loop of CPU::start. *)
LEMMA RetiresToCycle ==
  ASSUME Instructions, ~op_wai
  PROVE  at' = "cycle_irq"
<1> USE DEF Retire
<1>1. CASE op_and \/ op_eor \/ op_ora \/ op_lda \/ op_txa \/ op_tya
  BY <1>1 DEF op_and, op_eor, op_ora, op_lda, op_txa, op_tya, AssignA
<1>2. CASE op_ldx \/ op_dex \/ op_inx \/ op_tax \/ op_tsx
  BY <1>2 DEF op_ldx, op_dex, op_inx, op_tax, op_tsx, AssignX
<1>3. CASE op_ldy \/ op_dey \/ op_iny \/ op_tay
  BY <1>3 DEF op_ldy, op_dey, op_iny, op_tay, AssignY
<1>4. CASE op_inc \/ op_dec \/ op_asl \/ op_lsr \/ op_rol \/ op_ror
  BY <1>4 DEF op_inc, op_dec, op_asl, op_lsr, op_rol, op_ror, Modify, Shift
<1>5. CASE op_bcc \/ op_bcs \/ op_beq \/ op_bmi \/ op_bne \/ op_bpl \/ op_bvs
  BY <1>5 DEF op_bcc, op_bcs, op_beq, op_bmi, op_bne, op_bpl, op_bvs, Branch
<1>6. CASE op_clc \/ op_cld \/ op_cli \/ op_clv \/ op_sec \/ op_sed \/ op_sei
  BY <1>6 DEF op_clc, op_cld, op_cli, op_clv, op_sec, op_sed, op_sei, SetFlag
<1>7. CASE op_cmp \/ op_cpx \/ op_cpy \/ op_adc \/ op_sbc \/ op_bit
  BY <1>7 DEF op_cmp, op_cpx, op_cpy, Compare, op_adc, op_sbc, op_bit
<1>8. CASE op_illegal \/ op_jmp \/ op_nop \/ op_sta \/ op_stx \/ op_sty \/ op_txs
  BY <1>8 DEF op_illegal, op_jmp, op_nop, op_sta, op_stx, op_sty, op_txs
<1>9. CASE op_pha \/ op_php \/ op_pla \/ op_plp \/ op_jsr \/ op_rts \/ op_rti \/ op_brk
  BY <1>9 DEF op_pha, op_php, Push, op_pla, op_plp, op_jsr, op_rts, op_rti, op_brk
<1> QED
  BY <1>1, <1>2, <1>3, <1>4, <1>5, <1>6, <1>7, <1>8, <1>9 DEF Instructions

(* Every step keeps it. *)
LEMMA QuietStep ==
  ASSUME TypeOK, PollInv, Quiet, [Next]_vars
  PROVE  Quiet'
<1>1. cpu \in CPUState
  BY DEF TypeOK
<1>2. CASE start_returns
  BY <1>2 DEF start_returns, Quiet
<1>3. CASE Poll
  <2>1. at \in PollPlace /\ (at = "cycle_irq" => ~cpu.illegal_opcode) /\ cpu' = cpu
    BY <1>3 DEF Poll
  <2> QED
    BY <2>1 DEF Quiet, PollPlace
<1>4. CASE handle_irq \/ handle_nmi
  BY <1>1, <1>4 DEF handle_irq, handle_nmi, Handle, Entered, Quiet, CPUState
<1>5. CASE handle_res
  BY <1>1, <1>5 DEF handle_res, Handle, ResetState, Quiet, CPUState
<1>6. CASE Instructions
  <2>1. at = "fetch" /\ at' \in {"cycle_irq", "wai_test"} /\ serving' = serving
    BY <1>6, InstructionsFrame DEF InstructionFrame
  <2>2. ~serving /\ ~cpu.illegal_opcode
    BY <2>1 DEF PollInv, PollPlace, Quiet
  <2>3. ~cpu'.shutdown
    BY <1>6, ShutdownKept DEF Quiet
  <2>4. at' = "cycle_irq" \/ cpu'.illegal_opcode = cpu.illegal_opcode
    <3>1. CASE op_wai
      BY <1>1, <3>1 DEF op_wai, fetched, CPUState
    <3>2. CASE ~op_wai
      BY <1>6, <3>2, RetiresToCycle
    <3> QED
      BY <3>1, <3>2
  <2> QED
    BY <2>1, <2>2, <2>3, <2>4 DEF Quiet
<1>7. CASE wai_test \/ wai_sleep \/ spurious_wakeup
  BY <1>7 DEF wai_test, wai_sleep, spurious_wakeup, Quiet
<1>8. ASSUME NEW d \in Devices, notify_one(d)
      PROVE  Quiet'
  BY <1>8 DEF notify_one, Quiet
<1>9. ASSUME NEW d \in Devices, NEW l \in Lines[d], raise_flag(d, l)
      PROVE  Quiet'
  BY <1>9 DEF raise_flag, Quiet
<1>10. CASE UNCHANGED vars
  BY <1>10 DEF vars, Quiet
<1> QED
  BY <1>2, <1>3, <1>4, <1>5, <1>6, <1>7, <1>8, <1>9, <1>10 DEF Next, CPUThread

-----------------------------------------------------------------------------
(***************************************************************************)
(* What a step does to the contexts.                                       *)
(***************************************************************************)

(* An instruction: Track's inner distinction. *)
InstructionTrack ==
  LET code == instruction.code
  IN  /\ code = "brk" =>
           Save("brk", [fetched EXCEPT !.PC = U16(@ + 1)], cpu.STATUS \cup {kMaskBreak})
      /\ code = "jsr" => Save("jsr", fetched, cpu.STATUS)
      /\ code = "txs" => frames' = <<>>
      /\ code \in {"pla", "plp", "rts", "rti"} => Drop(PoppedBytes[code])
      /\ code \notin {"brk", "jsr", "txs", "pla", "plp", "rts", "rti"} => frames' = frames

(* A step handles an interrupt, executes an instruction, or leaves the     *)
(* registers, the memory and the contexts alone.                           *)
LEMMA ContextSteps ==
  ASSUME TypeOK, [CtxNext]_ctxVars
  PROVE  \/ handle_irq /\ Entering("irq") /\ Save("irq", cpu, cpu.STATUS)
         \/ handle_nmi /\ Entering("nmi") /\ Save("nmi", cpu, cpu.STATUS)
         \/ handle_res /\ frames' = <<>>
         \/ Instructions /\ at = "fetch" /\ at' # at /\ InstructionTrack
         \/ UNCHANGED <<cpu, mem, frames>>
<1>1. CASE UNCHANGED ctxVars
  BY <1>1 DEF ctxVars
<1> SUFFICES ASSUME Next, Track
             PROVE  \/ handle_irq /\ Entering("irq") /\ Save("irq", cpu, cpu.STATUS)
                    \/ handle_nmi /\ Entering("nmi") /\ Save("nmi", cpu, cpu.STATUS)
                    \/ handle_res /\ frames' = <<>>
                    \/ Instructions /\ at = "fetch" /\ at' # at /\ InstructionTrack
                    \/ UNCHANGED <<cpu, mem, frames>>
  BY <1>1 DEF CtxNext
<1>2. "fetch" \notin PollPlace
  BY DEF PollPlace
<1>3. CASE handle_irq
  <2>1. Entering("irq") /\ serving # serving'
    BY <1>3 DEF handle_irq, Handle, Entering
  <2>2. ~Entering("nmi") /\ ~Entering("res") /\ at # "fetch"
    BY <1>2, <2>1 DEF Entering
  <2> QED
    BY <1>3, <2>1, <2>2 DEF Track
<1>4. CASE handle_nmi
  <2>1. Entering("nmi") /\ serving # serving'
    BY <1>4 DEF handle_nmi, Handle, Entering
  <2>2. ~Entering("irq") /\ ~Entering("res") /\ at # "fetch"
    BY <1>2, <2>1 DEF Entering
  <2> QED
    BY <1>4, <2>1, <2>2 DEF Track
<1>5. CASE handle_res
  <2>1. Entering("res") /\ serving # serving'
    BY <1>5 DEF handle_res, Handle, Entering
  <2>2. ~Entering("irq") /\ ~Entering("nmi") /\ at # "fetch"
    BY <1>2, <2>1 DEF Entering
  <2> QED
    BY <1>5, <2>1, <2>2 DEF Track
<1>6. CASE Instructions
  <2>1. at = "fetch" /\ at' # at
    BY <1>6, InstructionsFrame DEF InstructionFrame
  <2>2. ~Entering("irq") /\ ~Entering("nmi") /\ ~Entering("res")
    BY <1>2, <2>1 DEF Entering
  <2>3. DOMAIN PoppedBytes = {"pla", "plp", "rts", "rti"}
    BY DEF PoppedBytes
  <2>4. (CASE instruction.code = "brk" ->
                Save("brk", [fetched EXCEPT !.PC = U16(@ + 1)], cpu.STATUS \cup {kMaskBreak})
           [] instruction.code = "jsr" -> Save("jsr", fetched, cpu.STATUS)
           [] instruction.code = "txs" -> frames' = <<>>
           [] instruction.code \in DOMAIN PoppedBytes -> Drop(PoppedBytes[instruction.code])
           [] OTHER -> UNCHANGED frames)
    BY <2>1, <2>2 DEF Track
  <2>5. InstructionTrack
    BY <2>3, <2>4 DEF InstructionTrack
  <2> QED
    BY <1>6, <2>1, <2>5
<1>7. ASSUME UNCHANGED <<cpu, mem>>, serving = serving' \/ ~serving, at # "fetch" \/ at' = at
      PROVE  UNCHANGED <<cpu, mem, frames>>
  <2>1. ~(Entering("irq") /\ serving # serving') /\ ~(Entering("nmi") /\ serving # serving')
        /\ ~(Entering("res") /\ serving # serving') /\ ~(at = "fetch" /\ at' # at)
    BY <1>7 DEF Entering
  <2>2. UNCHANGED frames
    BY <2>1 DEF Track
  <2> QED
    BY <1>7, <2>2
<1>8. CASE start_returns
  BY <1>7, <1>8 DEF start_returns
<1>9. CASE Poll
  BY <1>2, <1>7, <1>9 DEF Poll
<1>10. CASE wai_test \/ wai_sleep \/ spurious_wakeup
  BY <1>7, <1>10 DEF wai_test, wai_sleep, spurious_wakeup
<1>11. ASSUME NEW d \in Devices, notify_one(d)
       PROVE  UNCHANGED <<cpu, mem, frames>>
  BY <1>7, <1>11 DEF notify_one
<1>12. ASSUME NEW d \in Devices, NEW l \in Lines[d], raise_flag(d, l)
       PROVE  UNCHANGED <<cpu, mem, frames>>
  BY <1>7, <1>12 DEF raise_flag
<1> QED
  BY <1>3, <1>4, <1>5, <1>6, <1>8, <1>9, <1>10, <1>11, <1>12 DEF Next, CPUThread

-----------------------------------------------------------------------------
(***************************************************************************)
(* The contexts, as a sequence.                                            *)
(***************************************************************************)
IsSeq(s) == \E S : s \in Seq(S)

(* One more element. *)
LEMMA AppendSeq ==
  ASSUME NEW s, IsSeq(s), NEW e
  PROVE  /\ IsSeq(Append(s, e)) /\ Len(s) \in Nat /\ Len(Append(s, e)) = Len(s) + 1
         /\ \A i \in 1 .. Len(s) : Append(s, e)[i] = s[i]
         /\ Append(s, e)[Len(s) + 1] = e
<1>1. PICK S : s \in Seq(S)
  BY DEF IsSeq
<1>2. s \in Seq(S \cup {e}) /\ e \in S \cup {e}
  BY <1>1
<1>3. Append(s, e) \in Seq(S \cup {e})
  BY <1>2
<1> QED
  BY <1>2, <1>3 DEF IsSeq

(* The first k elements. *)
LEMMA PrefixSeq ==
  ASSUME NEW s, IsSeq(s), NEW k \in 0 .. Len(s)
  PROVE  /\ IsSeq(SubSeq(s, 1, k)) /\ Len(SubSeq(s, 1, k)) = k
         /\ \A i \in 1 .. k : SubSeq(s, 1, k)[i] = s[i]
<1>1. PICK S : s \in Seq(S)
  BY DEF IsSeq
<1>2. SubSeq(s, 1, k) \in Seq(S) /\ Len(SubSeq(s, 1, k)) = k
  BY <1>1
<1>3. \A i \in 1 .. k : SubSeq(s, 1, k)[i] = s[i]
  BY <1>1
<1> QED
  BY <1>2, <1>3 DEF IsSeq

(* Every context on the list is one, and is live. *)
Contexts == IsSeq(frames) /\ \A i \in 1 .. Len(frames) : IsFrame(frames[i]) /\ Live(frames[i])

(* It survives a step that keeps contexts live and saves one, ... *)
LEMMA ContextsSaved ==
  ASSUME Contexts, \A i \in 1 .. Len(frames) : LiveAfter(frames[i]),
         NEW e, IsFrame(e), LiveAfter(e), frames' = Append(frames, e)
  PROVE  Contexts'
<1>1. /\ IsSeq(frames') /\ Len(frames) \in Nat /\ Len(frames') = Len(frames) + 1
      /\ \A i \in 1 .. Len(frames) : frames'[i] = frames[i]
      /\ frames'[Len(frames) + 1] = e
  BY AppendSeq DEF Contexts
<1>2. ASSUME NEW i \in 1 .. Len(frames')
      PROVE  IsFrame(frames'[i]) /\ LiveAfter(frames'[i])
  <2>1. i \in 1 .. Len(frames) \/ i = Len(frames) + 1
    BY <1>1
  <2> QED
    BY <1>1, <2>1 DEF Contexts
<1> QED
  BY <1>1, <1>2 DEF Contexts, Live, LiveAfter

(* ... or one that keeps the first k. *)
LEMMA ContextsDropped ==
  ASSUME Contexts, NEW k \in 0 .. Len(frames), frames' = SubSeq(frames, 1, k),
         \A i \in 1 .. k : LiveAfter(frames[i])
  PROVE  Contexts'
<1>1. /\ IsSeq(frames') /\ Len(frames') = k
      /\ \A i \in 1 .. k : frames'[i] = frames[i]
  BY PrefixSeq DEF Contexts
<1>2. \A i \in 1 .. k : i \in 1 .. Len(frames)
  BY AppendSeq DEF Contexts
<1>3. \A i \in 1 .. k : IsFrame(frames'[i]) /\ LiveAfter(frames'[i])
  BY <1>1, <1>2 DEF Contexts
<1> QED
  BY <1>1, <1>3 DEF Contexts, Live, LiveAfter

(* ... or all. *)
LEMMA ContextsKept ==
  ASSUME Contexts, frames' = frames, \A i \in 1 .. Len(frames) : LiveAfter(frames[i])
  PROVE  Contexts'
BY DEF Contexts, Live, LiveAfter

(* A context just saved with n bytes is above the stack pointer. *)
LEMMA JustSaved ==
  ASSUME NEW f, IsFrame(f), NEW n \in Byte, n = FrameSize(f.kind),
         cpu'.SP = Down(f.cpu.SP, n), Holds(f, mem')
  PROVE  LiveAfter(f)
<1> DEFINE F == f.cpu.SP
<1>1. F \in Byte
  BY DEF IsFrame, CPUState
<1>2. F \in Int /\ 0 <= F /\ F <= 255 /\ n \in Int /\ 0 <= n /\ n <= 255
  BY <1>1, ByteBounds
<1>3. Down(F, n) \in Byte /\ Down(F, n) = IF n <= F THEN F - n ELSE F - n + 256
  BY <1>1, Ring
<1>4. Down(F, Down(F, n)) = IF Down(F, n) <= F THEN F - Down(F, n) ELSE F - Down(F, n) + 256
  BY <1>1, <1>3, Ring
<1>5. Down(F, Down(F, n)) >= n
  <2> HIDE DEF F
  <2> QED
    BY SMT, <1>2, <1>3, <1>4
<1> QED
  BY <1>5 DEF LiveAfter

(* An interrupt entered saves its context and keeps the others. *)
LEMMA EntryKeeps ==
  ASSUME "RAM" \in Attached, Good, Quiet, Contexts, StackDiscipline,
         NEW kind \in {"irq", "nmi"}, Entering(kind), Save(kind, cpu, cpu.STATUS),
         NEW vector, cpu' = Entered(cpu, SavedFrame(cpu, mem, cpu.STATUS), vector),
         mem' = SavedFrame(cpu, mem, cpu.STATUS).mem
  PROVE  Contexts'
<1> DEFINE e == [kind |-> kind, cpu |-> cpu, mem |-> mem, status |-> cpu.STATUS]
           s == SavedFrame(cpu, mem, cpu.STATUS)
           elsewhere == {}
<1>1. cpu \in CPUState /\ IsMemory(mem) /\ cpu.SP \in Byte /\ cpu.STATUS \in SUBSET Masks
  BY InstructionParts DEF Good
<1>2. PushedFrame(cpu, mem, cpu.STATUS, s)
  BY <1>1, FrameStored
<1>3. cpu'.SP = s.SP /\ mem' = s.mem
  BY <1>1 DEF Entered, CPUState
<1> HIDE DEF s
<1>4. cpu'.SP = Down(cpu.SP, 3) /\ WritesIn(mem, mem', PushSlots(3) \cup elsewhere)
  <2>1. PushSlots(3) \cup elsewhere = {kStackBase + cpu.SP, kStackBase + Pushed(cpu.SP),
                                       kStackBase + Pushed(Pushed(cpu.SP))}
    BY <1>1, SlotsPushed
  <2> QED
    BY <1>2, <1>3, <2>1 DEF PushedFrame
<1>5. at # "fetch" /\ Pushing = 3 /\ serving
  BY DEF Entering, Pushing, PollPlace
<1>6. ASSUME NEW i \in 1 .. Len(frames)
      PROVE  LiveAfter(frames[i])
  <2>1. IsFrame(frames[i]) /\ Live(frames[i])
    BY DEF Contexts
  <2>2. Stacked(frames[i]) + 3 <= 255
    BY <1>5 DEF StackDiscipline
  <2>3. \A s1 \in Slots(frames[i]) : kStackBase + s1 \notin elsewhere
    OBVIOUS
  <2> HIDE DEF elsewhere
  <2> QED
    BY <1>1, <1>4, <2>1, <2>2, <2>3, SmallBytes, PushKeeps
<1>7. IsFrame(e)
  <2>1. ~cpu.illegal_opcode /\ ~cpu.shutdown /\ kMaskConstant \in cpu.STATUS
    BY <1>5 DEF Quiet, Good, ConstantFlagSet
  <2> QED
    BY <1>1, <2>1 DEF IsFrame, Kinds
<1>8. Holds(e, mem')
  BY <1>2, <1>3 DEF PushedFrame, Holds, HoldsState
<1>9. LiveAfter(e)
  <2>1. FrameSize(e.kind) = 3 /\ cpu'.SP = Down(e.cpu.SP, 3)
    BY <1>4 DEF FrameSize
  <2> HIDE DEF e
  <2> QED
    BY <1>7, <1>8, <2>1, SmallBytes, JustSaved
<1>10. frames' = Append(frames, e)
  BY DEF Save
<1> HIDE DEF e
<1> QED
  BY <1>6, <1>7, <1>9, <1>10, ContextsSaved

(* The number of bytes pushed by an instruction. *)
LEMMA PushingInstruction ==
  ASSUME at = "fetch"
  PROVE  Pushing = Pushes(instruction.code) /\ Pushes(instruction.code) \in Byte
<1>1. DOMAIN PushedBytes = {"pha", "php", "jsr", "brk"}
  BY DEF PushedBytes
<1>2. ~Entering("irq") /\ ~Entering("nmi")
  BY DEF Entering, PollPlace
<1> QED
  BY <1>1, <1>2, SmallBytes DEF Pushing, Pushes, PushedBytes

(* An instruction that neither pulls nor is TXS keeps the contexts live. *)
LEMMA InstructionKeeps ==
  ASSUME Good, Contexts, StackDiscipline, Instructions, at = "fetch",
         instruction.code \notin {"pla", "plp", "rts", "rti", "txs"}
  PROVE  \A i \in 1 .. Len(frames) : LiveAfter(frames[i])
<1> DEFINE n == Pushes(instruction.code)
           T == Target(instruction.code)
<1>1. SUFFICES ASSUME NEW i \in 1 .. Len(frames)
               PROVE  LiveAfter(frames[i])
  OBVIOUS
<1>2. IsFrame(frames[i]) /\ Live(frames[i])
  BY DEF Contexts
<1>3. n \in Byte /\ Pushing = n
  BY PushingInstruction
<1>4. cpu.SP \in Byte /\ cpu'.SP = Down(cpu.SP, n)
  BY StackPointerDown, InstructionParts DEF Good
<1>5. WritesIn(mem, mem', PushSlots(n) \cup T)
  BY InstructionWrites
<1>6. Stacked(frames[i]) + n <= 255
  BY <1>3 DEF StackDiscipline
<1>7. \A s \in Slots(frames[i]) : kStackBase + s \notin T
  BY DEF StackDiscipline, Target
<1> HIDE DEF n, T
<1> QED
  BY <1>2, <1>3, <1>4, <1>5, <1>6, <1>7, PushKeeps

(* BRK saves a live context. *)
LEMMA BrkSaves ==
  ASSUME "RAM" \in Attached, Good, ~cpu.illegal_opcode, ~cpu.shutdown, op_brk
  PROVE  LET e == [kind |-> "brk", cpu |-> [fetched EXCEPT !.PC = U16(@ + 1)], mem |-> mem,
                   status |-> cpu.STATUS \cup {kMaskBreak}]
         IN  IsFrame(e) /\ LiveAfter(e)
<1> DEFINE c == [fetched EXCEPT !.PC = U16(@ + 1)]
           S == cpu.STATUS \cup {kMaskBreak}
           s == SavedFrame(c, mem, S)
           e == [kind |-> "brk", cpu |-> c, mem |-> mem, status |-> S]
<1>1. IsMemory(mem) /\ fetched \in CPUState /\ fetched.STATUS = cpu.STATUS
      /\ cpu.STATUS \subseteq Masks
  BY InstructionParts DEF Good
<1>2. ~fetched.illegal_opcode /\ ~fetched.shutdown
  BY InstructionParts DEF Good, fetched, CPUState
<1>3. c \in CPUState /\ c.STATUS = cpu.STATUS /\ ~c.illegal_opcode /\ ~c.shutdown
  <2>1. fetched.PC + 1 \in Int
    BY <1>1, NextToWord DEF CPUState
  <2>2. U16(fetched.PC + 1) \in Word
    BY <2>1, U16Type
  <2> QED
    BY <1>1, <1>2, <2>2 DEF CPUState
<1>4. S \in SUBSET Masks /\ S \ {kMaskBreak} = cpu.STATUS \ {kMaskBreak}
      /\ kMaskConstant \in cpu.STATUS
  BY <1>1, MaskType DEF Good, ConstantFlagSet
<1>5. cpu'.SP = s.SP /\ mem' = s.mem
  BY <1>1 DEF op_brk, Retire, Entered, CPUState
<1> HIDE DEF c, S
<1>6. PushedFrame(c, mem, S, s)
  BY <1>1, <1>3, <1>4, FrameStored
<1>7. IsFrame(e)
  BY <1>3, <1>4 DEF IsFrame, Kinds
<1>8. Holds(e, mem')
  BY <1>5, <1>6 DEF PushedFrame, Holds, HoldsState
<1>9. FrameSize(e.kind) = 3 /\ cpu'.SP = Down(e.cpu.SP, 3)
  BY <1>5, <1>6 DEF FrameSize, PushedFrame
<1>10. LiveAfter(e)
  <2> HIDE DEF e
  <2> QED
    BY <1>7, <1>8, <1>9, SmallBytes, JustSaved
<1> QED
  BY <1>7, <1>10 DEF c, S

(* JSR's context is its return address. *)
LEMMA JsrSaves ==
  ASSUME "RAM" \in Attached, Good, ~cpu.illegal_opcode, ~cpu.shutdown, op_jsr
  PROVE  LET e == [kind |-> "jsr", cpu |-> fetched, mem |-> mem, status |-> cpu.STATUS]
         IN  IsFrame(e) /\ LiveAfter(e)
<1> DEFINE w == U16(fetched.PC - 1)
           s == stack_push_word(Stack(cpu, mem), w)
           e == [kind |-> "jsr", cpu |-> fetched, mem |-> mem, status |-> cpu.STATUS]
<1>1. IsMemory(mem) /\ fetched \in CPUState /\ fetched.STATUS = cpu.STATUS
      /\ fetched.SP = cpu.SP /\ cpu \in CPUState /\ cpu.STATUS \subseteq Masks
  BY InstructionParts DEF Good
<1>2. ~fetched.illegal_opcode /\ ~fetched.shutdown
  BY <1>1 DEF fetched, CPUState
<1>3. w \in Word
  <2>1. \A p \in Word : p - 1 \in Int
    BY SMT, WordBounds
  <2> QED
    BY <1>1, <2>1, U16Type DEF CPUState
<1>4. cpu'.SP = s.SP /\ mem' = s.mem
  BY <1>1 DEF op_jsr, Retire, CPUState
<1>5. IsStack(Stack(cpu, mem)) /\ Stack(cpu, mem).SP = cpu.SP
  BY <1>1, StackType DEF Stack
<1>6. PushedWord(Stack(cpu, mem).mem, cpu.SP, w, s)
  <2> HIDE DEF w
  <2> QED
    BY <1>3, <1>5, WordStored
<1>7. IsFrame(e)
  BY <1>1, <1>2 DEF IsFrame, Kinds, Good, ConstantFlagSet
<1>8. MkWord(At(mem', cpu.SP, 1), At(mem', cpu.SP, 0)) = w
  BY <1>3, <1>4, <1>6, HalvesMakeWord DEF PushedWord
<1>9. Holds(e, mem')
  BY <1>1, <1>8 DEF Holds, HoldsReturn
<1>10. FrameSize(e.kind) = 2 /\ cpu'.SP = Down(e.cpu.SP, 2)
  BY <1>1, <1>4, <1>6 DEF FrameSize, PushedWord
<1>11. LiveAfter(e)
  <2> HIDE DEF e
  <2> QED
    BY <1>7, <1>9, <1>10, SmallBytes, JustSaved
<1> QED
  BY <1>7, <1>11

(* An instruction that pulls keeps those contexts live of which it pulls   *)
(* no byte.                                                                *)
LEMMA PullDrops ==
  ASSUME Good, Contexts, op_pla \/ op_plp \/ op_rts \/ op_rti, NEW n \in Byte,
         n = PoppedBytes[instruction.code], Drop(n)
  PROVE  Contexts'
<1>1. cpu.SP \in Byte /\ cpu'.SP = Up(cpu.SP, n) /\ mem' = mem
  BY StackPointerUp, InstructionParts DEF Good
<1>2. PICK k \in 0 .. Len(frames) :
        /\ \A i \in 1 .. k : Slots(frames[i]) \cap Popped(n) = {}
        /\ frames' = SubSeq(frames, 1, k)
  BY DEF Drop
<1>3. ASSUME NEW i \in 1 .. k
      PROVE  LiveAfter(frames[i])
  <2>1. i \in 1 .. Len(frames)
    BY AppendSeq DEF Contexts
  <2>2. IsFrame(frames[i]) /\ Live(frames[i])
    BY <2>1 DEF Contexts
  <2>3. Slots(frames[i]) \cap Popped(n) = {}
    BY <1>2
  <2> QED
    BY <1>1, <2>2, <2>3, PullKeeps
<1> QED
  BY <1>2, <1>3, ContextsDropped

(* The instructions and how many bytes they pull. *)
LEMMA PullCodes ==
  ASSUME Instructions
  PROVE  /\ instruction.code \in {"pla", "plp", "rts", "rti"}
              => op_pla \/ op_plp \/ op_rts \/ op_rti
         /\ instruction.code = "rts" => op_rts
         /\ instruction.code = "rti" => op_rti
         /\ instruction.code = "plp" => op_plp
         /\ instruction.code = "brk" => op_brk
         /\ instruction.code = "jsr" => op_jsr
         /\ instruction.code \in {"pla", "plp", "rts", "rti"}
              => PoppedBytes[instruction.code] \in Byte
BY OpCodes, SmallBytes DEF Instructions, PoppedBytes

(* Every disciplined step keeps the contexts. *)
LEMMA ContextsStep ==
  ASSUME "RAM" \in Attached, Good, PollInv, Quiet, Contexts, StackDiscipline, [CtxNext]_ctxVars
  PROVE  Contexts'
<1> DEFINE code == instruction.code
<1>1. TypeOK
  BY DEF Good
<1>2. CASE handle_irq /\ Entering("irq") /\ Save("irq", cpu, cpu.STATUS)
  BY <1>2, EntryKeeps DEF handle_irq
<1>3. CASE handle_nmi /\ Entering("nmi") /\ Save("nmi", cpu, cpu.STATUS)
  BY <1>3, EntryKeeps DEF handle_nmi
<1>4. ASSUME frames' = <<>>
      PROVE  Contexts'
  <2>1. frames' \in Seq({}) /\ Len(frames') = 0
    BY <1>4
  <2> QED
    BY <2>1 DEF Contexts, IsSeq
<1>5. CASE handle_res /\ frames' = <<>>
  BY <1>4, <1>5
<1>6. CASE Instructions /\ at = "fetch" /\ at' # at /\ InstructionTrack
  <2>1. ~cpu.illegal_opcode /\ ~cpu.shutdown
    BY <1>6 DEF Quiet
  <2>2. CASE code = "txs"
    BY <1>4, <1>6, <2>2 DEF InstructionTrack
  <2>3. CASE code \in {"pla", "plp", "rts", "rti"}
    <3>1. Drop(PoppedBytes[code]) /\ PoppedBytes[code] \in Byte
          /\ (op_pla \/ op_plp \/ op_rts \/ op_rti)
      BY <1>6, <2>3, PullCodes DEF InstructionTrack
    <3> QED
      BY <3>1, PullDrops
  <2>4. CASE code \notin {"txs", "pla", "plp", "rts", "rti"}
    <3>1. \A i \in 1 .. Len(frames) : LiveAfter(frames[i])
      BY <1>6, <2>4, InstructionKeeps
    <3>2. CASE code = "brk"
      <4> DEFINE e == [kind |-> "brk", cpu |-> [fetched EXCEPT !.PC = U16(@ + 1)], mem |-> mem,
                       status |-> cpu.STATUS \cup {kMaskBreak}]
      <4>1. IsFrame(e) /\ LiveAfter(e)
        BY <1>6, <2>1, <3>2, PullCodes, BrkSaves
      <4>2. frames' = Append(frames, e)
        BY <1>6, <3>2 DEF InstructionTrack, Save
      <4> HIDE DEF e
      <4> QED
        BY <3>1, <4>1, <4>2, ContextsSaved
    <3>3. CASE code = "jsr"
      <4> DEFINE e == [kind |-> "jsr", cpu |-> fetched, mem |-> mem, status |-> cpu.STATUS]
      <4>1. IsFrame(e) /\ LiveAfter(e)
        BY <1>6, <2>1, <3>3, PullCodes, JsrSaves
      <4>2. frames' = Append(frames, e)
        BY <1>6, <3>3 DEF InstructionTrack, Save
      <4> HIDE DEF e
      <4> QED
        BY <3>1, <4>1, <4>2, ContextsSaved
    <3>4. CASE code \notin {"brk", "jsr"}
      <4>1. frames' = frames
        BY <1>6, <2>4, <3>4 DEF InstructionTrack
      <4> QED
        BY <3>1, <4>1, ContextsKept
    <3> QED
      BY <3>2, <3>3, <3>4
  <2> QED
    BY <2>2, <2>3, <2>4
<1>7. CASE UNCHANGED <<cpu, mem, frames>>
  BY <1>7 DEF Contexts, Live
<1> QED
  BY <1>1, <1>2, <1>3, <1>5, <1>6, <1>7, ContextSteps

-----------------------------------------------------------------------------
(***************************************************************************)
(* The inductive invariant.                                                *)
(***************************************************************************)
ContextsInv == Good /\ PollInv /\ Quiet /\ Contexts

(* A step of the contexts is a step of the CPU. *)
LEMMA CtxStep == [CtxNext]_ctxVars => [Next]_vars
BY DEF CtxNext, ctxVars, vars

(* It holds at the start. *)
LEMMA ContextsInit == CtxInit => ContextsInv
<1> SUFFICES ASSUME CtxInit
             PROVE  ContextsInv
  OBVIOUS
<1>1. Good
  BY InitGood DEF CtxInit
<1>2. PollInv
  BY DEF CtxInit, Init, PollInv
<1>3. Quiet
  BY DEF CtxInit, Init, Quiet, ResetState
<1>4. frames \in Seq({}) /\ Len(frames) = 0
  BY DEF CtxInit
<1>5. Contexts
  BY <1>4 DEF Contexts, IsSeq
<1> QED
  BY <1>1, <1>2, <1>3, <1>5 DEF ContextsInv

(* Every disciplined step keeps it. *)
LEMMA ContextsNext ==
  "RAM" \in Attached =>
    (ContextsInv /\ StackDiscipline /\ [CtxNext]_ctxVars => ContextsInv')
<1> SUFFICES ASSUME "RAM" \in Attached, ContextsInv, StackDiscipline, [CtxNext]_ctxVars
             PROVE  ContextsInv'
  OBVIOUS
<1>1. [Next]_vars /\ TypeOK
  BY CtxStep DEF ContextsInv, Good
<1> QED
  BY <1>1, NextGood, NextPolls, QuietStep, ContextsStep DEF ContextsInv

(* The contexts of a disciplined program are always live. *)
LEMMA AlwaysContexts == "RAM" \in Attached => (CtxSpec /\ []StackDiscipline => []ContextsInv)
<1> SUFFICES ASSUME "RAM" \in Attached
             PROVE  CtxSpec /\ []StackDiscipline => []ContextsInv
  OBVIOUS
<1>1. ContextsInv /\ StackDiscipline /\ [CtxNext]_ctxVars => ContextsInv'
  BY ContextsNext
<1> QED
  BY <1>1, ContextsInit, PTL DEF CtxSpec

(***************************************************************************)
(* If a program never stacks more bytes than the stack page has above its  *)
(* oldest context, and does not store into a context, then every context   *)
(* stays byte for byte where its handler saved it, whatever interrupts,    *)
(* calls, pushes and pulls come in between, and wherever the stack pointer *)
(* wraps.                                                                  *)
(***************************************************************************)
THEOREM ContextsStayIntact ==
  "RAM" \in Attached => (CtxSpec /\ []StackDiscipline => []FramesIntact)
<1>1. ContextsInv => FramesIntact
  BY IntactHolds DEF ContextsInv, Contexts, Live
<1> QED
  BY <1>1, AlwaysContexts, PTL

-----------------------------------------------------------------------------
(***************************************************************************)
(* Coming back.                                                            *)
(***************************************************************************)

(* Adding n to the stack pointer n slots below F leads to F, through the   *)
(* slots of a context saved there.                                         *)
LEMMA RingBack ==
  ASSUME NEW p \in Byte
  PROVE  /\ Down(Up(p, 2), 1) = Up(p, 1) /\ Down(Up(p, 2), 0) = Up(p, 2)
         /\ Down(Up(p, 3), 2) = Up(p, 1) /\ Down(Up(p, 3), 1) = Up(p, 2)
         /\ Down(Up(p, 3), 0) = Up(p, 3)
<1>1. p \in Int /\ 0 <= p /\ p <= 255
  BY ByteBounds
<1>2. \A n \in Byte : Up(p, n) \in Byte /\ Up(p, n) = IF p + n <= 255 THEN p + n ELSE p + n - 256
  BY Ring
<1>3. /\ Up(p, 1) = IF p + 1 <= 255 THEN p + 1 ELSE p + 1 - 256
      /\ Up(p, 2) = IF p + 2 <= 255 THEN p + 2 ELSE p + 2 - 256
      /\ Up(p, 3) = IF p + 3 <= 255 THEN p + 3 ELSE p + 3 - 256
      /\ Up(p, 2) \in Byte /\ Up(p, 3) \in Byte
  BY <1>2, SmallBytes
<1>4. \A q, n \in Byte : Down(q, n) = IF n <= q THEN q - n ELSE q - n + 256
  BY Ring
<1>5. /\ Down(Up(p, 2), 1) = IF 1 <= Up(p, 2) THEN Up(p, 2) - 1 ELSE Up(p, 2) - 1 + 256
      /\ Down(Up(p, 2), 0) = IF 0 <= Up(p, 2) THEN Up(p, 2) - 0 ELSE Up(p, 2) - 0 + 256
      /\ Down(Up(p, 3), 2) = IF 2 <= Up(p, 3) THEN Up(p, 3) - 2 ELSE Up(p, 3) - 2 + 256
      /\ Down(Up(p, 3), 1) = IF 1 <= Up(p, 3) THEN Up(p, 3) - 1 ELSE Up(p, 3) - 1 + 256
      /\ Down(Up(p, 3), 0) = IF 0 <= Up(p, 3) THEN Up(p, 3) - 0 ELSE Up(p, 3) - 0 + 256
  BY <1>3, <1>4, SmallBytes
<1> QED
  BY SMT, <1>1, <1>3, <1>5

(* What the pops return, slot by slot. *)
LEMMA PopsRead ==
  ASSUME NEW c \in CPUState, NEW m
  PROVE  LET byte == stack_pop_byte(Stack(c, m))
         IN  /\ byte.value = read_byte(m, kStackBase + Up(c.SP, 1))
             /\ stack_pop_word(Stack(c, m)).SP = Up(c.SP, 2)
             /\ stack_pop_word(Stack(c, m)).value =
                  MkWord(read_byte(m, kStackBase + Up(c.SP, 1)),
                         read_byte(m, kStackBase + Up(c.SP, 2)))
             /\ stack_pop_word(byte).SP = Up(c.SP, 3)
             /\ stack_pop_word(byte).value =
                  MkWord(read_byte(m, kStackBase + Up(c.SP, 2)),
                         read_byte(m, kStackBase + Up(c.SP, 3)))
<1> DEFINE p == c.SP
           up(q) == IF q = \hFF THEN 0 ELSE q + 1
<1>1. p \in Byte
  BY DEF CPUState
<1>2. p \in Int /\ 0 <= p /\ p <= 255
  BY <1>1, ByteBounds
<1>3. \A n \in Byte : Up(p, n) = IF p + n <= 255 THEN p + n ELSE p + n - 256
  BY <1>1, Ring
<1>4. /\ Up(p, 1) = IF p + 1 <= 255 THEN p + 1 ELSE p + 1 - 256
      /\ Up(p, 2) = IF p + 2 <= 255 THEN p + 2 ELSE p + 2 - 256
      /\ Up(p, 3) = IF p + 3 <= 255 THEN p + 3 ELSE p + 3 - 256
  BY <1>3, SmallBytes
<1>5. Up(p, 1) = up(p) /\ Up(p, 2) = up(up(p)) /\ Up(p, 3) = up(up(up(p)))
  <2> HIDE DEF p
  <2> QED
    BY SMT, <1>2, <1>4
<1>6. LET byte == stack_pop_byte(Stack(c, m))
      IN  /\ byte.value = read_byte(m, kStackBase + up(p))
          /\ stack_pop_word(Stack(c, m)).SP = up(up(p))
          /\ stack_pop_word(Stack(c, m)).value =
               MkWord(read_byte(m, kStackBase + up(p)), read_byte(m, kStackBase + up(up(p))))
          /\ stack_pop_word(byte).SP = up(up(up(p)))
          /\ stack_pop_word(byte).value =
               MkWord(read_byte(m, kStackBase + up(up(p))),
                      read_byte(m, kStackBase + up(up(up(p)))))
  BY DEF stack_pop_word, stack_pop_byte, Stack
<1> HIDE DEF up
<1> QED
  BY <1>5, <1>6

(* The context on top of the stack is on the list. *)
LEMMA TopListed ==
  ASSUME ContextsInv, NEW kinds, NEW n, TopIs(kinds, n)
  PROVE  /\ Len(frames) \in 1 .. Len(frames) /\ Len(frames) \in Nat
         /\ IsFrame(Top) /\ Holds(Top, mem) /\ Top.kind \in kinds /\ Top.cpu.SP = Up(cpu.SP, n)
<1>1. PICK S : frames \in Seq(S)
  BY DEF ContextsInv, Contexts, IsSeq
<1>2. Len(frames) \in 1 .. Len(frames) /\ Len(frames) \in Nat
  <2>1. frames # <<>>
    BY DEF TopIs
  <2>2. Len(frames) \in Nat /\ Len(frames) # 0
    BY <1>1, <2>1
  <2> QED
    BY <2>2
<1> QED
  BY <1>2 DEF TopIs, Top, ContextsInv, Contexts, Live

(* What RTS finds. *)
LEMMA ReturnsStep ==
  ASSUME ContextsInv, op_rts, TopIs({"jsr"}, 2)
  PROVE  cpu'.PC = Top.cpu.PC /\ cpu'.SP = Top.cpu.SP
<1> DEFINE f == Top
<1>1. /\ cpu \in CPUState /\ fetched \in CPUState /\ cpu.SP \in Byte
  BY InstructionParts DEF ContextsInv, Good
<1>2. IsFrame(f) /\ Holds(f, mem) /\ f.kind = "jsr" /\ f.cpu.SP = Up(cpu.SP, 2)
  BY TopListed
<1> HIDE DEF f
<1>3. /\ cpu'.SP = Up(cpu.SP, 2)
      /\ cpu'.PC = U16(MkWord(At(mem, f.cpu.SP, 1), At(mem, f.cpu.SP, 0)) + 1)
  <2>1. /\ cpu'.SP = stack_pop_word(Stack(cpu, mem)).SP
        /\ cpu'.PC = U16(stack_pop_word(Stack(cpu, mem)).value + 1)
    BY <1>1 DEF op_rts, Retire, CPUState
  <2> QED
    BY <1>1, <1>2, <2>1, PopsRead, RingBack DEF At
<1>4. MkWord(At(mem, f.cpu.SP, 1), At(mem, f.cpu.SP, 0)) = U16(f.cpu.PC - 1)
  BY <1>2 DEF Holds, HoldsReturn
<1>5. U16(U16(f.cpu.PC - 1) + 1) = f.cpu.PC
  <2>1. f.cpu.PC \in Word
    BY <1>2 DEF IsFrame, CPUState
  <2>2. f.cpu.PC \in Int /\ 0 <= f.cpu.PC /\ f.cpu.PC <= 65535
    BY <2>1, WordBounds
  <2> QED
    BY SMT, <2>2 DEF U16
<1> QED
  BY <1>2, <1>3, <1>4, <1>5 DEF f

(* What RTI finds. *)
LEMMA ResumesStep ==
  ASSUME ContextsInv, op_rti, TopIs({"irq", "nmi", "brk"}, 3)
  PROVE  /\ cpu' = [fetched EXCEPT !.SP = Top.cpu.SP, !.PC = Top.cpu.PC,
                                   !.STATUS = Top.status \cup {kMaskConstant}]
         /\ mem' = mem
<1> DEFINE f == Top
<1>1. /\ cpu \in CPUState /\ fetched \in CPUState /\ cpu.SP \in Byte
  BY InstructionParts DEF ContextsInv, Good
<1>2. IsFrame(f) /\ Holds(f, mem) /\ f.kind # "jsr" /\ f.cpu.SP = Up(cpu.SP, 3)
  BY TopListed
<1> HIDE DEF f
<1>3. cpu' = [fetched EXCEPT !.SP = Up(cpu.SP, 3),
                !.PC = MkWord(At(mem, f.cpu.SP, 1), At(mem, f.cpu.SP, 0)),
                !.STATUS = Bits(At(mem, f.cpu.SP, 2)) \cup {kMaskConstant}]
      /\ mem' = mem
  <2> DEFINE byte == stack_pop_byte(Stack(cpu, mem))
             word == stack_pop_word(byte)
  <2>1. /\ cpu' = [fetched EXCEPT !.SP = word.SP, !.PC = word.value,
                                  !.STATUS = Bits(byte.value) \cup {kMaskConstant}]
        /\ mem' = mem
    BY DEF op_rti, Retire
  <2>2. /\ byte.value = read_byte(mem, kStackBase + Up(cpu.SP, 1))
        /\ word.SP = Up(cpu.SP, 3)
        /\ word.value = MkWord(read_byte(mem, kStackBase + Up(cpu.SP, 2)),
                               read_byte(mem, kStackBase + Up(cpu.SP, 3)))
    BY <1>1, PopsRead
  <2>3. /\ At(mem, f.cpu.SP, 2) = read_byte(mem, kStackBase + Up(cpu.SP, 1))
        /\ At(mem, f.cpu.SP, 1) = read_byte(mem, kStackBase + Up(cpu.SP, 2))
        /\ At(mem, f.cpu.SP, 0) = read_byte(mem, kStackBase + Up(cpu.SP, 3))
    BY <1>1, <1>2, RingBack DEF At
  <2> HIDE DEF byte, word
  <2> QED
    BY <2>1, <2>2, <2>3
<1> QED
  BY <1>2, <1>3 DEF f, Holds, HoldsState

(* What SubroutineReturns says of a step. *)
ReturnStep ==
  at = "fetch" /\ at' # at /\ instruction.code = "rts" /\ TopIs({"jsr"}, 2)
    => cpu'.PC = Top.cpu.PC /\ cpu'.SP = Top.cpu.SP

(* Every step from live contexts does so. *)
LEMMA ReturnStepHolds == ContextsInv /\ [CtxNext]_ctxVars => [ReturnStep]_ctxVars
<1> SUFFICES ASSUME ContextsInv, [CtxNext]_ctxVars, at = "fetch", at' # at,
                    instruction.code = "rts", TopIs({"jsr"}, 2)
             PROVE  cpu'.PC = Top.cpu.PC /\ cpu'.SP = Top.cpu.SP
  BY DEF ReturnStep
<1>1. op_rts
  BY CtxStep, FetchExecutes, PullCodes
<1> QED
  BY <1>1, ReturnsStep

(***************************************************************************)
(* Under the same discipline RTS goes on after its JSR and leaves the      *)
(* stack as JSR found it, whatever interrupts came in between: PC - 1 on   *)
(* the stack and RTS's one more cancel out, at the ends of the address     *)
(* space and of the stack page too.                                        *)
(***************************************************************************)
THEOREM SubroutinesReturn ==
  "RAM" \in Attached => (CtxSpec /\ []StackDiscipline => SubroutineReturns)
<1>1. SubroutineReturns <=> [][ReturnStep]_ctxVars
  BY DEF SubroutineReturns, ReturnStep
<1> QED
  BY <1>1, AlwaysContexts, ReturnStepHolds, PTL DEF CtxSpec

(* What InterruptTransparent says of a step. *)
TransparentStep ==
  at = "fetch" /\ at' # at /\ instruction.code = "rti" /\ TopIs({"irq", "nmi", "brk"}, 3)
    => /\ cpu' = [Top.cpu EXCEPT !.STATUS = cpu'.STATUS]
       /\ cpu'.STATUS \ {kMaskBreak} = Top.cpu.STATUS \ {kMaskBreak}
       /\ SameMemory(mem', Top.mem, cpu'.SP)

(* Every step from live contexts does so, if the handler has done its part. *)
LEMMA TransparentStepHolds ==
  ContextsInv /\ HandlersRestore /\ [CtxNext]_ctxVars => [TransparentStep]_ctxVars
<1> SUFFICES ASSUME ContextsInv, HandlersRestore, [CtxNext]_ctxVars, at = "fetch", at' # at,
                    instruction.code = "rti", TopIs({"irq", "nmi", "brk"}, 3)
             PROVE  /\ cpu' = [Top.cpu EXCEPT !.STATUS = cpu'.STATUS]
                    /\ cpu'.STATUS \ {kMaskBreak} = Top.cpu.STATUS \ {kMaskBreak}
                    /\ SameMemory(mem', Top.mem, cpu'.SP)
  BY DEF TransparentStep
<1> DEFINE c == Top.cpu
           S == Top.status \cup {kMaskConstant}
<1>1. op_rti
  BY CtxStep, FetchExecutes, PullCodes
<1>2. cpu' = [fetched EXCEPT !.SP = c.SP, !.PC = c.PC, !.STATUS = S] /\ mem' = mem
  BY <1>1, ResumesStep
<1>3. IsFrame(Top)
  BY TopListed
<1>4. /\ c \in CPUState /\ ~c.illegal_opcode /\ ~c.shutdown /\ kMaskConstant \in c.STATUS
      /\ Top.status \ {kMaskBreak} = c.STATUS \ {kMaskBreak}
  BY <1>3 DEF IsFrame
<1>5. /\ fetched.A = c.A /\ fetched.X = c.X /\ fetched.Y = c.Y
      /\ SameMemory(mem, Top.mem, c.SP)
  BY InstructionParts DEF HandlersRestore, ContextsInv, Good
<1>6. fetched \in CPUState /\ ~fetched.illegal_opcode /\ ~fetched.shutdown
  <2>1. ~cpu.illegal_opcode /\ ~cpu.shutdown /\ cpu \in CPUState
    BY InstructionParts DEF ContextsInv, Quiet, Good
  <2> QED
    BY <2>1, InstructionParts DEF fetched, CPUState, ContextsInv, Good
<1>7. S \ {kMaskBreak} = c.STATUS \ {kMaskBreak}
  BY <1>4
<1> HIDE DEF S, c
<1>8. cpu'.STATUS = S /\ cpu'.SP = c.SP
  BY <1>2, <1>6 DEF CPUState
<1>9. [fetched EXCEPT !.SP = c.SP, !.PC = c.PC, !.STATUS = S] = [c EXCEPT !.STATUS = S]
  BY <1>4, <1>5, <1>6 DEF CPUState
<1> QED
  BY <1>2, <1>5, <1>7, <1>8, <1>9 DEF c

(***************************************************************************)
(* An interrupt is transparent.  If handlers restore A, X, Y and memory    *)
(* before their RTI, the CPU restores the rest: when RTI uses up the       *)
(* context on top of the stack, PC, SP and every flag but B are those of   *)
(* the moment of the interrupt, whatever other interrupts came and went    *)
(* during the handler.                                                     *)
(***************************************************************************)
THEOREM InterruptsTransparent ==
  "RAM" \in Attached =>
    (CtxSpec /\ []StackDiscipline /\ []HandlersRestore => InterruptTransparent)
<1>1. InterruptTransparent <=> [][TransparentStep]_ctxVars
  BY DEF InterruptTransparent, TransparentStep
<1> QED
  BY <1>1, AlwaysContexts, TransparentStepHolds, PTL DEF CtxSpec

-----------------------------------------------------------------------------
(***************************************************************************)
(* Nested IRQs.  While an IRQ context is saved, I is set, and it is set in *)
(* every status byte saved after it: the NMIs and BRKs above the context   *)
(* give it back.                                                           *)
(***************************************************************************)
IRQsMasked ==
  \A i \in 1 .. Len(frames) : frames[i].kind = "irq" =>
    /\ kMaskInterrupt \in cpu.STATUS
    /\ \A j \in 1 .. Len(frames) : i < j =>
         /\ frames[j].kind # "irq"
         /\ frames[j].kind # "jsr" => kMaskInterrupt \in frames[j].status

(* Only CLI, PLP and RTI can clear I. *)
LEMMA MaskKept ==
  ASSUME Good, Instructions, instruction.code \notin {"cli", "plp", "rti"},
         kMaskInterrupt \in cpu.STATUS
  PROVE  kMaskInterrupt \in cpu'.STATUS
<1>1. TypeOK /\ fetched.STATUS = cpu.STATUS /\ fetched \in CPUState
  BY InstructionParts DEF Good
<1>2. CASE op_sei
  BY <1>1, <1>2 DEF op_sei, SetFlag, Flag, Retire, CPUState
<1>3. CASE op_brk
  BY <1>1, <1>3 DEF op_brk, Entered, Retire, CPUState
<1>4. CASE ~op_sei /\ ~op_brk
  <2>1. instruction.code \notin {"cli", "sei", "brk", "plp", "rti"}
    BY <1>4, OpCodes DEF Instructions
  <2>2. kMaskInterrupt \notin FlagColumns(instruction.code)
    BY <2>1, MasksDiffer DEF FlagColumns
  <2>3. OthersKept(FlagColumns(instruction.code))
    BY LoadsDocumented, ComputationsDocumented, FlagsDocumented, OthersDocumented
       DEF Instructions, Documented
  <2> QED
    BY <2>2, <2>3 DEF OthersKept, Within
<1> QED
  BY <1>2, <1>3, <1>4

(* The contexts after a step that saves one, ... *)
LEMMA MaskedSaved ==
  ASSUME Contexts, IRQsMasked, NEW e, frames' = Append(frames, e),
         kMaskInterrupt \in cpu.STATUS => kMaskInterrupt \in cpu'.STATUS,
         e.kind = "irq" => kMaskInterrupt \notin cpu.STATUS /\ kMaskInterrupt \in cpu'.STATUS,
         e.kind # "jsr" /\ kMaskInterrupt \in cpu.STATUS => kMaskInterrupt \in e.status
  PROVE  IRQsMasked'
<1>1. /\ Len(frames) \in Nat /\ Len(frames') = Len(frames) + 1
      /\ \A i \in 1 .. Len(frames) : frames'[i] = frames[i]
      /\ frames'[Len(frames) + 1] = e
  BY AppendSeq DEF Contexts
<1>2. SUFFICES ASSUME NEW i \in 1 .. Len(frames'), frames'[i].kind = "irq"
               PROVE  /\ kMaskInterrupt \in cpu'.STATUS
                      /\ \A j \in 1 .. Len(frames') : i < j =>
                           /\ frames'[j].kind # "irq"
                           /\ frames'[j].kind # "jsr" => kMaskInterrupt \in frames'[j].status
  BY DEF IRQsMasked
<1>3. CASE i \in 1 .. Len(frames)
  <2>1. /\ kMaskInterrupt \in cpu.STATUS
        /\ \A j \in 1 .. Len(frames) : i < j =>
             /\ frames[j].kind # "irq"
             /\ frames[j].kind # "jsr" => kMaskInterrupt \in frames[j].status
    BY <1>1, <1>2, <1>3 DEF IRQsMasked
  <2>2. \A j \in 1 .. Len(frames') : j \in 1 .. Len(frames) \/ j = Len(frames) + 1
    BY <1>1
  <2>3. e.kind # "irq" /\ (e.kind # "jsr" => kMaskInterrupt \in e.status)
    BY <2>1
  <2> QED
    BY <1>1, <2>1, <2>2, <2>3
<1>4. CASE i \notin 1 .. Len(frames)
  <2>1. i = Len(frames) + 1
    BY <1>1, <1>4
  <2>2. e.kind = "irq"
    BY <1>1, <1>2, <2>1
  <2>3. \A j \in 1 .. Len(frames') : ~(i < j)
    BY <1>1, <2>1
  <2> QED
    BY <2>2, <2>3
<1> QED
  BY <1>3, <1>4

(* ... or keeps the first k and leaves I set if an IRQ is among them. *)
LEMMA MaskedDropped ==
  ASSUME Contexts, IRQsMasked, NEW k \in 0 .. Len(frames), frames' = SubSeq(frames, 1, k),
         (\E i \in 1 .. k : frames[i].kind = "irq") => kMaskInterrupt \in cpu'.STATUS
  PROVE  IRQsMasked'
<1>1. /\ Len(frames') = k
      /\ \A i \in 1 .. k : frames'[i] = frames[i]
  BY PrefixSeq DEF Contexts
<1>2. \A i \in 1 .. k : i \in 1 .. Len(frames)
  BY AppendSeq DEF Contexts
<1> QED
  BY <1>1, <1>2 DEF IRQsMasked

(* The byte PLP pops leaves I set, by the discipline. *)
LEMMA MaskPulled ==
  ASSUME Good, op_plp, kMaskInterrupt \in Bits(read_byte(mem, kStackBase + Up(cpu.SP, 1)))
  PROVE  kMaskInterrupt \in cpu'.STATUS
<1> DEFINE s == stack_pop_byte(Stack(cpu, mem))
<1>1. cpu \in CPUState /\ fetched \in CPUState
  BY InstructionParts DEF Good
<1>2. s.value = read_byte(mem, kStackBase + Up(cpu.SP, 1))
  BY <1>1, PopsRead
<1>3. cpu' = [fetched EXCEPT !.SP = s.SP,
                 !.STATUS = (Bits(s.value) \cup {kMaskConstant}) \ {kMaskBreak}]
  BY DEF op_plp, Retire
<1> HIDE DEF s
<1>4. cpu'.STATUS = (Bits(s.value) \cup {kMaskConstant}) \ {kMaskBreak}
  BY <1>1, <1>3 DEF CPUState
<1> QED
  BY <1>2, <1>4, MasksDiffer

(* An RTI that leaves an IRQ context on the stack returns from a context   *)
(* above it, which gives I back.                                           *)
LEMMA MaskReturned ==
  ASSUME ContextsInv, IRQsMasked, op_rti, TopIs({"irq", "nmi", "brk"}, 3),
         NEW k \in 0 .. Len(frames), \A i \in 1 .. k : Slots(frames[i]) \cap Popped(3) = {},
         NEW i \in 1 .. k, frames[i].kind = "irq"
  PROVE  kMaskInterrupt \in cpu'.STATUS
<1>1. /\ Len(frames) \in 1 .. Len(frames) /\ Len(frames) \in Nat /\ IsFrame(Top)
      /\ Top.kind \in {"irq", "nmi", "brk"} /\ Top.cpu.SP = Up(cpu.SP, 3)
  BY TopListed
<1>2. cpu \in CPUState /\ fetched \in CPUState /\ cpu.SP \in Byte
  BY InstructionParts DEF ContextsInv, Good
<1>3. k # Len(frames)
  <2>1. Up(cpu.SP, 3) \in Popped(3)
    BY DEF Popped
  <2>2. Down(Top.cpu.SP, 0) \in Slots(Top)
    BY <1>1 DEF Slots, FrameSize
  <2>3. Down(Top.cpu.SP, 0) = Up(cpu.SP, 3)
    BY <1>1, <1>2, RingBack
  <2>4. Slots(frames[Len(frames)]) \cap Popped(3) # {}
    BY <2>1, <2>2, <2>3 DEF Top
  <2> QED
    BY <1>1, <2>4
<1>4. i \in 1 .. Len(frames) /\ i < Len(frames)
  BY <1>1, <1>3
<1>5. Top.kind # "irq" /\ (Top.kind # "jsr" => kMaskInterrupt \in Top.status)
  BY <1>1, <1>4 DEF IRQsMasked, Top
<1>6. cpu' = [fetched EXCEPT !.SP = Top.cpu.SP, !.PC = Top.cpu.PC,
                             !.STATUS = Top.status \cup {kMaskConstant}]
  BY ResumesStep
<1>7. cpu'.STATUS = Top.status \cup {kMaskConstant}
  BY <1>2, <1>6 DEF CPUState
<1> QED
  BY <1>1, <1>5, <1>7

(* An instruction that pulls keeps the mask. *)
LEMMA MaskedPull ==
  ASSUME ContextsInv, IRQsMasked, IRQDiscipline, Instructions, at = "fetch",
         instruction.code \in {"pla", "plp", "rts", "rti"},
         Drop(PoppedBytes[instruction.code])
  PROVE  IRQsMasked'
<1> DEFINE n == PoppedBytes[instruction.code]
<1>1. Contexts /\ Good
  BY DEF ContextsInv
<1>2. PICK k \in 0 .. Len(frames) :
        /\ \A i \in 1 .. k : Slots(frames[i]) \cap Popped(n) = {}
        /\ frames' = SubSeq(frames, 1, k)
  BY DEF Drop
<1>3. SUFFICES ASSUME NEW i \in 1 .. k, frames[i].kind = "irq"
               PROVE  kMaskInterrupt \in cpu'.STATUS
  BY <1>1, <1>2, MaskedDropped
<1>4. i \in 1 .. Len(frames)
  BY <1>1, AppendSeq DEF Contexts
<1>5. kMaskInterrupt \in cpu.STATUS
  BY <1>3, <1>4 DEF IRQsMasked
<1>6. CASE instruction.code \in {"pla", "rts"}
  BY <1>1, <1>5, <1>6, MaskKept
<1>7. CASE instruction.code = "plp"
  <2>1. kMaskInterrupt \in Bits(read_byte(mem, kStackBase + Up(cpu.SP, 1)))
    BY <1>3, <1>4, <1>7 DEF IRQDiscipline
  <2> QED
    BY <1>1, <1>7, <2>1, PullCodes, MaskPulled
<1>8. CASE instruction.code = "rti"
  <2>1. TopIs({"irq", "nmi", "brk"}, 3)
    BY <1>3, <1>4, <1>8 DEF IRQDiscipline
  <2>2. n = 3 /\ op_rti
    BY <1>8, PullCodes DEF PoppedBytes
  <2> QED
    BY <1>2, <1>3, <2>1, <2>2, MaskReturned
<1> QED
  BY <1>6, <1>7, <1>8

(* Every disciplined step keeps the mask. *)
LEMMA MaskedStep ==
  ASSUME ContextsInv, IRQsMasked, IRQDiscipline, [CtxNext]_ctxVars
  PROVE  IRQsMasked'
<1> DEFINE code == instruction.code
<1>1. TypeOK /\ Good /\ Contexts /\ PollInv /\ cpu \in CPUState
  BY InstructionParts DEF ContextsInv, Good
<1>2. ASSUME NEW kind \in {"irq", "nmi"}, Entering(kind), Save(kind, cpu, cpu.STATUS),
             kMaskInterrupt \in cpu'.STATUS
      PROVE  IRQsMasked'
  <2> DEFINE e == [kind |-> kind, cpu |-> cpu, mem |-> mem, status |-> cpu.STATUS]
  <2>1. frames' = Append(frames, e)
    BY <1>2 DEF Save
  <2>2. e.kind = "irq" => kMaskInterrupt \notin cpu.STATUS
    BY <1>1, <1>2 DEF Entering, PollInv
  <2>3. e.status = cpu.STATUS
    OBVIOUS
  <2> HIDE DEF e
  <2> QED
    BY <1>1, <1>2, <2>1, <2>2, <2>3, MaskedSaved
<1>3. CASE handle_irq /\ Entering("irq") /\ Save("irq", cpu, cpu.STATUS)
  <2>1. kMaskInterrupt \in cpu'.STATUS
    BY <1>1, <1>3 DEF handle_irq, Entered, CPUState
  <2> QED
    BY <1>2, <1>3, <2>1
<1>4. CASE handle_nmi /\ Entering("nmi") /\ Save("nmi", cpu, cpu.STATUS)
  <2>1. kMaskInterrupt \in cpu'.STATUS
    BY <1>1, <1>4 DEF handle_nmi, Entered, CPUState
  <2> QED
    BY <1>2, <1>4, <2>1
<1>5. ASSUME frames' = <<>>
      PROVE  IRQsMasked'
  BY <1>5 DEF IRQsMasked
<1>6. CASE Instructions /\ at = "fetch" /\ at' # at /\ InstructionTrack
  <2>1. CASE code = "txs"
    BY <1>5, <1>6, <2>1 DEF InstructionTrack
  <2>2. CASE code \in {"pla", "plp", "rts", "rti"}
    BY <1>6, <2>2, MaskedPull DEF InstructionTrack
  <2>3. CASE code \in {"brk", "jsr"}
    <3>1. kMaskInterrupt \in cpu.STATUS => kMaskInterrupt \in cpu'.STATUS
      BY <1>1, <1>6, <2>3, MaskKept
    <3>2. PICK e : /\ frames' = Append(frames, e) /\ e.kind # "irq"
                   /\ e.kind # "jsr" /\ kMaskInterrupt \in cpu.STATUS
                        => kMaskInterrupt \in e.status
      <4>1. CASE code = "brk"
        <5> DEFINE e == [kind |-> "brk", cpu |-> [fetched EXCEPT !.PC = U16(@ + 1)],
                         mem |-> mem, status |-> cpu.STATUS \cup {kMaskBreak}]
        <5>1. frames' = Append(frames, e)
          BY <1>6, <4>1 DEF InstructionTrack, Save
        <5>2. e.kind = "brk" /\ e.status = cpu.STATUS \cup {kMaskBreak}
          OBVIOUS
        <5> HIDE DEF e
        <5> QED
          BY <5>1, <5>2
      <4>2. CASE code = "jsr"
        <5> DEFINE e == [kind |-> "jsr", cpu |-> fetched, mem |-> mem, status |-> cpu.STATUS]
        <5>1. frames' = Append(frames, e)
          BY <1>6, <4>2 DEF InstructionTrack, Save
        <5>2. e.kind = "jsr"
          OBVIOUS
        <5> HIDE DEF e
        <5> QED
          BY <5>1, <5>2
      <4> QED
        BY <2>3, <4>1, <4>2
    <3> QED
      BY <1>1, <3>1, <3>2, MaskedSaved
  <2>4. CASE code \notin {"txs", "pla", "plp", "rts", "rti", "brk", "jsr"}
    <3>1. frames' = frames
      BY <1>6, <2>4 DEF InstructionTrack
    <3>2. ASSUME NEW i \in 1 .. Len(frames), frames[i].kind = "irq"
          PROVE  kMaskInterrupt \in cpu'.STATUS
      <4>1. kMaskInterrupt \in cpu.STATUS
        BY <3>2 DEF IRQsMasked
      <4>2. code # "cli"
        BY <1>6, <3>2 DEF IRQDiscipline
      <4> QED
        BY <1>1, <1>6, <2>4, <4>1, <4>2, MaskKept
    <3> QED
      BY <3>1, <3>2 DEF IRQsMasked
  <2> QED
    BY <2>1, <2>2, <2>3, <2>4
<1>7. CASE UNCHANGED <<cpu, mem, frames>>
  BY <1>7 DEF IRQsMasked
<1> QED
  BY <1>1, <1>3, <1>4, <1>5, <1>6, <1>7, ContextSteps

(* With I set there is no second IRQ context. *)
LEMMA OneIRQ == ContextsInv /\ IRQsMasked => NoNestedIRQ
<1> DEFINE irqs == {i \in 1 .. Len(frames) : frames[i].kind = "irq"}
<1> SUFFICES ASSUME ContextsInv, IRQsMasked
             PROVE  Cardinality(irqs) <= 1
  BY DEF NoNestedIRQ
<1>1. Len(frames) \in Nat
  BY AppendSeq DEF ContextsInv, Contexts
<1>2. ASSUME NEW i \in irqs, NEW j \in irqs
      PROVE  i = j
  <2>1. ~(i < j) /\ ~(j < i)
    BY DEF IRQsMasked
  <2> QED
    BY <1>1, <2>1
<1> HIDE DEF irqs
<1>3. CASE irqs = {}
  BY <1>3, FS_EmptySet
<1>4. CASE irqs # {}
  <2>1. PICK i \in irqs : irqs = {i}
    BY <1>2, <1>4
  <2>2. Cardinality({i}) = 1
    BY FS_Singleton
  <2> QED
    BY <2>1, <2>2
<1> QED
  BY <1>3, <1>4

(***************************************************************************)
(* IRQs do not nest.  If, while an IRQ is handled, the program does not    *)
(* clear I itself, then no second IRQ is entered before its RTI, whatever  *)
(* NMIs, BRKs and calls come and return in between: they push I and RTI    *)
(* gives it back.                                                          *)
(***************************************************************************)
THEOREM IRQsDoNotNest ==
  "RAM" \in Attached =>
    (CtxSpec /\ []StackDiscipline /\ []IRQDiscipline => []NoNestedIRQ)
<1> SUFFICES ASSUME "RAM" \in Attached
             PROVE  CtxSpec /\ []StackDiscipline /\ []IRQDiscipline => []NoNestedIRQ
  OBVIOUS
<1>1. CtxSpec /\ []StackDiscipline => []ContextsInv
  BY AlwaysContexts
<1>2. CtxInit => IRQsMasked
  <2>1. CtxInit => frames = <<>>
    BY DEF CtxInit
  <2> QED
    BY <2>1 DEF IRQsMasked
<1>3. ContextsInv /\ IRQsMasked /\ IRQDiscipline /\ [CtxNext]_ctxVars => IRQsMasked'
  BY MaskedStep
<1> QED
  BY <1>1, <1>2, <1>3, OneIRQ, PTL DEF CtxSpec
=============================================================================
