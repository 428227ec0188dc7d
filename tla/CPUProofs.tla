----------------------------- MODULE CPUProofs -----------------------------
(***************************************************************************)
(* Proofs about the bus and the CPU for every set of programs and devices: *)
(* that a byte of the bus reads back as it was written; types, the         *)
(* constant bit of STATUS, the invariant of the interrupt polls, that the  *)
(* CPU implements the interrupt lines, and that popping a saved context    *)
(* gives back what was saved.                                              *)
(***************************************************************************)
EXTENDS CPUInterrupts, ISA, BytesProofs

-----------------------------------------------------------------------------
(***************************************************************************)
(* The bus.                                                                *)
(***************************************************************************)

(* Where the devices begin. *)
LEMMA MappedType == \A dev \in Device : mapped_address[dev] \in Int
BY SMT DEF mapped_address, kAddrRAM, kAddrIO, kAddrROM, Device

(* Every address resolves to a device. *)
LEMMA ResolveType == \A a : resolve_address_to_device(a) \in Device
BY DEF resolve_address_to_device, Device

(* The address a device is given, and the bus address it stands for. *)
LEMMA OffsetType ==
  ASSUME NEW a \in Word
  PROVE  LET base == mapped_address[resolve_address_to_device(a)]
         IN  a - base \in Int /\ base + (a - base) = a
<1>1. mapped_address[resolve_address_to_device(a)] \in Int
  BY MappedType, ResolveType
<1>2. a \in Int
  BY WordBounds
<1> QED
  BY SMT, <1>1, <1>2

(* Whatever device an address belongs to, what is read is a byte. *)
LEMMA DeviceReadType ==
  ASSUME NEW m, IsMemory(m), NEW dev \in Device, NEW offset \in Int
  PROVE  DeviceRead(m, dev, offset) \in Byte
<1>1. Garbage[dev] \in Byte
  BY BusAssumption
<1>2. IOPowerOn(offset) \in Byte
  BY SMT, ByteBounds DEF IOPowerOn
<1>3. \hFF \in Byte
  BY ByteBounds
<1>4. PowerOn(dev, offset) \in Byte
  BY <1>1, <1>2, <1>3 DEF PowerOn
<1> QED
  BY <1>4 DEF DeviceRead, IsMemory

(* A byte read from the bus (read_byte). *)
LEMMA ReadByteType ==
  ASSUME NEW m, IsMemory(m), NEW a \in Word
  PROVE  read_byte(m, a) \in Byte
<1>1. 0 \in Byte
  BY ByteBounds
<1> QED
  BY <1>1, OffsetType, ResolveType, DeviceReadType DEF read_byte

(* A word read from the bus (read_word). *)
LEMMA ReadWordType ==
  ASSUME NEW m, IsMemory(m), NEW a \in Word
  PROVE  read_word(m, a) \in Word
<1> DEFINE dev == resolve_address_to_device(a)
           o   == a - mapped_address[dev]
<1>1. dev \in Device /\ o \in Int /\ o + 1 \in Int
  BY OffsetType, ResolveType
<1>2. DeviceRead(m, dev, o) \in Byte /\ DeviceRead(m, dev, o + 1) \in Byte
  BY <1>1, DeviceReadType
<1>3. 0 \in Word
  BY WordBounds
<1> QED
  BY <1>2, <1>3, MkWordType DEF read_word

(***************************************************************************)
(* Storing a byte leaves a memory.                                         *)
(***************************************************************************)
LEMMA WriteByteType ==
  ASSUME NEW m, IsMemory(m), NEW a \in Word, NEW v \in Byte
  PROVE  IsMemory(write_byte(m, a, v))
<1> DEFINE base == mapped_address[resolve_address_to_device(a)]
<1>1. base + (a - base) = a
  BY OffsetType
<1>2. IsMemory([x \in DOMAIN m \cup {a} |-> IF x = a THEN v ELSE m[x]])
  BY DEF IsMemory
<1>3. IsMemory([x \in DOMAIN m \cup {base + (a - base)} |->
                  IF x = base + (a - base) THEN v ELSE m[x]])
  BY <1>1, <1>2
<1> QED
  BY <1>3 DEF write_byte, DeviceWrite

(* Every address of the bus lies within the device it resolves to. *)
LEMMA WithinCapacity ==
  ASSUME NEW a \in Word
  PROVE  LET dev == resolve_address_to_device(a)
         IN  a - mapped_address[dev] < capacity[dev]
<1>1. a \in Int /\ 0 <= a /\ a <= 65535
  BY WordBounds
<1>2. CASE a < kAddrIO
  BY SMT, <1>1, <1>2 DEF resolve_address_to_device, mapped_address, capacity,
       kAddrRAM, kAddrIO, kAddrROM, kSizeRAM
<1>3. CASE a >= kAddrROM
  BY SMT, <1>1, <1>3 DEF resolve_address_to_device, mapped_address, capacity,
       kAddrRAM, kAddrIO, kAddrROM, kSizeROM
<1>4. CASE a >= kAddrIO /\ a < kAddrROM
  BY SMT, <1>1, <1>4 DEF resolve_address_to_device, mapped_address, capacity,
       kAddrRAM, kAddrIO, kAddrROM, kSizeIO
<1> QED
  BY SMT, <1>1, <1>2, <1>3, <1>4 DEF kAddrIO, kAddrROM

(***************************************************************************)
(* A byte written to an attached RAM or IO chip is read back, and no other *)
(* address of the bus reads differently (Bus::write_byte, Bus::read_byte,  *)
(* the read and write of the devices).                                     *)
(***************************************************************************)
THEOREM ReadAfterWrite ==
  ASSUME NEW m, IsMemory(m), NEW a \in Word, NEW b \in Word, NEW v \in Byte,
         resolve_address_to_device(a) \in Attached \ {"ROM"}
  PROVE  read_byte(write_byte(m, a, v), b) = IF b = a THEN v ELSE read_byte(m, b)
<1> DEFINE base(x) == mapped_address[resolve_address_to_device(x)]
           off(x)  == x - base(x)
           w       == [x \in DOMAIN m \cup {a} |-> IF x = a THEN v ELSE m[x]]
<1>1. base(a) + off(a) = a /\ base(b) + off(b) = b
  BY OffsetType
<1>2. off(a) < capacity[resolve_address_to_device(a)]
  BY WithinCapacity
<1>3. off(b) < capacity[resolve_address_to_device(b)]
  BY WithinCapacity
<1>4. off(a) \in Int /\ capacity[resolve_address_to_device(a)] \in Int
  BY SMT, OffsetType, ResolveType DEF capacity, Device, kSizeRAM, kSizeIO, kSizeROM
<1>5. ~(off(a) >= capacity[resolve_address_to_device(a)])
  BY SMT, <1>2, <1>4
<1>6. write_byte(m, a, v) = w
  BY <1>1, <1>5 DEF write_byte, DeviceWrite
<1>7. CASE resolve_address_to_device(b) \in Attached
  <2>1. \A mm : read_byte(mm, b) = IF b \in DOMAIN mm THEN mm[b]
                                  ELSE PowerOn(resolve_address_to_device(b), off(b))
    BY <1>1, <1>3, <1>7 DEF read_byte, DeviceRead
  <2> QED
    BY <1>6, <2>1
<1>8. CASE resolve_address_to_device(b) \notin Attached
  <2>1. b # a
    BY <1>8
  <2> QED
    BY <1>8, <2>1 DEF read_byte
<1> QED
  BY <1>7, <1>8

-----------------------------------------------------------------------------
(* The pieces of an instruction have their types. *)

(* An addressing mode reads at most two operand bytes. *)
LEMMA OperandBytesType == \A mode : OperandBytes(mode) \in 0 .. 2
BY DEF OperandBytes

(* Setting or clearing a flag leaves a set of masks. *)
LEMMA FlagType ==
  \A S, mask, on : S \subseteq Masks /\ mask \in Masks => Flag(S, mask, on) \subseteq Masks
BY DEF Flag

(* Every mask is a mask of STATUS. *)
LEMMA MaskType ==
  /\ kMaskSign \in Masks /\ kMaskOverflow \in Masks /\ kMaskConstant \in Masks
  /\ kMaskBreak \in Masks /\ kMaskDecimal \in Masks /\ kMaskInterrupt \in Masks
  /\ kMaskZero \in Masks /\ kMaskCarry \in Masks
BY DEF Masks, kMaskSign, kMaskOverflow, kMaskConstant, kMaskBreak, kMaskDecimal,
       kMaskInterrupt, kMaskZero, kMaskCarry

(* Setting S and Z leaves a set of masks. *)
LEMMA SignZeroType == \A S, v : S \subseteq Masks => SignZero(S, v) \subseteq Masks
BY FlagType, MaskType DEF SignZero

(* A byte is an address of the zero page. *)
LEMMA ByteIsWord == \A a \in Byte : a \in Word
BY SMT, ByteBounds, WordBounds

(* The next and the previous address are integers. *)
LEMMA NextToWord == \A w \in Word : w + 1 \in Int /\ w - 1 \in Int
BY SMT, WordBounds

(* An index byte added to an address leads to an address of the bus. *)
LEMMA IndexType ==
  /\ \A w \in Word, b \in Byte : U16(w + b) \in Word
  /\ \A a \in Byte, b \in Byte : a + b \in Word /\ U8(a + b) \in Word
<1>1. \A w \in Word, b \in Byte : w + b \in Int
  BY SMT, WordBounds, ByteBounds
<1>2. \A a \in Byte, b \in Byte : a + b \in Int /\ 0 <= a + b /\ a + b <= 65535
  BY SMT, ByteBounds
<1>3. \A w \in Word, b \in Byte : U16(w + b) \in Word
  BY <1>1, U16Type
<1>4. \A a \in Byte, b \in Byte : a + b \in Word
  BY <1>2, WordBounds
<1>5. \A a \in Byte, b \in Byte : U8(a + b) \in Word
  BY <1>2, U8Type, ByteIsWord
<1> QED
  BY <1>3, <1>4, <1>5

(***************************************************************************)
(* Every addressing mode returns a bus address.                            *)
(***************************************************************************)
LEMMA SourceType ==
  ASSUME NEW c \in CPUState, NEW m, IsMemory(m), NEW mode, NEW p \in Word
  PROVE  Source(c, m, mode, p) \in Word
<1>1. c.A \in Byte /\ c.X \in Byte /\ c.Y \in Byte
  BY DEF CPUState
<1>2. read_word(m, p) \in Word /\ read_byte(m, p) \in Byte
  BY ReadWordType, ReadByteType
<1>3. read_byte(m, p) \in Word /\ c.A \in Word
  BY <1>1, <1>2, ByteIsWord
<1>4. read_word(m, read_word(m, p)) \in Word
  BY <1>2, ReadWordType
<1>5. read_byte(m, read_byte(m, p)) \in Byte
  BY <1>3, ReadByteType
<1>6. read_word(m, U8(read_byte(m, p) + c.X)) \in Word
  BY <1>1, <1>2, IndexType, ReadWordType
<1>7. /\ U16(read_word(m, p) + c.X) \in Word
      /\ U16(read_word(m, p) + c.Y) \in Word
      /\ read_byte(m, p) + c.X \in Word
      /\ read_byte(m, p) + c.Y \in Word
      /\ read_byte(m, read_byte(m, p)) + c.Y \in Word
  BY <1>1, <1>2, <1>5, IndexType
<1>8. 0 \in Word
  BY WordBounds
<1> QED
  BY <1>2, <1>3, <1>4, <1>6, <1>7, <1>8 DEF Source

(***************************************************************************)
(* The instruction fetched in a well-typed state: the registers it finds,  *)
(* its operand address and its operand.                                    *)
(***************************************************************************)
LEMMA FetchType ==
  ASSUME TypeOK
  PROVE  /\ fetched \in CPUState
         /\ src \in Word
         /\ operand \in Byte
         /\ fetched = [cpu EXCEPT !.PC = fetched.PC]
<1>1. cpu \in CPUState /\ IsMemory(mem)
  BY DEF TypeOK
<1>2. cpu.PC \in Int
  BY <1>1, WordBounds DEF CPUState
<1>3. U16(cpu.PC + 1) \in Word
  BY SMT, <1>2, U16Type
<1>4. cpu.PC + 1 + OperandBytes(instruction.addr) \in Int
  BY SMT, <1>2, OperandBytesType
<1>5. U16(cpu.PC + 1 + OperandBytes(instruction.addr)) \in Word
  BY <1>4, U16Type
<1>6. fetched \in CPUState /\ fetched = [cpu EXCEPT !.PC = fetched.PC]
  BY <1>1, <1>5 DEF fetched, CPUState
<1>7. src \in Word
  BY <1>1, <1>3, SourceType DEF src
<1> QED
  BY <1>1, <1>6, <1>7, ReadByteType DEF operand

-----------------------------------------------------------------------------
(* The stack. *)

IsStack(s) == s \in [SP : Byte, mem : {s.mem}, value : Int] /\ IsMemory(s.mem)

(* The slot a stack pointer selects is in the RAM module. *)
LEMMA SlotType ==
  \A sp \in Byte : kStackBase + sp \in Word
                   /\ resolve_address_to_device(kStackBase + sp) = "RAM"
<1> SUFFICES ASSUME NEW sp \in Byte
             PROVE  kStackBase + sp \in Word
                    /\ resolve_address_to_device(kStackBase + sp) = "RAM"
  OBVIOUS
<1>1. sp \in Int /\ 0 <= sp /\ sp <= 255
  BY ByteBounds
<1>2. /\ kStackBase + sp \in Int
      /\ 0 <= kStackBase + sp /\ kStackBase + sp <= 511
  BY SMT, <1>1 DEF kStackBase
<1>3. kStackBase + sp < kAddrIO /\ ~(kStackBase + sp >= kAddrROM)
  BY SMT, <1>2 DEF kAddrIO, kAddrROM
<1>4. kStackBase + sp <= 65535
  BY SMT, <1>2
<1>5. kStackBase + sp \in Word
  BY <1>2, <1>4, WordBounds
<1>6. resolve_address_to_device(kStackBase + sp) = "RAM"
  BY <1>3 DEF resolve_address_to_device
<1> QED
  BY <1>5, <1>6

(* Stack, push and pop keep the stack pointer a byte and memory a memory. *)
LEMMA StackType ==
  ASSUME NEW c \in CPUState, NEW m, IsMemory(m)
  PROVE  IsStack(Stack(c, m))
BY DEF IsStack, Stack, CPUState

(* A byte pushed (stack_push_byte). *)
LEMMA PushByteType ==
  ASSUME NEW s, IsStack(s), NEW v \in Byte
  PROVE  IsStack(stack_push_byte(s, v))
<1>1. s.SP \in Byte /\ IsMemory(s.mem)
  BY DEF IsStack
<1>2. IsMemory(write_byte(s.mem, kStackBase + s.SP, v))
  BY <1>1, SlotType, WriteByteType
<1>3. (IF s.SP = 0 THEN kStackReset ELSE s.SP - 1) \in Byte
  BY SMT, <1>1, ByteBounds DEF kStackReset
<1> QED
  BY <1>2, <1>3 DEF IsStack, stack_push_byte

(* A word pushed (stack_push_word). *)
LEMMA PushWordType ==
  ASSUME NEW s, IsStack(s), NEW w \in Word
  PROVE  IsStack(stack_push_word(s, w))
BY PushByteType, HalvesType DEF stack_push_word

(* A byte popped is a byte (stack_pop_byte). *)
LEMMA PopByteType ==
  ASSUME NEW s, IsStack(s)
  PROVE  /\ IsStack(stack_pop_byte(s))
         /\ stack_pop_byte(s).value \in Byte
<1>1. s.SP \in Byte /\ IsMemory(s.mem)
  BY DEF IsStack
<1> DEFINE sp == IF s.SP = \hFF THEN 0 ELSE s.SP + 1
<1>2. sp \in Byte
  BY SMT, <1>1, ByteBounds
<1> HIDE DEF sp
<1>3. read_byte(s.mem, kStackBase + sp) \in Byte
  BY <1>1, <1>2, SlotType, ReadByteType
<1>4. read_byte(s.mem, kStackBase + sp) \in Int
  BY <1>3, ByteBounds
<1> QED
  BY <1>2, <1>3, <1>4 DEF IsStack, stack_pop_byte, sp

(* A word popped is a word (stack_pop_word). *)
LEMMA PopWordType ==
  ASSUME NEW s, IsStack(s)
  PROVE  /\ IsStack(stack_pop_word(s))
         /\ stack_pop_word(s).value \in Word
<1> DEFINE lo == stack_pop_byte(s)
           hi == stack_pop_byte(lo)
<1>1. IsStack(lo) /\ lo.value \in Byte /\ IsStack(hi) /\ hi.value \in Byte
  BY PopByteType
<1> HIDE DEF lo, hi
<1>2. MkWord(lo.value, hi.value) \in Word
  BY <1>1, MkWordType
<1>3. MkWord(lo.value, hi.value) \in Int
  BY <1>2, WordBounds
<1> QED
  BY <1>1, <1>2, <1>3 DEF IsStack, stack_pop_word, lo, hi

-----------------------------------------------------------------------------
(***************************************************************************)
(* What the steps of the CPU keep: TypeOK, and bit 5 of STATUS.            *)
(***************************************************************************)
GoodCPU == {c \in CPUState : kMaskConstant \in c.STATUS}

Good == TypeOK /\ ConstantFlagSet

(* What Good gives an instruction: its registers, operand address and operand. *)
LEMMA GoodParts ==
  ASSUME Good
  PROVE  /\ cpu \in GoodCPU /\ IsMemory(mem)
         /\ fetched \in GoodCPU /\ src \in Word /\ operand \in Byte
         /\ fetched.STATUS = cpu.STATUS
<1>1. TypeOK /\ kMaskConstant \in cpu.STATUS /\ cpu \in CPUState
  BY DEF Good, ConstantFlagSet, TypeOK
<1>2. fetched.STATUS = cpu.STATUS
  BY <1>1 DEF fetched, CPUState
<1> QED
  BY <1>1, <1>2, FetchType DEF GoodCPU, TypeOK

(* An instruction that retires with good registers. *)
LEMMA RetireGood ==
  ASSUME Good, NEW c \in GoodCPU, NEW m, IsMemory(m), Retire(c, m)
  PROVE  Good'
<1>1. cpu' \in CPUState /\ kMaskConstant \in cpu'.STATUS
  BY DEF Retire, GoodCPU
<1>2. IsMemory(mem')
  BY DEF Retire
<1>3. at' \in Place
  BY DEF Retire, Place, PollPlace
<1> QED
  BY <1>1, <1>2, <1>3 DEF Good, TypeOK, ConstantFlagSet, Retire

(* Setting a flag other than the constant one. *)
LEMMA FlagGood ==
  ASSUME NEW S, S \subseteq Masks, kMaskConstant \in S,
         NEW mask \in Masks \ {kMaskConstant}, NEW on
  PROVE  Flag(S, mask, on) \subseteq Masks /\ kMaskConstant \in Flag(S, mask, on)
BY DEF Flag

(* No flag is the constant one. *)
LEMMA MasksDistinct ==
  {kMaskSign, kMaskOverflow, kMaskDecimal, kMaskInterrupt, kMaskZero, kMaskCarry, kMaskBreak}
    \subseteq Masks \ {kMaskConstant}
BY SMT DEF Masks, kMaskSign, kMaskOverflow, kMaskConstant, kMaskBreak, kMaskDecimal,
       kMaskInterrupt, kMaskZero, kMaskCarry

GoodStatus == {S \in SUBSET Masks : kMaskConstant \in S}

(* The flags an instruction sets leave bit 5 alone. *)
LEMMA FlagStatus ==
  /\ \A S \in GoodStatus : \A on :
       /\ Flag(S, kMaskSign, on) \in GoodStatus
       /\ Flag(S, kMaskOverflow, on) \in GoodStatus
       /\ Flag(S, kMaskDecimal, on) \in GoodStatus
       /\ Flag(S, kMaskInterrupt, on) \in GoodStatus
       /\ Flag(S, kMaskZero, on) \in GoodStatus
       /\ Flag(S, kMaskCarry, on) \in GoodStatus
  /\ \A S \in GoodStatus : \A v : SignZero(S, v) \in GoodStatus
<1>1. \A S \in GoodStatus, mask \in Masks \ {kMaskConstant} : \A on : Flag(S, mask, on) \in GoodStatus
  BY FlagGood DEF GoodStatus
<1>2. /\ kMaskSign \in Masks \ {kMaskConstant}
      /\ kMaskOverflow \in Masks \ {kMaskConstant}
      /\ kMaskDecimal \in Masks \ {kMaskConstant}
      /\ kMaskInterrupt \in Masks \ {kMaskConstant}
      /\ kMaskZero \in Masks \ {kMaskConstant}
      /\ kMaskCarry \in Masks \ {kMaskConstant}
  BY MasksDistinct
<1>3. \A S \in GoodStatus : \A v : SignZero(S, v) \in GoodStatus
  BY <1>1, <1>2 DEF SignZero
<1> QED
  BY <1>1, <1>2, <1>3

(* Good registers: each register replaced by a byte, PC by a word, STATUS  *)
(* by a good status.                                                       *)
LEMMA GoodUpdates ==
  ASSUME NEW c \in GoodCPU
  PROVE  /\ c.STATUS \in GoodStatus
         /\ c.A \in Byte /\ c.X \in Byte /\ c.Y \in Byte /\ c.SP \in Byte /\ c.PC \in Word
         /\ \A v \in Byte, S \in GoodStatus :
              /\ [c EXCEPT !.A = v, !.STATUS = S] \in GoodCPU
              /\ [c EXCEPT !.X = v, !.STATUS = S] \in GoodCPU
              /\ [c EXCEPT !.Y = v, !.STATUS = S] \in GoodCPU
              /\ [c EXCEPT !.SP = v] \in GoodCPU
              /\ [c EXCEPT !.SP = v, !.STATUS = S] \in GoodCPU
              /\ [c EXCEPT !.STATUS = S] \in GoodCPU
         /\ \A v \in Byte, p \in Word, S \in GoodStatus :
              /\ [c EXCEPT !.PC = p] \in GoodCPU
              /\ [c EXCEPT !.SP = v, !.PC = p] \in GoodCPU
              /\ [c EXCEPT !.SP = v, !.PC = p, !.STATUS = S] \in GoodCPU
              /\ [c EXCEPT !.SP = v, !.STATUS = S, !.PC = p] \in GoodCPU
         /\ \A v \in Byte, w \in Byte, S \in GoodStatus :
              [c EXCEPT !.SP = v, !.A = w, !.STATUS = S] \in GoodCPU
         /\ [c EXCEPT !.illegal_opcode = TRUE] \in GoodCPU
BY DEF GoodCPU, GoodStatus, CPUState

-----------------------------------------------------------------------------
(* The families of instructions. *)

(* The loads, transfers and logical instructions. *)
LEMMA AssignGood ==
  ASSUME Good, NEW v \in Byte, AssignA(v) \/ AssignX(v) \/ AssignY(v)
  PROVE  Good'
<1>1. fetched \in GoodCPU /\ IsMemory(mem)
  BY GoodParts
<1>2. fetched.STATUS \in GoodStatus
  BY <1>1, GoodUpdates
<1>3. SignZero(fetched.STATUS, v) \in GoodStatus
  BY <1>2, FlagStatus
<1>4. /\ [fetched EXCEPT !.A = v, !.STATUS = SignZero(fetched.STATUS, v)] \in GoodCPU
      /\ [fetched EXCEPT !.X = v, !.STATUS = SignZero(fetched.STATUS, v)] \in GoodCPU
      /\ [fetched EXCEPT !.Y = v, !.STATUS = SignZero(fetched.STATUS, v)] \in GoodCPU
  BY <1>1, <1>3, GoodUpdates
<1>5. CASE AssignA(v)
  BY <1>1, <1>4, <1>5, RetireGood DEF AssignA
<1>6. CASE AssignX(v)
  BY <1>1, <1>4, <1>6, RetireGood DEF AssignX
<1>7. CASE AssignY(v)
  BY <1>1, <1>4, <1>7, RetireGood DEF AssignY
<1> QED
  BY <1>5, <1>6, <1>7

(* Instructions that change only STATUS and memory. *)
LEMMA StatusGood ==
  ASSUME Good, NEW S \in GoodStatus, NEW m, IsMemory(m),
         Retire([fetched EXCEPT !.STATUS = S], m)
  PROVE  Good'
BY GoodParts, GoodUpdates, RetireGood

(* The increments, decrements and shifts of a byte of memory. *)
LEMMA ModifyGood ==
  ASSUME Good, NEW v \in Byte, NEW carry, Modify(v) \/ Shift(v, carry)
  PROVE  Good'
<1>1. fetched \in GoodCPU /\ IsMemory(mem) /\ src \in Word
  BY GoodParts
<1>2. IsMemory(write_byte(mem, src, v))
  BY <1>1, WriteByteType
<1>3. fetched.STATUS \in GoodStatus
  BY <1>1, GoodUpdates
<1>4. /\ SignZero(fetched.STATUS, v) \in GoodStatus
      /\ Flag(SignZero(fetched.STATUS, v), kMaskCarry, carry) \in GoodStatus
  BY <1>3, FlagStatus
<1>5. CASE Modify(v)
  BY <1>2, <1>4, <1>5, StatusGood DEF Modify
<1>6. CASE Shift(v, carry)
  BY <1>2, <1>4, <1>6, StatusGood DEF Shift
<1> QED
  BY <1>5, <1>6

(* The flag instructions. *)
LEMMA SetFlagGood ==
  ASSUME Good, NEW mask \in {kMaskCarry, kMaskDecimal, kMaskInterrupt, kMaskOverflow},
         NEW on, SetFlag(mask, on)
  PROVE  Good'
<1>1. fetched \in GoodCPU /\ IsMemory(mem)
  BY GoodParts
<1>2. fetched.STATUS \in GoodStatus
  BY <1>1, GoodUpdates
<1>3. Flag(fetched.STATUS, mask, on) \in GoodStatus
  BY <1>2, FlagStatus
<1> QED
  BY <1>1, <1>3, StatusGood DEF SetFlag

(* The branches. *)
LEMMA BranchGood ==
  ASSUME Good, NEW taken, Branch(taken)
  PROVE  Good'
<1>1. fetched \in GoodCPU /\ IsMemory(mem) /\ operand \in Byte
  BY GoodParts
<1>2. fetched.PC \in Word
  BY <1>1, GoodUpdates
<1>3. U16(fetched.PC + operand) \in Word
  BY <1>1, <1>2, IndexType
<1>4. (IF taken THEN U16(fetched.PC + operand) ELSE fetched.PC) \in Word
  BY <1>2, <1>3
<1>5. [fetched EXCEPT !.PC = IF taken THEN U16(fetched.PC + operand) ELSE fetched.PC] \in GoodCPU
  BY <1>1, <1>4, GoodUpdates
<1> QED
  BY <1>1, <1>5, RetireGood DEF Branch

(* The comparisons. *)
LEMMA CompareGood ==
  ASSUME Good, NEW v, Compare(v)
  PROVE  Good'
<1> DEFINE result == U16(v - operand)
<1>1. fetched \in GoodCPU /\ IsMemory(mem)
  BY GoodParts
<1>2. fetched.STATUS \in GoodStatus
  BY <1>1, GoodUpdates
<1>3. SignZero(fetched.STATUS, U8(result)) \in GoodStatus
  BY <1>2, FlagStatus
<1>4. Flag(SignZero(fetched.STATUS, U8(result)), kMaskCarry, result < \h100) \in GoodStatus
  BY <1>3, FlagStatus
<1> QED
  BY <1>1, <1>4, StatusGood DEF Compare

(* The stack an instruction begins with. *)
LEMMA StackGood ==
  ASSUME Good
  PROVE  IsStack(Stack(cpu, mem))
BY GoodParts, StackType DEF GoodCPU

(* PHA and PHP. *)
LEMMA PushGood ==
  ASSUME Good, NEW v \in Byte, Push(v)
  PROVE  Good'
<1> DEFINE s == stack_push_byte(Stack(cpu, mem), v)
<1>1. IsStack(s)
  BY StackGood, PushByteType
<1> HIDE DEF s
<1>2. s.SP \in Byte /\ IsMemory(s.mem)
  BY <1>1 DEF IsStack
<1>3. fetched \in GoodCPU
  BY GoodParts
<1>4. [fetched EXCEPT !.SP = s.SP] \in GoodCPU
  BY <1>2, <1>3, GoodUpdates
<1>5. Retire([fetched EXCEPT !.SP = s.SP], s.mem)
  BY DEF Push, s
<1> QED
  BY <1>2, <1>4, <1>5, RetireGood

-----------------------------------------------------------------------------
(* Interrupt entry and reset. *)

(* A saved context leaves a stack. *)
LEMMA SavedFrameType ==
  ASSUME NEW c \in CPUState, NEW m, IsMemory(m), NEW status
  PROVE  IsStack(SavedFrame(c, m, status))
<1>1. c.PC \in Word
  BY DEF CPUState
<1>2. IsStack(stack_push_word(Stack(c, m), c.PC))
  BY <1>1, StackType, PushWordType
<1> QED
  BY <1>2, FromBitsType, PushByteType DEF SavedFrame

(* The vectors are addresses of the bus. *)
LEMMA VectorType ==
  kVecIRQ \in Word /\ kVecBRK \in Word /\ kVecNMI \in Word /\ kVecRES \in Word
BY WordBounds DEF kVecIRQ, kVecBRK, kVecNMI, kVecRES

(* The registers a handler begins with. *)
LEMMA EnteredGood ==
  ASSUME NEW c \in GoodCPU, NEW s, IsStack(s), NEW vector \in Word
  PROVE  Entered(c, s, vector) \in GoodCPU
<1>1. s.SP \in Byte /\ IsMemory(s.mem)
  BY DEF IsStack
<1>2. read_word(s.mem, vector) \in Word
  BY <1>1, ReadWordType
<1>3. c.STATUS \in GoodStatus
  BY GoodUpdates
<1>4. c.STATUS \cup {kMaskInterrupt} \in GoodStatus
  BY <1>3, MaskType DEF GoodStatus
<1> QED
  BY <1>1, <1>2, <1>4, GoodUpdates DEF Entered

(* The registers after a reset, whatever they were. *)
LEMMA ResetGood ==
  ASSUME NEW c \in [A : Byte, X : Byte, Y : Byte, SP : Byte, PC : Word,
                    STATUS : SUBSET Masks, illegal_opcode : BOOLEAN, shutdown : BOOLEAN],
         NEW m, IsMemory(m)
  PROVE  ResetState(c, m) \in GoodCPU
<1>1. read_word(m, kVecRES) \in Word
  BY VectorType, ReadWordType
<1>2. 0 \in Byte /\ kStackReset \in Byte
  BY ByteBounds DEF kStackReset
<1> QED
  BY <1>1, <1>2, MaskType DEF ResetState, GoodCPU, CPUState

(* A handler that leaves good registers and a memory keeps Good. *)
LEMMA HandleGood ==
  ASSUME Good, NEW l \in Line, Handle(l), cpu' \in GoodCPU, IsMemory(mem')
  PROVE  Good'
<1>1. int' \in [Line -> BOOLEAN]
  BY DEF Good, TypeOK, Handle
<1>2. at' \in Place
  BY DEF Handle, PollPlace, After, Place
<1> QED
  BY <1>1, <1>2 DEF Good, TypeOK, ConstantFlagSet, Handle, GoodCPU

(* The three handlers keep Good. *)
LEMMA HandlersGood ==
  ASSUME Good, handle_irq \/ handle_nmi \/ handle_res
  PROVE  Good'
<1> DEFINE s == SavedFrame(cpu, mem, cpu.STATUS)
<1>1. cpu \in GoodCPU /\ cpu \in CPUState /\ IsMemory(mem)
  BY GoodParts DEF GoodCPU
<1>2. IsStack(s) /\ IsMemory(s.mem)
  BY <1>1, SavedFrameType DEF IsStack
<1> HIDE DEF s
<1>3. CASE handle_irq
  <2>1. cpu' = Entered(cpu, s, kVecIRQ) /\ mem' = s.mem
    BY <1>3 DEF handle_irq, s
  <2>2. cpu' \in GoodCPU /\ IsMemory(mem')
    BY <1>1, <1>2, <2>1, EnteredGood, VectorType
  <2> QED
    BY <1>3, <2>2, HandleGood DEF handle_irq, Line
<1>4. CASE handle_nmi
  <2>1. cpu' = Entered(cpu, s, kVecNMI) /\ mem' = s.mem
    BY <1>4 DEF handle_nmi, s
  <2>2. cpu' \in GoodCPU /\ IsMemory(mem')
    BY <1>1, <1>2, <2>1, EnteredGood, VectorType
  <2> QED
    BY <1>4, <2>2, HandleGood DEF handle_nmi, Line
<1>5. CASE handle_res
  <2>1. cpu' \in GoodCPU /\ IsMemory(mem')
    BY <1>1, <1>5, ResetGood DEF handle_res, CPUState
  <2> QED
    BY <1>5, <2>1, HandleGood DEF handle_res, Line
<1> QED
  BY <1>3, <1>4, <1>5

-----------------------------------------------------------------------------
(* The instructions that belong to no family. *)

(* ADC, in binary and in decimal mode. *)
LEMMA AdcGood ==
  ASSUME Good, op_adc
  PROVE  Good'
<1> DEFINE tmp      == operand + cpu.A + C(cpu)
           overflow == Negative(cpu.A) = Negative(operand) /\ Negative(cpu.A) # Negative(tmp)
           binary(status) == Flag(Flag(Flag(status, kMaskSign, Negative(tmp)),
                                       kMaskOverflow, overflow), kMaskCarry, tmp > \hFF)
           S == Flag(IF kMaskDecimal \in fetched.STATUS THEN fetched.STATUS
                     ELSE binary(fetched.STATUS), kMaskZero, U8(tmp) = 0)
<1>1. /\ fetched \in GoodCPU /\ fetched.STATUS \in GoodStatus
      /\ IsMemory(mem) /\ operand \in Byte /\ cpu.A \in Byte
  BY GoodParts, GoodUpdates
<1>2. tmp \in Int
  BY SMT, <1>1, ByteBounds DEF C
<1>3. U8(tmp) \in Byte
  BY <1>2, U8Type
<1>4. Flag(fetched.STATUS, kMaskSign, Negative(tmp)) \in GoodStatus
  BY <1>1, FlagStatus
<1>5. Flag(Flag(fetched.STATUS, kMaskSign, Negative(tmp)), kMaskOverflow, overflow) \in GoodStatus
  BY <1>4, FlagStatus
<1>6. binary(fetched.STATUS) \in GoodStatus
  BY <1>5, FlagStatus
<1>7. S \in GoodStatus
  BY <1>1, <1>6, FlagStatus
<1>8. Retire([fetched EXCEPT !.A = U8(tmp), !.STATUS = S], mem)
  BY DEF op_adc
<1> HIDE DEF tmp, S
<1>9. [fetched EXCEPT !.A = U8(tmp), !.STATUS = S] \in GoodCPU
  BY <1>1, <1>3, <1>7, GoodUpdates
<1> QED
  BY <1>1, <1>8, <1>9, RetireGood

(* SBC. *)
LEMMA SbcGood ==
  ASSUME Good, op_sbc
  PROVE  Good'
<1> DEFINE tmp      == U16(cpu.A - operand - C(cpu))
           res      == U8(tmp)
           overflow == Negative(cpu.A) # Negative(res) /\ Negative(cpu.A) # Negative(operand)
           S == Flag(Flag(SignZero(fetched.STATUS, res), kMaskOverflow, overflow),
                     kMaskCarry, tmp < \h100)
<1>1. /\ fetched \in GoodCPU /\ fetched.STATUS \in GoodStatus
      /\ IsMemory(mem) /\ operand \in Byte /\ cpu.A \in Byte
  BY GoodParts, GoodUpdates
<1>2. cpu.A - operand - C(cpu) \in Int
  BY SMT, <1>1, ByteBounds DEF C
<1>3. tmp \in Int
  BY <1>2, U16Type, WordBounds
<1>4. res \in Byte
  BY <1>3, U8Type
<1>5. SignZero(fetched.STATUS, res) \in GoodStatus
  BY <1>1, FlagStatus
<1>6. Flag(SignZero(fetched.STATUS, res), kMaskOverflow, overflow) \in GoodStatus
  BY <1>5, FlagStatus
<1>7. S \in GoodStatus
  BY <1>6, FlagStatus
<1>8. Retire([fetched EXCEPT !.A = res, !.STATUS = S], mem)
  BY DEF op_sbc
<1> HIDE DEF tmp, res, S
<1>9. [fetched EXCEPT !.A = res, !.STATUS = S] \in GoodCPU
  BY <1>1, <1>4, <1>7, GoodUpdates
<1> QED
  BY <1>1, <1>8, <1>9, RetireGood

(* BIT. *)
LEMMA BitGood ==
  ASSUME Good, op_bit
  PROVE  Good'
<1> DEFINE res == ByteAnd(operand, cpu.A)
<1>1. fetched.STATUS \in GoodStatus /\ IsMemory(mem)
  BY GoodParts, GoodUpdates
<1>2. SignZero(fetched.STATUS, res) \in GoodStatus
  BY <1>1, FlagStatus
<1>3. Flag(SignZero(fetched.STATUS, res), kMaskOverflow, HasBit(res, \h40)) \in GoodStatus
  BY <1>2, FlagStatus
<1> QED
  BY <1>1, <1>3, StatusGood DEF op_bit

(* BRK. *)
LEMMA BrkGood ==
  ASSUME Good, op_brk
  PROVE  Good'
<1> DEFINE c == [fetched EXCEPT !.PC = U16(fetched.PC + 1)]
           s == SavedFrame(c, mem, c.STATUS \cup {kMaskBreak})
<1>1. fetched \in GoodCPU /\ IsMemory(mem)
  BY GoodParts
<1>2. fetched.PC + 1 \in Int
  BY <1>1, GoodUpdates, NextToWord
<1>3. c \in GoodCPU
  BY <1>1, <1>2, U16Type, GoodUpdates
<1>4. Retire(Entered(c, s, kVecBRK), s.mem)
  BY DEF op_brk
<1> HIDE DEF c
<1>5. IsStack(s) /\ IsMemory(s.mem)
  BY <1>1, <1>3, SavedFrameType DEF GoodCPU, IsStack
<1> HIDE DEF s
<1> QED
  BY <1>3, <1>4, <1>5, EnteredGood, VectorType, RetireGood

(* JSR. *)
LEMMA JsrGood ==
  ASSUME Good, op_jsr
  PROVE  Good'
<1> DEFINE s == stack_push_word(Stack(cpu, mem), U16(fetched.PC - 1))
<1>1. fetched \in GoodCPU /\ src \in Word
  BY GoodParts
<1>2. fetched.PC - 1 \in Int
  BY <1>1, GoodUpdates, NextToWord
<1>3. IsStack(s)
  BY <1>2, U16Type, StackGood, PushWordType
<1>4. Retire([fetched EXCEPT !.SP = s.SP, !.PC = src], s.mem)
  BY DEF op_jsr
<1> HIDE DEF s
<1>5. s.SP \in Byte /\ IsMemory(s.mem)
  BY <1>3 DEF IsStack
<1>6. [fetched EXCEPT !.SP = s.SP, !.PC = src] \in GoodCPU
  BY <1>1, <1>5, GoodUpdates
<1> QED
  BY <1>4, <1>5, <1>6, RetireGood

(* PLA, and PLP which sets the constant bit itself. *)
LEMMA PullGood ==
  ASSUME Good, op_pla \/ op_plp
  PROVE  Good'
<1> DEFINE s == stack_pop_byte(Stack(cpu, mem))
<1>1. /\ fetched \in GoodCPU /\ fetched.STATUS \in GoodStatus /\ IsMemory(mem)
  BY GoodParts, GoodUpdates
<1>2. IsStack(s) /\ s.value \in Byte
  BY StackGood, PopByteType
<1>3. CASE op_pla
  <2>1. Retire([fetched EXCEPT !.SP = s.SP, !.A = s.value,
                               !.STATUS = SignZero(fetched.STATUS, s.value)], mem)
    BY <1>3 DEF op_pla
  <2> HIDE DEF s
  <2>2. s.SP \in Byte
    BY <1>2 DEF IsStack
  <2>3. SignZero(fetched.STATUS, s.value) \in GoodStatus
    BY <1>1, FlagStatus
  <2>4. [fetched EXCEPT !.SP = s.SP, !.A = s.value,
                        !.STATUS = SignZero(fetched.STATUS, s.value)] \in GoodCPU
    BY <1>1, <1>2, <2>2, <2>3, GoodUpdates
  <2> QED
    BY <1>1, <2>1, <2>4, RetireGood
<1>4. CASE op_plp
  <2> DEFINE S == (Bits(s.value) \cup {kMaskConstant}) \ {kMaskBreak}
  <2>1. Retire([fetched EXCEPT !.SP = s.SP, !.STATUS = S], mem)
    BY <1>4 DEF op_plp
  <2> HIDE DEF s
  <2>2. s.SP \in Byte
    BY <1>2 DEF IsStack
  <2>3. S \in GoodStatus
    BY BitsType, MaskType, MasksDistinct DEF GoodStatus
  <2>4. [fetched EXCEPT !.SP = s.SP, !.STATUS = S] \in GoodCPU
    BY <1>1, <2>2, <2>3, GoodUpdates
  <2> QED
    BY <1>1, <2>1, <2>4, RetireGood
<1> QED
  BY <1>3, <1>4

(* RTI and RTS; RTI sets the constant bit itself. *)
LEMMA ReturnGood ==
  ASSUME Good, op_rti \/ op_rts
  PROVE  Good'
<1> DEFINE s == stack_pop_byte(Stack(cpu, mem))
<1>1. fetched \in GoodCPU /\ IsMemory(mem)
  BY GoodParts
<1>2. IsStack(Stack(cpu, mem)) /\ IsStack(s)
  BY StackGood, PopByteType
<1>3. CASE op_rti
  <2> DEFINE pc == stack_pop_word(s)
             S  == Bits(s.value) \cup {kMaskConstant}
  <2>1. Retire([fetched EXCEPT !.SP = pc.SP, !.PC = pc.value, !.STATUS = S], mem)
    BY <1>3 DEF op_rti
  <2>2. IsStack(pc) /\ pc.value \in Word
    BY <1>2, PopWordType
  <2>3. S \in GoodStatus
    BY BitsType, MaskType DEF GoodStatus
  <2> HIDE DEF pc, S
  <2>4. pc.SP \in Byte
    BY <2>2 DEF IsStack
  <2>5. [fetched EXCEPT !.SP = pc.SP, !.PC = pc.value, !.STATUS = S] \in GoodCPU
    BY <1>1, <2>2, <2>3, <2>4, GoodUpdates
  <2> QED
    BY <1>1, <2>1, <2>5, RetireGood
<1>4. CASE op_rts
  <2> DEFINE pc == stack_pop_word(Stack(cpu, mem))
  <2>1. Retire([fetched EXCEPT !.SP = pc.SP, !.PC = U16(pc.value + 1)], mem)
    BY <1>4 DEF op_rts
  <2>2. IsStack(pc) /\ pc.value \in Word
    BY <1>2, PopWordType
  <2> HIDE DEF pc
  <2>3. pc.SP \in Byte
    BY <2>2 DEF IsStack
  <2>4. pc.value + 1 \in Int
    BY <2>2, NextToWord
  <2>5. [fetched EXCEPT !.SP = pc.SP, !.PC = U16(pc.value + 1)] \in GoodCPU
    BY <1>1, <2>3, <2>4, U16Type, GoodUpdates
  <2> QED
    BY <1>1, <2>1, <2>5, RetireGood
<1> QED
  BY <1>3, <1>4

-----------------------------------------------------------------------------
(***************************************************************************)
(* Every instruction keeps Good.                                           *)
(***************************************************************************)
LEMMA OperandArithmetic ==
  ASSUME Good
  PROVE  /\ operand \in Byte
         /\ U8(operand + 1) \in Byte /\ U8(operand - 1) \in Byte
         /\ U8(2 * operand) \in Byte
         /\ U8(2 * operand + C(cpu)) \in Byte
         /\ operand \div 2 \in Byte
         /\ U8((operand + \h100 * C(cpu)) \div 2) \in Byte
<1>1. operand \in Byte
  BY GoodParts
<1>2. operand \in Int /\ 0 <= operand /\ operand <= 255
  BY <1>1, ByteBounds
<1>3. C(cpu) \in {0, 1}
  BY DEF C
<1>4. /\ operand + 1 \in Int /\ operand - 1 \in Int /\ 2 * operand \in Int
      /\ 2 * operand + C(cpu) \in Int
  BY SMT, <1>2, <1>3
<1>5. operand \div 2 \in Int /\ 0 <= operand \div 2 /\ operand \div 2 <= 255
  BY SMT, <1>2
<1>6. operand + \h100 * C(cpu) \in Int
  BY SMT, <1>2, <1>3
<1>7. (operand + \h100 * C(cpu)) \div 2 \in Int
  BY SMT, <1>6
<1>8. operand \div 2 \in Byte
  BY <1>5, ByteBounds
<1> QED
  BY <1>1, <1>4, <1>7, <1>8, U8Type

(* The registers and their neighbours modulo 256 are bytes. *)
LEMMA RegisterArithmetic ==
  ASSUME Good
  PROVE  /\ cpu.A \in Byte /\ cpu.X \in Byte /\ cpu.Y \in Byte /\ cpu.SP \in Byte
         /\ U8(cpu.X + 1) \in Byte /\ U8(cpu.X - 1) \in Byte
         /\ U8(cpu.Y + 1) \in Byte /\ U8(cpu.Y - 1) \in Byte
<1>1. cpu.A \in Byte /\ cpu.X \in Byte /\ cpu.Y \in Byte /\ cpu.SP \in Byte
  BY GoodParts, GoodUpdates
<1>2. \A b \in Byte : b + 1 \in Int /\ b - 1 \in Int
  BY SMT, ByteBounds
<1> QED
  BY <1>1, <1>2, U8Type

(* Instructions that assign a register. *)
LEMMA LoadsGood ==
  ASSUME Good,
         \/ op_and \/ op_eor \/ op_ora \/ op_lda \/ op_ldx \/ op_ldy
         \/ op_dex \/ op_dey \/ op_inx \/ op_iny
         \/ op_tax \/ op_tay \/ op_tsx \/ op_txa \/ op_tya
  PROVE  Good'
<1>1. \A a, b : ByteAnd(a, b) \in Byte /\ ByteOr(a, b) \in Byte /\ ByteXor(a, b) \in Byte
  BY FromBitsType DEF ByteAnd, ByteOr, ByteXor
<1>2. CASE op_and \/ op_eor \/ op_ora
  BY <1>1, <1>2, AssignGood DEF op_and, op_eor, op_ora
<1>3. CASE op_lda \/ op_ldx \/ op_ldy
  BY <1>3, OperandArithmetic, AssignGood DEF op_lda, op_ldx, op_ldy
<1>4. CASE op_dex \/ op_dey \/ op_inx \/ op_iny
  BY <1>4, RegisterArithmetic, AssignGood DEF op_dex, op_dey, op_inx, op_iny
<1>5. CASE op_tax \/ op_tay \/ op_tsx \/ op_txa \/ op_tya
  BY <1>5, RegisterArithmetic, AssignGood DEF op_tax, op_tay, op_tsx, op_txa, op_tya
<1> QED
  BY <1>2, <1>3, <1>4, <1>5

(* Instructions that write memory. *)
LEMMA StoresGood ==
  ASSUME Good,
         \/ op_inc \/ op_dec \/ op_asl \/ op_lsr \/ op_rol \/ op_ror
         \/ op_sta \/ op_stx \/ op_sty \/ op_pha \/ op_php
  PROVE  Good'
<1>1. CASE op_inc \/ op_dec \/ op_asl \/ op_lsr
  BY <1>1, OperandArithmetic, ModifyGood DEF op_inc, op_dec, op_asl, op_lsr
<1>2. CASE op_rol \/ op_ror
  BY <1>2, OperandArithmetic, ModifyGood DEF op_rol, op_ror
<1>3. CASE op_sta \/ op_stx \/ op_sty
  <2>1. fetched \in GoodCPU /\ IsMemory(mem) /\ src \in Word
    BY GoodParts
  <2>2. /\ IsMemory(write_byte(mem, src, cpu.A))
        /\ IsMemory(write_byte(mem, src, cpu.X))
        /\ IsMemory(write_byte(mem, src, cpu.Y))
    BY <2>1, RegisterArithmetic, WriteByteType
  <2> QED
    BY <1>3, <2>1, <2>2, RetireGood DEF op_sta, op_stx, op_sty
<1>4. CASE op_pha \/ op_php
  BY <1>4, RegisterArithmetic, FromBitsType, PushGood DEF op_pha, op_php
<1> QED
  BY <1>1, <1>2, <1>3, <1>4

(* Branches, flags, comparisons, jumps and WAI. *)
LEMMA ControlGood ==
  ASSUME Good,
         \/ op_bcc \/ op_bcs \/ op_beq \/ op_bmi \/ op_bne \/ op_bpl \/ op_bvs
         \/ op_clc \/ op_cld \/ op_cli \/ op_clv \/ op_sec \/ op_sed \/ op_sei
         \/ op_cmp \/ op_cpx \/ op_cpy
         \/ op_illegal \/ op_nop \/ op_jmp \/ op_txs \/ op_wai
  PROVE  Good'
<1>1. fetched \in GoodCPU /\ IsMemory(mem) /\ src \in Word
  BY GoodParts
<1>2. CASE op_bcc \/ op_bcs \/ op_beq \/ op_bmi \/ op_bne \/ op_bpl \/ op_bvs
  BY <1>2, BranchGood DEF op_bcc, op_bcs, op_beq, op_bmi, op_bne, op_bpl, op_bvs
<1>3. CASE op_clc \/ op_cld \/ op_cli \/ op_clv \/ op_sec \/ op_sed \/ op_sei
  BY <1>3, SetFlagGood DEF op_clc, op_cld, op_cli, op_clv, op_sec, op_sed, op_sei
<1>4. CASE op_cmp \/ op_cpx \/ op_cpy
  BY <1>4, CompareGood DEF op_cmp, op_cpx, op_cpy
<1>5. CASE op_illegal
  BY <1>1, <1>5, GoodUpdates, RetireGood DEF op_illegal
<1>6. CASE op_nop
  BY <1>1, <1>6, RetireGood DEF op_nop
<1>7. CASE op_jmp
  BY <1>1, <1>7, GoodUpdates, RetireGood DEF op_jmp
<1>8. CASE op_txs
  BY <1>1, <1>8, RegisterArithmetic, GoodUpdates, RetireGood DEF op_txs
<1>9. CASE op_wai
  <2>1. cpu' \in CPUState /\ kMaskConstant \in cpu'.STATUS
    BY <1>1, <1>9 DEF op_wai, GoodCPU
  <2> QED
    BY <1>9, <2>1 DEF op_wai, Good, TypeOK, ConstantFlagSet, Place
<1> QED
  BY <1>2, <1>3, <1>4, <1>5, <1>6, <1>7, <1>8, <1>9

(* All instructions. *)
LEMMA InstructionsGood ==
  ASSUME Good, Instructions
  PROVE  Good'
BY LoadsGood, StoresGood, ControlGood, AdcGood, SbcGood, BitGood, BrkGood, JsrGood,
   PullGood, ReturnGood DEF Instructions

(* The state at the start of CPU::start. *)
LEMMA InitGood ==
  ASSUME Init
  PROVE  Good
<1> DEFINE c == [A |-> 0, X |-> 0, Y |-> 0, SP |-> 0, PC |-> 0, STATUS |-> {},
                 illegal_opcode |-> FALSE, shutdown |-> FALSE]
<1>1. IsMemory(mem)
  BY CPUAssumption DEF Init
<1>2. c \in [A : Byte, X : Byte, Y : Byte, SP : Byte, PC : Word,
             STATUS : SUBSET Masks, illegal_opcode : BOOLEAN, shutdown : BOOLEAN]
  BY ByteBounds, WordBounds
<1>3. cpu = ResetState(c, mem)
  BY DEF Init
<1> HIDE DEF c
<1>4. cpu \in GoodCPU
  BY <1>1, <1>2, <1>3, ResetGood
<1> QED
  BY <1>1, <1>4 DEF Good, TypeOK, ConstantFlagSet, GoodCPU, Init, Place, PollPlace

(* Where the poll of a flag leads. *)
LEMMA AfterPlace == \A p \in PollPlace : After[p] \in PollPlace \cup {"fetch"}
BY DEF PollPlace, After

(* Every step of the CPU and of the devices. *)
LEMMA NextGood ==
  ASSUME Good, [Next]_vars
  PROVE  Good'
<1> USE DEF Good, TypeOK, ConstantFlagSet
<1>1. CASE start_returns
  BY <1>1 DEF start_returns, Place
<1>2. CASE Poll
  <2>1. at' \in Place
    BY <1>2, AfterPlace DEF Poll, Place
  <2>2. serving' \in BOOLEAN
    BY <1>2 DEF Poll
  <2> QED
    BY <1>2, <2>1, <2>2 DEF Poll
<1>3. CASE handle_irq \/ handle_nmi \/ handle_res
  BY <1>3, HandlersGood
<1>4. CASE Instructions
  BY <1>4, InstructionsGood
<1>5. CASE wai_test
  BY <1>5 DEF wai_test, Place, PollPlace
<1>6. CASE wai_sleep
  BY <1>6 DEF wai_sleep, Place
<1>7. CASE spurious_wakeup
  BY <1>7 DEF spurious_wakeup, Place
<1>8. ASSUME NEW d \in Devices, notify_one(d)
      PROVE  Good'
  BY <1>8 DEF notify_one, Place
<1>9. ASSUME NEW d \in Devices, NEW l \in Lines[d], raise_flag(d, l)
      PROVE  Good'
  <2>1. l \in Line
    BY CPUAssumption
  <2> QED
    BY <1>9, <2>1 DEF raise_flag
<1>10. CASE UNCHANGED vars
  BY <1>10 DEF vars
<1> QED
  BY <1>1, <1>2, <1>3, <1>4, <1>5, <1>6, <1>7, <1>8, <1>9, <1>10 DEF Next, CPUThread

(***************************************************************************)
(* The registers keep their widths, PC and every address stay on the bus,  *)
(* memory holds bytes, whatever the program and the devices do.            *)
(***************************************************************************)
THEOREM TypeCorrect == Spec => []TypeOK
<1>1. Init => Good
  BY InitGood
<1>2. Good /\ [Next]_vars => Good'
  BY NextGood
<1>3. Good => TypeOK
  BY DEF Good
<1> QED
  BY <1>1, <1>2, <1>3, PTL DEF Spec

(***************************************************************************)
(* Bit 5 of STATUS is set at all times, also after op_plp and op_rti load  *)
(* any byte from the stack and after handle_res.                           *)
(***************************************************************************)
THEOREM ConstantBit == Spec => []ConstantFlagSet
<1>1. Init => Good
  BY InitGood
<1>2. Good /\ [Next]_vars => Good'
  BY NextGood
<1>3. Good => ConstantFlagSet
  BY DEF Good
<1> QED
  BY <1>1, <1>2, <1>3, PTL DEF Spec

-----------------------------------------------------------------------------
(***************************************************************************)
(* The polls.  A handler about to run has seen its flag set, and only that *)
(* handler clears it; an IRQ handler has also seen I clear, and no step    *)
(* comes between that test and the handler.                                *)
(***************************************************************************)
PollInv ==
  serving => /\ at \in PollPlace
             /\ int[Polled[at]]
             /\ Polled[at] = "irq" => kMaskInterrupt \notin cpu.STATUS

(* What an instruction does to the state the interrupts share with it. *)
InstructionFrame ==
  /\ at = "fetch"
  /\ at' \in {"cycle_irq", "wai_test"}
  /\ UNCHANGED <<int, serving, raising>>

(* An instruction that retires leaves the interrupt flags alone. *)
LEMMA RetireFrame ==
  ASSUME NEW code, Executing(code), NEW c, NEW m, Retire(c, m)
  PROVE  InstructionFrame
BY DEF Executing, Retire, InstructionFrame

(* No instruction touches an interrupt flag or a poll. *)
LEMMA InstructionsFrame ==
  ASSUME Instructions
  PROVE  InstructionFrame
<1> USE RetireFrame
<1>1. CASE op_illegal \/ op_nop \/ op_jmp \/ op_txs
  BY <1>1 DEF op_illegal, op_nop, op_jmp, op_txs
<1>2. CASE op_and \/ op_eor \/ op_ora \/ op_lda \/ op_txa \/ op_tya
  BY <1>2 DEF op_and, op_eor, op_ora, op_lda, op_txa, op_tya, AssignA
<1>3. CASE op_ldx \/ op_dex \/ op_inx \/ op_tax \/ op_tsx
  BY <1>3 DEF op_ldx, op_dex, op_inx, op_tax, op_tsx, AssignX
<1>4. CASE op_ldy \/ op_dey \/ op_iny \/ op_tay
  BY <1>4 DEF op_ldy, op_dey, op_iny, op_tay, AssignY
<1>5. CASE op_inc \/ op_dec
  BY <1>5 DEF op_inc, op_dec, Modify
<1>6. CASE op_asl \/ op_lsr \/ op_rol \/ op_ror
  BY <1>6 DEF op_asl, op_lsr, op_rol, op_ror, Shift
<1>7. CASE op_bcc \/ op_bcs \/ op_beq \/ op_bmi \/ op_bne \/ op_bpl \/ op_bvs
  BY <1>7 DEF op_bcc, op_bcs, op_beq, op_bmi, op_bne, op_bpl, op_bvs, Branch
<1>8. CASE op_clc \/ op_cld \/ op_cli \/ op_clv \/ op_sec \/ op_sed \/ op_sei
  BY <1>8 DEF op_clc, op_cld, op_cli, op_clv, op_sec, op_sed, op_sei, SetFlag
<1>9. CASE op_cmp \/ op_cpx \/ op_cpy
  BY <1>9 DEF op_cmp, op_cpx, op_cpy, Compare
<1>10. CASE op_sta \/ op_stx \/ op_sty
  BY <1>10 DEF op_sta, op_stx, op_sty
<1>11. CASE op_pha \/ op_php
  BY <1>11 DEF op_pha, op_php, Push
<1>12. CASE op_adc \/ op_sbc \/ op_bit
  BY <1>12 DEF op_adc, op_sbc, op_bit
<1>13. CASE op_brk \/ op_jsr \/ op_pla \/ op_plp \/ op_rti \/ op_rts
  BY <1>13 DEF op_brk, op_jsr, op_pla, op_plp, op_rti, op_rts
<1>14. CASE op_wai
  BY <1>14 DEF op_wai, Executing, InstructionFrame
<1> QED
  BY <1>1, <1>2, <1>3, <1>4, <1>5, <1>6, <1>7, <1>8, <1>9, <1>10, <1>11, <1>12, <1>13, <1>14
  DEF Instructions

(* Every step keeps the invariant of the polls. *)
LEMMA NextPolls ==
  ASSUME TypeOK, PollInv, [Next]_vars
  PROVE  PollInv'
<1>1. CASE start_returns
  BY <1>1 DEF start_returns, PollInv
<1>2. CASE Poll
  BY <1>2 DEF Poll, PollInv
<1>3. CASE handle_irq \/ handle_nmi \/ handle_res
  BY <1>3 DEF handle_irq, handle_nmi, handle_res, Handle, PollInv
<1>4. CASE Instructions
  <2>1. at = "fetch" /\ serving' = serving
    BY <1>4, InstructionsFrame DEF InstructionFrame
  <2> QED
    BY <2>1 DEF PollInv, PollPlace
<1>5. CASE wai_test \/ wai_sleep \/ spurious_wakeup
  BY <1>5 DEF wai_test, wai_sleep, spurious_wakeup, PollInv, PollPlace
<1>6. ASSUME NEW d \in Devices, notify_one(d)
      PROVE  PollInv'
  <2>1. serving => at # "wai_blocked"
    BY DEF PollInv, PollPlace
  <2> QED
    BY <1>6, <2>1 DEF notify_one, PollInv
<1>7. ASSUME NEW d \in Devices, NEW l \in Lines[d], raise_flag(d, l)
      PROVE  PollInv'
  <2>1. \A x \in Line : int[x] => int'[x]
    BY <1>7 DEF raise_flag, TypeOK
  <2>2. \A p \in PollPlace : Polled[p] \in Line
    BY DEF PollPlace, Polled, Line
  <2> QED
    BY <1>7, <2>1, <2>2 DEF raise_flag, PollInv
<1>8. CASE UNCHANGED vars
  BY <1>8 DEF vars, PollInv
<1> QED
  BY <1>1, <1>2, <1>3, <1>4, <1>5, <1>6, <1>7, <1>8 DEF Next, CPUThread

-----------------------------------------------------------------------------
(* The CPU implements the interrupt lines. *)

Pending == {l \in Line : int[l]}
Masked  == kMaskInterrupt \in cpu.STATUS
Stopped == at = "stopped"

(* The initial state maps to an initial state of the lines. *)
LEMMA LinesInit ==
  ASSUME Init
  PROVE  InterruptLines!IInit
<1>1. Pending = {}
  BY DEF Init, Pending
<1>2. kMaskInterrupt # kMaskConstant
  BY MasksDistinct
<1>3. ~Masked
  BY <1>2 DEF Init, ResetState, Masked
<1>4. ~Stopped
  BY DEF Init, Stopped
<1> QED
  BY <1>1, <1>3, <1>4 DEF InterruptLines!IInit, Pending, Masked, Stopped

(* What a handler leaves in the I flag. *)
LEMMA HandlerMask ==
  /\ \A c \in CPUState : \A s, v : kMaskInterrupt \in Entered(c, s, v).STATUS
  /\ \A c \in CPUState : \A m : kMaskInterrupt \notin ResetState(c, m).STATUS
<1>1. kMaskInterrupt # kMaskConstant
  BY MasksDistinct
<1> QED
  BY <1>1 DEF Entered, ResetState, CPUState

(* A handler maps to the acceptance of its line. *)
LEMMA HandleAccepts ==
  ASSUME TypeOK, PollInv, NEW l \in Line, Handle(l), Masked' = (l # "res")
  PROVE  InterruptLines!Accept(l)
<1>1. ~Stopped /\ Stopped' = Stopped
  BY AfterPlace DEF Handle, PollPlace, Stopped
<1>2. l \in Pending /\ (l = "irq" => ~Masked)
  BY DEF Handle, PollInv, Pending, Masked
<1>3. Pending' = Pending \ {l}
  BY DEF Handle, TypeOK, Pending
<1> QED
  BY <1>1, <1>2, <1>3 DEF InterruptLines!Accept, Pending, Masked, Stopped

(* Every step maps to a step of the lines or to none. *)
LEMMA LinesStep ==
  ASSUME TypeOK, PollInv, [Next]_vars
  PROVE  [InterruptLines!INext]_(InterruptLines!ivars)
<1> DEFINE Stutter == UNCHANGED <<Pending, Masked, Stopped>>
<1>1. Stutter => UNCHANGED InterruptLines!ivars
  BY DEF InterruptLines!ivars, Pending, Masked, Stopped
<1>2. \A l \in Line : InterruptLines!Accept(l) => InterruptLines!INext
  BY DEF InterruptLines!INext, InterruptLines!Line, Line
<1>3. CASE start_returns
  BY <1>3 DEF start_returns, InterruptLines!INext, InterruptLines!Stop
<1>4. CASE Poll
  <2>1. ~Stopped /\ ~Stopped'
    BY <1>4, AfterPlace DEF Poll, PollPlace, Stopped
  <2>2. Stopped' = Stopped
    BY <2>1 DEF Stopped
  <2>3. Pending' = Pending /\ Masked' = Masked
    BY <1>4 DEF Poll, Pending, Masked
  <2> QED
    BY <1>1, <2>2, <2>3
<1>5. CASE handle_irq
  BY <1>2, <1>5, HandlerMask, HandleAccepts DEF handle_irq, TypeOK, Masked, Line
<1>6. CASE handle_nmi
  BY <1>2, <1>6, HandlerMask, HandleAccepts DEF handle_nmi, TypeOK, Masked, Line
<1>7. CASE handle_res
  BY <1>2, <1>7, HandlerMask, HandleAccepts DEF handle_res, TypeOK, Masked, Line
<1>8. CASE Instructions
  <2>1. ~Stopped /\ Stopped' = Stopped /\ Pending' = Pending /\ Masked' \in BOOLEAN
    BY <1>8, InstructionsFrame DEF InstructionFrame, Stopped, Pending, Masked
  <2> QED
    BY <2>1 DEF InterruptLines!INext, InterruptLines!Instruction, Pending, Masked, Stopped
<1>9. CASE wai_test \/ wai_sleep \/ spurious_wakeup
  BY <1>1, <1>9 DEF wai_test, wai_sleep, spurious_wakeup, Pending, Masked, Stopped
<1>10. ASSUME NEW d \in Devices, notify_one(d)
       PROVE  UNCHANGED InterruptLines!ivars
  BY <1>1, <1>10 DEF notify_one, Pending, Masked, Stopped
<1>11. ASSUME NEW d \in Devices, NEW l \in Lines[d], raise_flag(d, l)
       PROVE  InterruptLines!INext
  <2>1. l \in Line
    BY CPUAssumption
  <2>2. Pending' = Pending \cup {l} /\ UNCHANGED <<Masked, Stopped>>
    BY <1>11, <2>1 DEF raise_flag, TypeOK, Pending, Masked, Stopped
  <2>3. InterruptLines!Raise(l)
    BY <2>2 DEF InterruptLines!Raise, Pending, Masked, Stopped
  <2> QED
    BY <2>1, <2>3 DEF InterruptLines!INext, InterruptLines!Line, Line
<1>12. CASE UNCHANGED vars
  BY <1>1, <1>12 DEF vars, Pending, Masked, Stopped
<1> QED
  BY <1>3, <1>4, <1>5, <1>6, <1>7, <1>8, <1>9, <1>10, <1>11, <1>12 DEF Next, CPUThread

(***************************************************************************)
(* Under every program and every set of devices the CPU implements the     *)
(* interrupt lines: a raised line stays pending until its own handler runs,*)
(* handle_irq runs only with I clear, and a handler clears no other line.  *)
(***************************************************************************)
THEOREM LinesImplemented == Spec => LinesSafety
<1>1. Init => Good /\ PollInv /\ InterruptLines!IInit
  BY InitGood, LinesInit DEF Init, PollInv
<1>2. Good /\ [Next]_vars => Good'
  BY NextGood
<1>3. Good => TypeOK
  BY DEF Good
<1>4. TypeOK /\ PollInv /\ [Next]_vars => PollInv'
  BY NextPolls
<1>5. TypeOK /\ PollInv /\ [Next]_vars => [InterruptLines!INext]_(InterruptLines!ivars)
  BY LinesStep
<1> QED
  BY <1>1, <1>2, <1>3, <1>4, <1>5, PTL DEF Spec, LinesSafety, InterruptLines!ISafety

-----------------------------------------------------------------------------
(***************************************************************************)
(* Popping undoes pushing.                                                 *)
(***************************************************************************)
Pushed(sp) == IF sp = 0 THEN kStackReset ELSE sp - 1

(* The stack pointer after a push, and that two pushes do not return to it. *)
LEMMA PushedType ==
  \A sp \in Byte : /\ Pushed(sp) \in Byte
                   /\ Pushed(sp) # sp /\ Pushed(Pushed(sp)) # sp
                   /\ (IF Pushed(sp) = \hFF THEN 0 ELSE Pushed(sp) + 1) = sp
<1> SUFFICES ASSUME NEW sp \in Byte
             PROVE  /\ Pushed(sp) \in Byte
                    /\ Pushed(sp) # sp /\ Pushed(Pushed(sp)) # sp
                    /\ (IF Pushed(sp) = \hFF THEN 0 ELSE Pushed(sp) + 1) = sp
  OBVIOUS
<1>1. sp \in Int /\ 0 <= sp /\ sp <= 255
  BY ByteBounds
<1>2. Pushed(sp) \in Int /\ 0 <= Pushed(sp) /\ Pushed(sp) <= 255
  BY SMT, <1>1 DEF Pushed, kStackReset
<1>3. Pushed(sp) \in Byte
  BY <1>2, ByteBounds
<1>4. Pushed(sp) # sp /\ Pushed(Pushed(sp)) # sp
  BY SMT, <1>1 DEF Pushed, kStackReset
<1>5. (IF Pushed(sp) = \hFF THEN 0 ELSE Pushed(sp) + 1) = sp
  BY SMT, <1>1 DEF Pushed, kStackReset
<1> QED
  BY <1>3, <1>4, <1>5

(* A push stores its byte in the slot the stack pointer selects, and       *)
(* changes what no other address of the bus reads.                         *)
LEMMA PushStores ==
  ASSUME NEW s, IsStack(s), NEW v \in Byte, "RAM" \in Attached
  PROVE  LET t == stack_push_byte(s, v)
         IN  /\ t.SP = Pushed(s.SP)
             /\ \A b \in Word : read_byte(t.mem, b) =
                                 IF b = kStackBase + s.SP THEN v ELSE read_byte(s.mem, b)
<1>1. s.SP \in Byte /\ IsMemory(s.mem)
  BY DEF IsStack
<1>2. kStackBase + s.SP \in Word /\ resolve_address_to_device(kStackBase + s.SP) = "RAM"
  BY <1>1, SlotType
<1>3. resolve_address_to_device(kStackBase + s.SP) \in Attached \ {"ROM"}
  BY <1>2
<1>4. stack_push_byte(s, v).mem = write_byte(s.mem, kStackBase + s.SP, v)
  BY DEF stack_push_byte, IsStack
<1>5. stack_push_byte(s, v).SP = Pushed(s.SP)
  BY DEF stack_push_byte, Pushed, IsStack
<1> QED
  BY <1>1, <1>2, <1>3, <1>4, <1>5, ReadAfterWrite

(* A pop reads the slot above the stack pointer and changes no memory. *)
LEMMA PopReads ==
  ASSUME NEW s, IsStack(s), NEW sp \in Byte, s.SP = Pushed(sp)
  PROVE  LET t == stack_pop_byte(s)
         IN  t.SP = sp /\ t.mem = s.mem /\ t.value = read_byte(s.mem, kStackBase + sp)
<1>1. (IF s.SP = \hFF THEN 0 ELSE s.SP + 1) = sp
  BY PushedType
<1> QED
  BY <1>1 DEF stack_pop_byte, IsStack

(* Slots of different stack pointers are different addresses. *)
LEMMA SlotsDistinct ==
  \A p, q \in Byte : p # q => kStackBase + p # kStackBase + q
BY SMT, ByteBounds DEF kStackBase

(***************************************************************************)
(* A context saved by handle_irq, handle_nmi or op_brk comes back whole:   *)
(* popping a byte and a word, as op_rti does, returns the status byte, PC  *)
(* and SP that were saved, wherever in its page the stack pointer was, its *)
(* wrap from 0 to 255 included.                                            *)
(***************************************************************************)
THEOREM InterruptRoundTrip ==
  ASSUME NEW c \in CPUState, NEW m, IsMemory(m), NEW status \in SUBSET Masks,
         "RAM" \in Attached
  PROVE  LET popped == stack_pop_byte(SavedFrame(c, m, status))
             pc     == stack_pop_word(popped)
         IN  /\ Bits(popped.value) = status
             /\ pc.value = c.PC
             /\ pc.SP = c.SP
<1> DEFINE sp1 == Pushed(c.SP)
           sp2 == Pushed(sp1)
           s0  == Stack(c, m)
           s1  == stack_push_byte(s0, Hi(c.PC))
           s2  == stack_push_byte(s1, Lo(c.PC))
           s3  == stack_push_byte(s2, FromBits(status))
           p1  == stack_pop_byte(s3)
           p2  == stack_pop_byte(p1)
           p3  == stack_pop_byte(p2)
           slot(sp) == kStackBase + sp
<1>1. c.PC \in Word /\ c.SP \in Byte /\ Hi(c.PC) \in Byte /\ Lo(c.PC) \in Byte
      /\ FromBits(status) \in Byte
  BY HalvesType, FromBitsType DEF CPUState
<1>2. sp1 \in Byte /\ sp2 \in Byte
  BY <1>1, PushedType
<1>3. c.SP # sp1 /\ c.SP # sp2 /\ sp1 # sp2
  BY <1>1, <1>2, PushedType
<1>4. /\ slot(c.SP) \in Word /\ slot(sp1) \in Word /\ slot(sp2) \in Word
  BY <1>1, <1>2, SlotType
<1>5. slot(c.SP) # slot(sp1) /\ slot(c.SP) # slot(sp2) /\ slot(sp1) # slot(sp2)
  BY <1>1, <1>2, <1>3, SlotsDistinct
<1>6. s0.SP = c.SP /\ IsStack(s0)
  BY StackType DEF Stack
<1>7. IsStack(s1) /\ IsStack(s2) /\ IsStack(s3)
  BY <1>1, <1>6, PushByteType
<1> HIDE DEF s0, sp1, sp2
<1>8. s1.SP = sp1
  BY <1>1, <1>6, PushStores DEF sp1
<1> DEFINE Stores(t, s, v) == \A b \in Word : read_byte(t.mem, b) =
                                IF b = slot(s.SP) THEN v ELSE read_byte(s.mem, b)
<1>9. Stores(s1, s0, Hi(c.PC))
  BY <1>1, <1>6, PushStores
<1> HIDE DEF s1
<1>10. s2.SP = sp2 /\ Stores(s2, s1, Lo(c.PC))
  BY <1>1, <1>7, <1>8, PushStores DEF sp2
<1> HIDE DEF s2
<1>11. s3.SP = Pushed(sp2) /\ Stores(s3, s2, FromBits(status))
  BY <1>1, <1>7, <1>10, PushStores
<1> HIDE DEF s3
<1>12. /\ read_byte(s3.mem, slot(sp2)) = FromBits(status)
       /\ read_byte(s3.mem, slot(sp1)) = Lo(c.PC)
       /\ read_byte(s3.mem, slot(c.SP)) = Hi(c.PC)
  BY <1>4, <1>5, <1>6, <1>8, <1>9, <1>10, <1>11
<1>13. p1.SP = sp2 /\ p1.mem = s3.mem /\ p1.value = FromBits(status) /\ IsStack(p1)
  BY <1>2, <1>7, <1>11, <1>12, PopReads, PopByteType
<1> HIDE DEF p1
<1>14. p2.SP = sp1 /\ p2.mem = s3.mem /\ p2.value = Lo(c.PC) /\ IsStack(p2)
  BY <1>2, <1>12, <1>13, PopReads, PopByteType DEF sp2
<1> HIDE DEF p2
<1>15. p3.SP = c.SP /\ p3.value = Hi(c.PC) /\ IsStack(p3)
  BY <1>1, <1>12, <1>14, PopReads, PopByteType DEF sp1
<1>16. Bits(p1.value) = status
  BY <1>13, BitsFromBits
<1>17. MkWord(p2.value, p3.value) = c.PC
  BY <1>1, <1>14, <1>15, HalvesMakeWord
<1>18. stack_pop_word(p1).value = c.PC /\ stack_pop_word(p1).SP = c.SP
  BY <1>15, <1>17 DEF stack_pop_word, p2, IsStack
<1>19. p1 = stack_pop_byte(SavedFrame(c, m, status))
  BY DEF p1, s3, s2, s1, s0, SavedFrame, stack_push_word
<1> QED
  BY <1>16, <1>18, <1>19
=============================================================================
