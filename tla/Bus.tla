-------------------------------- MODULE Bus --------------------------------
(***************************************************************************)
(* The shared memory bus: address decoding, and byte and word access to    *)
(* the RAM module, the IO chip's registers and the ROM module.             *)
(*                                                                         *)
(* What the three devices store is one partial function from bus addresses *)
(* to bytes, `m' below: the bytes somebody stored since power-on, on top   *)
(* of the value each device's constructor gives its storage (PowerOn).     *)
(*                                                                         *)
(* A word access resolves its address once, so the second byte of a word   *)
(* that begins at the last byte of a device is read past that device's     *)
(* buffer; `Garbage' is the byte found there, and the one found in the IO  *)
(* registers that the constructor leaves uninitialised.                    *)
(***************************************************************************)
EXTENDS Bytes

CONSTANTS
  Attached,    \* the devices attached to the bus
  Garbage      \* per device, the byte a read of uninitialised storage returns

kAddrRAM == \h0000
kAddrIO  == \h4000
kAddrROM == \h4920

kSizeRAM == \h4000
kSizeIO  == \h920
kSizeROM == \hB6E0

Device == {"RAM", "IO", "ROM"}

ASSUME BusAssumption ==
  /\ Attached \subseteq Device
  /\ Garbage \in [Device -> Byte]

mapped_address == [RAM |-> kAddrRAM, IO |-> kAddrIO, ROM |-> kAddrROM]
capacity       == [RAM |-> kSizeRAM, IO |-> kSizeIO, ROM |-> kSizeROM]

resolve_address_to_device(address) ==
  CASE address < kAddrIO   -> "RAM"
    [] address >= kAddrROM -> "ROM"
    [] OTHER               -> "IO"

(***************************************************************************)
(* What the constructors leave in the storage: RAM and ROM are filled with *)
(* 0xFF; the IO chip clears VRAM, sets the control byte and the two colours*)
(* and clears the event, clock and audio registers, but no draw register.  *)
(***************************************************************************)
IOPowerOn(offset) ==
  CASE offset = \h900 -> \h0C
    [] offset = \h902 -> \hFF
    [] OTHER          -> \h00

PowerOn(dev, offset) ==
  CASE dev \in {"RAM", "ROM"} /\ offset < capacity[dev] -> \hFF
    [] dev = "IO" /\ offset <= \h90A                     -> IOPowerOn(offset)
    [] OTHER                                             -> Garbage[dev]

DeviceRead(m, dev, offset) ==
  LET address == mapped_address[dev] + offset
  IN  IF offset < capacity[dev] /\ address \in DOMAIN m
      THEN m[address]
      ELSE PowerOn(dev, offset)

(* A slip: the ROM module stores what is written to it. *)
DeviceWriteRom(m, dev, offset, value) ==
  LET address == mapped_address[dev] + offset
  IN  IF offset >= capacity[dev]
      THEN m
      ELSE [a \in DOMAIN m \cup {address} |-> IF a = address THEN value ELSE m[a]]

(* Writes to ROM are ignored; one past the end of RAM hits no byte that is read. *)
DeviceWrite(m, dev, offset, value) ==
  LET address == mapped_address[dev] + offset
  IN  IF dev = "ROM" \/ offset >= capacity[dev]
      THEN m
      ELSE [a \in DOMAIN m \cup {address} |-> IF a = address THEN value ELSE m[a]]

read_byte(m, address) ==
  LET dev == resolve_address_to_device(address)
  IN  IF dev \in Attached THEN DeviceRead(m, dev, address - mapped_address[dev]) ELSE 0

read_word(m, address) ==
  LET dev    == resolve_address_to_device(address)
      offset == address - mapped_address[dev]
  IN  IF dev \in Attached
      THEN MkWord(DeviceRead(m, dev, offset), DeviceRead(m, dev, offset + 1))
      ELSE 0

write_byte(m, address, value) ==
  LET dev == resolve_address_to_device(address)
  IN  IF dev \in Attached
      THEN DeviceWrite(m, dev, address - mapped_address[dev], value)
      ELSE m

write_word(m, address, value) ==
  LET dev    == resolve_address_to_device(address)
      offset == address - mapped_address[dev]
  IN  IF dev \in Attached
      THEN DeviceWrite(DeviceWrite(m, dev, offset, Lo(value)), dev, offset + 1, Hi(value))
      ELSE m

(* The images a memory may hold: bytes at bus addresses. *)
IsMemory(m) == DOMAIN m \subseteq Word /\ \A a \in DOMAIN m : m[a] \in Byte
=============================================================================
