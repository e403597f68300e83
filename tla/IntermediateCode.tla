-------------------------- MODULE IntermediateCode --------------------------
(***************************************************************************)
(* What the intermediate representation means: a machine with one register *)
(* file, addressed in bits, and a memory, addressed in bytes.  It also     *)
(* remembers which term wrote each of its cells last, 0 standing for none. *)
(***************************************************************************)
EXTENDS Value, ReachingDefinitions, Sequences

CONSTANTS
  RegisterBits,   \* bits in the register file
  AddressBits,    \* bits in an address
  FrameBase       \* the stack pointer on entry

ASSUME MachineAssumption ==
  /\ RegisterBits \in Nat /\ AddressBits \in Nat
  /\ FrameBase \in 0 .. 2^AddressBits - 1

Addresses == 0 .. 2^AddressBits - 1

\* The first byte of a location in memory, and how many there are.  A
\* location on the stack is relative to the stack pointer on entry.
ByteOf(l) == CASE l.domain = "MEMORY" -> l.addr \div CHAR_BIT
               [] l.domain = "STACK"  -> (FrameBase + l.addr \div CHAR_BIT) % 2^AddressBits

BytesIn(l) == l.size \div CHAR_BIT

\* Byte i of a location in memory, from 0; addresses wrap.
ByteAt(l, i) == (ByteOf(l) + i) % 2^AddressBits

\* The cells of a location: bits of the register file, bytes of memory.
Cells(l) == IF l.domain = "REGISTER" THEN {<<"register", i>> : i \in l.addr .. l.addr + l.size - 1}
                                     ELSE {<<"memory", ByteAt(l, i)>> : i \in 0 .. BytesIn(l) - 1}

\* The location of size bits at an address of memory.
AtAddress(a, size) == [domain |-> "MEMORY", addr |-> a * CHAR_BIT, size |-> size]

EmptyMachine(registers) ==
  [registers |-> registers, memory |-> [a \in Addresses |-> 0],
   writer |-> [c \in Cells([domain |-> "REGISTER", addr |-> 0, size |-> RegisterBits])
                     \cup {<<"memory", a>> : a \in Addresses} |-> 0]]

\* The number that digits to some base make, the lowest first.
NumberAt(digits, base) ==
  LET Lower[k \in 0 .. Len(digits)] ==
        IF k = 0 THEN 0 ELSE Lower[k - 1] + base^(k - 1) * digits[k]
  IN  Lower[Len(digits)]

\* The least byte of a word comes first.
Read(m, l) ==
  IF l.domain = "REGISTER"
    THEN NumberAt([i \in 1 .. l.size |-> m.registers[l.addr + i - 1]], 2)
    ELSE NumberAt([i \in 1 .. BytesIn(l) |-> m.memory[ByteAt(l, i - 1)]], 2^CHAR_BIT)

WrittenBy(m, cells, t) == [c \in DOMAIN m.writer |-> IF c \in cells THEN t ELSE m.writer[c]]

Write(m, l, v, t) ==
  IF l.domain = "REGISTER"
    THEN [m EXCEPT !.writer = WrittenBy(m, Cells(l), t),
                   !.registers = [i \in DOMAIN @ |->
                      IF i \in l.addr .. l.addr + l.size - 1 THEN Bit(v, i - l.addr) ELSE @[i]]]
    ELSE [m EXCEPT !.writer = WrittenBy(m, Cells(l), t),
                   !.memory = [a \in Addresses |->
                      IF \E i \in 0 .. BytesIn(l) - 1 : ByteAt(l, i) = a
                        THEN v \div 2^(CHAR_BIT * ((a - ByteOf(l)) % 2^AddressBits)) % 2^CHAR_BIT
                        ELSE @[a]]]

\* The terms that wrote the cells of a location last.
Writers(m, l) == {m.writer[c] : c \in Cells(l)}
=============================================================================
