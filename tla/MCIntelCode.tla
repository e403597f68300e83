------------------------------ MODULE MCIntelCode ------------------------------
(***************************************************************************)
(* Instances of IntelCode: every instruction with several operands, and    *)
(* traces that compare, do something and ask how the comparison went.      *)
(***************************************************************************)
EXTENDS IntelCode

-----------------------------------------------------------------------------
\* Operands.

Plain == [type |-> "", location |-> Nowhere, base |-> Nowhere, index |-> Nowhere, scale |-> 0,
          offset |-> CHAR_BIT, value |-> 0, size |-> Word]

Reg(l) == [Plain EXCEPT !.type = "REG", !.location = l, !.size = l.size]
Imm(v, n) == [Plain EXCEPT !.type = "IMM", !.value = v, !.size = n]
Mem(l, v) == [Plain EXCEPT !.type = "MEM", !.base = l, !.value = v]
MemByte(l, v) == [Mem(l, v) EXCEPT !.size = CHAR_BIT]
Indexed(l, i, s, v) == [Mem(l, v) EXCEPT !.index = i, !.scale = s]
Target(a) == [Plain EXCEPT !.type = "JIMM", !.value = a]

-----------------------------------------------------------------------------
\* Instructions.

Instruction(m, operands) == [NoInstruction EXCEPT !.mnemonic = m, !.operands = operands]
Conditional_(m, condition, operands) == [Instruction(m, operands) EXCEPT !.condition = condition]

\* The last displacement is -1.
Pairs ==
  {<<Reg(ax), Reg(bx)>>, <<Reg(ax), Reg(ax)>>, <<Reg(al), Reg(ah)>>, <<Reg(bx), Imm(2, CHAR_BIT)>>,
   <<Reg(ax), Imm(8, Word)>>, <<Reg(bx), Mem(bx, 0)>>, <<MemByte(bx, 1), Reg(al)>>,
   <<Mem(sp, 3), Reg(cx)>>}
Singles == {<<Reg(ax)>>, <<Reg(ah)>>, <<Mem(bx, 1)>>}
Words == {<<Reg(bx)>>, <<Mem(sp, 1)>>, <<Mem(bx, 0)>>, <<Reg(sp)>>}

Some(mnemonics, operands) == {Instruction(m, o) : m \in mnemonics, o \in operands}

Calculating ==
  Some({"ADC", "ADD", "CMP", "SUB", "SBB", "AND", "OR", "XOR", "TEST"}, Pairs)
    \cup Some({"INC", "DEC", "NEG", "NOT"}, Singles)
    \cup Some({"SHL", "SHR", "SAR"}, Singles \cup {<<Reg(ax), Reg(cl)>>, <<Mem(bx, 1), Imm(2, CHAR_BIT)>>})
    \cup Some({"BT"}, {<<Reg(ax), Reg(bx)>>, <<Reg(ax), Imm(1, CHAR_BIT)>>})
    \cup Some({"MUL", "IMUL"}, Singles \cup {<<Reg(dx)>>})
    \cup Some({"IMUL"}, {<<Reg(ax), Mem(bx, 3)>>, <<Reg(ax), Reg(bx), Imm(3, CHAR_BIT)>>})
    \cup Some({"DIV", "IDIV"}, Singles \cup {<<Reg(dx)>>, <<Reg(bx)>>})

Moving ==
  Some({"MOV"}, Pairs \cup {<<Reg(bp), Reg(sp)>>})
    \cup Some({"MOVSX", "MOVZX"}, {<<Reg(ax), Reg(ah)>>, <<Reg(bx), MemByte(bx, 2)>>})
    \cup Some({"LEA"}, {<<Reg(ax), Mem(bx, 3)>>, <<Reg(bx), Indexed(bx, si, 2, 1)>>, <<Reg(al), Indexed(bx, si, 1, 0)>>})
    \cup Some({"XCHG"}, {<<Reg(ax), Reg(bx)>>, <<Mem(bx, 1), Reg(bx)>>, <<Reg(al), Reg(ah)>>})
    \cup Some({"CMPXCHG"}, {<<Mem(bx, 0), Reg(cx)>>})
    \cup Some({"PUSH", "POP", "CALL", "JMP"}, Words)
    \cup Some({"PUSH"}, {<<Imm(2, CHAR_BIT)>>, <<Imm(9, Word)>>})
    \cup Some({"CBW", "CLD", "STD", "NOP", "LEAVE", "PUSHFW", "POPFW", "INLINE", "RET"}, {<<>>})
    \cup Some({"RET"}, {<<Imm(4, Word)>>})
    \cup Some({"CALL", "JMP", "JCXZ", "LOOP", "LOOPE", "LOOPNE"}, {<<Target(9)>>})

Choosing ==
  UNION {{Conditional_("JCC", c, <<Target(9)>>), Conditional_("SETCC", c, <<MemByte(bx, 1)>>),
          Conditional_("CMOVCC", c, <<Reg(ax), Mem(bx, 1)>>)} : c \in DOMAIN Conditions}

Stringing ==
  {[Instruction(m, <<>>) EXCEPT !.size = n, !.prefixes = p] :
     m \in {"MOVS", "STOS"}, n \in {CHAR_BIT, Word}, p \in {{}, {"REP", "REPZ"}}}
    \cup
  {[Instruction(m, <<>>) EXCEPT !.size = n, !.prefixes = p] :
     m \in {"CMPS", "SCAS"}, n \in {CHAR_BIT, Word}, p \in {{}, {"REP", "REPZ"}, {"REPNZ"}}}

\* Traces: an instruction; one that takes a direction from another; and
\* a comparison, something in between, and a use of the comparison.
Comparing ==
  Some({"CMP", "SUB", "SBB"}, {<<Reg(ax), Reg(bx)>>, <<Reg(ax), Imm(2, CHAR_BIT)>>}) \cup Some({"TEST"}, {<<Reg(ax), Reg(bx)>>})
Between ==
  Some({"MOV"}, {<<Reg(ax), Reg(bx)>>}) \cup Some({"INC", "NEG", "SHL", "MUL"}, {<<Reg(cx)>>})
    \cup Some({"ADD"}, {<<Reg(cx), Reg(bx)>>})
Using == {Conditional_("JCC", c, <<Target(9)>>) :
            c \in {"A", "AE", "B", "BE", "G", "GE", "L", "LE", "E", "S"}}

MCTraces ==
  {<<i>> : i \in Calculating \cup Moving \cup Choosing \cup Stringing}
    \cup {<<Instruction("STD", <<>>), i>> : i \in Stringing}
    \cup {<<i, j, k>> : i \in Comparing, j \in Between, k \in Using}

-----------------------------------------------------------------------------
\* Machines: AX, BX and CX vary, and the flags with them.

WithRegisters(m, new) == FoldSet(LAMBDA l, n : Set(n, l, new[l]), m, DOMAIN new)

Machine(a, b, c) ==
  LET empty == EmptyMachine([k \in 0 .. RegisterBits - 1 |-> 0])
      filled == [empty EXCEPT !.memory = [k \in Addresses |-> (k * 3 + k \div 4 + 1) % 2^CHAR_BIT]]
  IN  WithRegisters(filled,
        (ax :> a) @@ (bx :> b) @@ (cx :> c) @@ (sp :> 12) @@ (bp :> 10) @@ (si :> 3) @@ (di :> 5)
          @@ (dx :> IF c = 0 THEN 0 ELSE 15 * Bit(a, 3))
          @@ (ip :> NextAddress)
          @@ (FlagLocations["cf"] :> c % 2) @@ (FlagLocations["zf"] :> Bit(a, 0))
          @@ (FlagLocations["sf"] :> Bit(b, 0)) @@ (FlagLocations["of"] :> Bit(a, 1)))

MCMachines == {Machine(a, b, c) : a \in {0, 2, 7, 9, 15}, b \in {1, 8, 14}, c \in {0, 1, 2}}
=============================================================================
