------------------------------- MODULE HartIsa ------------------------------
(***************************************************************************)
(* The steps of module Hart against the instruction set of module Isa, and *)
(* the list of the instructions that the two disagree on.                  *)
(***************************************************************************)
EXTENDS Hart

ISA == INSTANCE Isa

(* Operations of rv64imafdc that no function of the emulator carries out.  *)
Missing == {"sll", "slt", "sra", "rem", "mulhu", "fld", "c.fld", "mulw", "srlw",
            "amoxor.w", "amoadd.d", "fsgnj.d", "csrrsi", "ebreak"}

(* Operations carried out as another one: c.subw as c.sub, c.xor as        *)
(* c.addw, and fmv.w.x without the ones above the word.                    *)
Mistaken == {"c.subw", "c.xor", "fmv.w.x"}

(* Operations that write x0 or, of c.mv and c.add, never leave x0.         *)
ZeroUnchecked == {"sllw", "fmv.x.w", "fmv.x.d", "c.ldsp", "c.mv", "c.add"}

(* The reserved c.addiw of x0, taken for c.jal, and c.ebreak, taken for    *)
(* c.jalr: both write ra, which neither names.                             *)
Links(i) ==
  \/ i.op = "c.addiw" /\ i.rd = 0
  \/ i.op = "c.jalr" /\ i.rs1 = 0

Negative(x, bits) == SignExt(x, bits) < 0
SignsDiffer(i) == Negative(gpr[i.rs1], Dword) # Negative(gpr[i.rs2], Dword)
Fits(x, bits) == SignExt(x, bits) = x
Differs(imm, bits) == SignExt(imm, bits) # SignExt(imm, bits - 1)

(* Where the emulator leaves the instruction set, given the state before.  *)
Excepted(i) ==
  \/ i.op \in Missing \cup Mistaken
  \/ i.op \in ZeroUnchecked /\ i.rd = 0
  \/ Links(i)
  \/ i.op \in {"lw", "c.lwsp", "amoswap.w"} /\ i.rd # 0 /\ Negative(ISA!Value(ISA!Expand(i)), Word)
  \/ i.op \in {"amoswap.w", "amoadd.w"} /\ gpr[i.rs1] % 4 # 0
  \/ i.op = "c.addiw" /\ ~Fits(S(i.rd) + CImm(i), Word)
  \/ i.op = "mul" /\ i.rd # 0 /\ U(S(i.rs1) * S(i.rs2), Dword) >= 2^Word
  \/ i.op = "div" /\ i.rs2 = 0
  \/ i.op = "bge" /\ SignsDiffer(i)
  \/ i.op = "blt" /\ S(i.rs1) < S(i.rs2) /\ Differs(i.imm, BranchBits)
  \/ i.op = "jal" /\ Differs(i.imm, JumpBits)
  \/ i.op = "c.jr" /\ (i.rs1 = 0 \/ gpr[i.rs1] % 2 = 1)
  \/ i.op = "c.jalr" /\ i.rs1 = 1
  \/ i.op = "c.addi4spn" /\ i.imm = 0      \* reserved, or the word of zeros
  \/ i.op \in {"csrrs", "csrrc"} /\ i.rd = i.rs1 /\ i.rd # 0
-----------------------------------------------------------------------------
(* Registers, memory and pc keep their widths. *)
HartTypeOK ==
  /\ \A r \in DOMAIN gpr : gpr[r] \in Field(Dword)
  /\ \A r \in DOMAIN fgpr : fgpr[r] \in Field(Dword)
  /\ \A a \in DOMAIN mem : mem[a] \in Field(Byte)
  /\ csr \in Field(Dword) /\ pc \in Field(Dword)
  /\ status \in {"runs", "halted", "stopped", "crashed"}
  /\ steps \in 0 .. MaxSteps

(* Every instruction outside the list above does to all of the state what  *)
(* the instruction set says, and the hart goes on (decode.c, all of        *)
(* instructions.c).                                                        *)
KeepsToIsa ==
  [][steps' # steps /\ ~Excepted(ir') => ISA!Executes(ir') /\ status' = "runs"]_hartVars

(* Even an instruction on the list changes no register but its             *)
(* destination and no byte of memory that it does not address, x0 and the  *)
(* ra of the two instructions of Links apart (all of instructions.c).      *)
EffectsConfined ==
  [][steps' # steps =>
       LET b == ISA!Expand(ir')
           a == IF b.op \in DOMAIN ISA!SizeOf THEN ISA!At(b) ELSE gpr[b.rs1]
           n == IF b.op \in ISA!Storing THEN ISA!SizeOf[b.op]
                ELSE IF b.op \in {"amoswap.w", "amoadd.w"} THEN 4 ELSE 0
       IN /\ \A r \in DOMAIN gpr \ {0, ISA!Dest(b)} : gpr'[r] = gpr[r] \/ (r = 1 /\ Links(ir'))
          /\ gpr'[0] # gpr[0] => ir'.rd = 0 /\ ir'.op \in ZeroUnchecked \cup {"div"}
          /\ \A x \in DOMAIN mem \ (a .. a + n - 1) : mem'[x] = mem[x]]_hartVars
=============================================================================
