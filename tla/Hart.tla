-------------------------------- MODULE Hart --------------------------------
(***************************************************************************)
(* Instruction execution: the dispatch tables of decode.c and the exec_    *)
(* functions of instructions.c, one instruction a step, on the registers   *)
(* of both files, one CSR and a RAM. Address translation is Mmu and        *)
(* Access, traps are Trap, WFI and the waiting loop are CpuLoop.           *)
(*                                                                         *)
(* An instruction is a record of its operation, register fields and        *)
(* immediate. The immediate is the unsigned bit field the function puts    *)
(* together; the constants say how many bits it has.                       *)
(***************************************************************************)
EXTENDS Words

CONSTANTS Regs,        \* the registers of both files
          Ram,         \* the addresses of this model's memory
          Program,     \* the instructions the guest may execute
          Starts,      \* the registers, memory and pc it may start from
          MaxSteps,    \* instructions in a run
          ImmBits,     \* 12: the I and S formats
          BranchBits,  \* 13
          JumpBits,    \* 21
          CImmBits,    \* 6: the compressed formats
          CJumpBits,   \* 12: c.j
          CBranchBits, \* 9: c.beqz and c.bnez
          SpScale      \* 16: the unit of c.addi16sp

(* The numbers of so many bits. *)
Field(bits) == 0 .. 2^bits - 1

(* The shift amounts and immediates fit the fields they are taken from.    *)
Encodable(i) ==
  /\ i \in [op : STRING, rd : Regs, rs1 : Regs, rs2 : Regs, imm : Field(Dword)]
  /\ i.op \in {"slliw", "srliw", "sraiw"} => i.imm \in Field(Word)
  /\ i.op \in {"c.slli", "c.srli", "c.srai"} => i.imm < Dword

ASSUME HartConstants ==
  /\ {0, 1, 2} \subseteq Regs /\ Regs \subseteq Nat
  /\ Ram \subseteq Nat /\ \A a, b \in Ram : a .. b \subseteq Ram
  /\ MaxSteps \in Nat
  /\ {ImmBits, BranchBits, JumpBits, CImmBits, CJumpBits, CBranchBits} \subseteq Nat \ {0, 1}
  /\ SpScale \in Nat
  /\ \A i \in Program : Encodable(i)
  /\ Starts \subseteq [gpr : [Regs -> Field(Dword)], fgpr : [Regs -> Field(Dword)], csr : Field(Dword),
                      mem : [Ram -> Field(Byte)], pc : Field(Dword)]

VARIABLES gpr, fgpr, csr, mem, pc,
          status,      \* "runs", "halted", "stopped" (running is false) or
                       \* "crashed" (a null handler was called)
          ir,          \* the instruction executed last
          steps

state == <<gpr, fgpr, csr, mem, pc>>
hartVars == <<gpr, fgpr, csr, mem, pc, status, ir, steps>>

Nop == [op |-> "nop", rd |-> 0, rs1 |-> 0, rs2 |-> 0, imm |-> 0]

(* The registers as int64_t, and their low words as int32_t and uint32_t.  *)
S(r) == SignExt(gpr[r], Dword)
Sw(r) == SignExt(gpr[r], Word)
Uw(r) == U(gpr[r], Word)

(* The ways a function ends. Write is the test for x0 and the store;       *)
(* Writes has no such test.                                                *)
Writes(rd, v) == gpr' = [gpr EXCEPT ![rd] = U(v, Dword)]
Write(rd, v) == IF rd = 0 THEN UNCHANGED gpr ELSE Writes(rd, v)
Goes(target) == pc' = U(target, Dword)
Skips(n) == Goes(pc + n)
Gives(rd, v) == Write(rd, v) /\ Skips(4) /\ UNCHANGED <<fgpr, csr, mem, status>>
CGives(rd, v) == Write(rd, v) /\ Skips(2) /\ UNCHANGED <<fgpr, csr, mem, status>>
Jumps(target) == Goes(target) /\ UNCHANGED <<gpr, fgpr, csr, mem, status>>
-----------------------------------------------------------------------------
(* Loads and stores, inside the RAM of this model only. *)
InRam(a, n) == a \in DOMAIN mem /\ a + n - 1 \in DOMAIN mem
Address(r, offset) == U(gpr[r] + offset, Dword)

Loads(rd, a, n, Extends(_), len) ==
  /\ InRam(a, n)
  /\ Write(rd, Extends(Gather(mem, a, n))) /\ Skips(len)
  /\ UNCHANGED <<fgpr, csr, mem, status>>
Stores(a, n, v, len) ==
  /\ InRam(a, n)
  /\ mem' = Scatter(mem, a, n, v) /\ Skips(len)
  /\ UNCHANGED <<gpr, fgpr, csr, status>>

AsByte(x) == SignExt(x, Byte)
AsHalf(x) == SignExt(x, Half)
AsWord(x) == SignExt(x, Word)
AsIs(x) == x

exec_load(i) ==
  LET a == Address(i.rs1, SignExt(i.imm, ImmBits))
  IN \/ i.op = "lb"  /\ Loads(i.rd, a, 1, AsByte, 4)
     \/ i.op = "lh"  /\ Loads(i.rd, a, 2, AsHalf, 4)
     \/ i.op = "lw"  /\ Loads(i.rd, a, 4, AsIs, 4)      \* (uint32_t)
     \/ i.op = "ld"  /\ Loads(i.rd, a, 8, AsIs, 4)
     \/ i.op = "lbu" /\ Loads(i.rd, a, 1, AsIs, 4)
     \/ i.op = "lhu" /\ Loads(i.rd, a, 2, AsIs, 4)
     \/ i.op = "lwu" /\ Loads(i.rd, a, 4, AsIs, 4)

\* Mutant: sh stores a word.
StoreSize_HalfAsWord == [sb |-> 1, sh |-> 4, sw |-> 4, sd |-> 8]
StoreSize == [sb |-> 1, sh |-> 2, sw |-> 4, sd |-> 8]

exec_store(i) ==
  /\ i.op \in DOMAIN StoreSize
  /\ Stores(Address(i.rs1, SignExt(i.imm, ImmBits)), StoreSize[i.op], gpr[i.rs2], 4)

(* AMOs: the swap tests its alignment and stops without advancing; the add *)
(* does not test. The other operations have no case and change nothing.    *)
exec_amoswap(i) ==
  LET a == gpr[i.rs1]
  IN /\ i.op = "amoswap.w" /\ InRam(a, 4)
     /\ IF a % 4 # 0
        THEN status' = "halted" /\ UNCHANGED state
        ELSE /\ mem' = Scatter(mem, a, 4, gpr[i.rs2])
             /\ Write(i.rd, Gather(mem, a, 4)) /\ Skips(4)
             /\ UNCHANGED <<fgpr, csr, status>>
exec_amoadd(i) ==
  LET a == gpr[i.rs1]
      old == Gather(mem, a, 4)
  IN /\ i.op = "amoadd.w" /\ InRam(a, 4)
     /\ mem' = Scatter(mem, a, 4, gpr[i.rs2] + old)
     /\ Write(i.rd, SignExt(old, Word)) /\ Skips(4)
     /\ UNCHANGED <<fgpr, csr, status>>
-----------------------------------------------------------------------------
(* Register-register and register-immediate operations. *)
exec_add(i)  == i.op = "add"  /\ Gives(i.rd, gpr[i.rs1] + gpr[i.rs2])
exec_sub(i)  == i.op = "sub"  /\ Gives(i.rd, S(i.rs1) - S(i.rs2))
exec_xor(i)  == i.op = "xor"  /\ Gives(i.rd, Xor(gpr[i.rs1], gpr[i.rs2]))
exec_sltu(i) == i.op = "sltu" /\ Gives(i.rd, IF gpr[i.rs1] < gpr[i.rs2] THEN 1 ELSE 0)
exec_srl(i)  == i.op = "srl"  /\ Gives(i.rd, gpr[i.rs1] \div 2^(gpr[i.rs2] % Dword))
exec_mul(i)  == i.op = "mul"  /\ Gives(i.rd, U(gpr[i.rs1] * gpr[i.rs2], Word))

(* and and or also reset x0. *)
ResetsZero(rd, v) ==
  /\ gpr' = [(IF rd = 0 THEN gpr ELSE [gpr EXCEPT ![rd] = v]) EXCEPT ![0] = 0]
  /\ Skips(4) /\ UNCHANGED <<fgpr, csr, mem, status>>
exec_and(i) == i.op = "and" /\ ResetsZero(i.rd, And(gpr[i.rs1], gpr[i.rs2]))
exec_or(i)  == i.op = "or"  /\ ResetsZero(i.rd, Or(gpr[i.rs1], gpr[i.rs2]))

Imm(i) == U(SignExt(i.imm, ImmBits), Dword)
exec_addi(i)  == i.op = "addi"  /\ Gives(i.rd, gpr[i.rs1] + Imm(i))
exec_xori(i)  == i.op = "xori"  /\ Gives(i.rd, Xor(gpr[i.rs1], Imm(i)))
exec_ori(i)   == i.op = "ori"   /\ Gives(i.rd, Or(gpr[i.rs1], Imm(i)))
exec_andi(i)  == i.op = "andi"  /\ Gives(i.rd, And(gpr[i.rs1], Imm(i)))
exec_slti(i)  == i.op = "slti"  /\ Gives(i.rd, IF S(i.rs1) < SignExt(i.imm, ImmBits) THEN 1 ELSE 0)
exec_sltiu(i) == i.op = "sltiu" /\ Gives(i.rd, IF gpr[i.rs1] < Imm(i) THEN 1 ELSE 0)
exec_slli(i)  == i.op = "slli"  /\ Gives(i.rd, gpr[i.rs1] * 2^(i.imm % Dword))
exec_si(i) ==
  \/ i.op = "srli" /\ Gives(i.rd, gpr[i.rs1] \div 2^(i.imm % Dword))
  \/ i.op = "srai" /\ Gives(i.rd, S(i.rs1) \div 2^(i.imm % Dword))
exec_lui(i)   == i.op = "lui"   /\ Gives(i.rd, SignExt(i.imm, Word))
exec_auipc(i) == i.op = "auipc" /\ Gives(i.rd, pc + SignExt(i.imm, Word))

(* The word operations of exec_iw and exec_3b: 32-bit results, extended. *)
exec_iw(i) ==
  LET shamt == i.imm % Word
  IN \/ i.op = "addiw" /\ Gives(i.rd, SignExt(Sw(i.rs1) + SignExt(i.imm, ImmBits), Word))
     \/ i.op = "slliw" /\ Gives(i.rd, SignExt(Sw(i.rs1) * 2^shamt, Word))
     \/ i.op = "srliw" /\ Gives(i.rd, SignExt(Uw(i.rs1) \div 2^shamt, Word))
     \/ i.op = "sraiw" /\ Gives(i.rd, Sw(i.rs1) \div 2^shamt)
exec_3b(i) ==
  \/ i.op = "sllw" /\ Writes(i.rd, SignExt(Uw(i.rs1) * 2^(gpr[i.rs2] % Word), Word))
                   /\ Skips(4) /\ UNCHANGED <<fgpr, csr, mem, status>>
  \/ i.op = "remuw" /\ Gives(i.rd, SignExt(IF Uw(i.rs2) = 0 THEN Uw(i.rs1) ELSE Uw(i.rs1) % Uw(i.rs2), Word))
  \/ i.op = "divuw" /\ Gives(i.rd, SignExt(IF Uw(i.rs2) = 0 THEN -1 ELSE Uw(i.rs1) \div Uw(i.rs2), Word))
  \/ i.op = "addw"  /\ Gives(i.rd, SignExt(Sw(i.rs1) + Sw(i.rs2), Word))
  \/ i.op = "subw"  /\ Gives(i.rd, SignExt(Sw(i.rs1) - Sw(i.rs2), Word))

(* C division truncates. A zero rs2 FIELD is taken for a move, which the   *)
(* store of result then overwrites unless rd is x0.                        *)
Quotient(a, b) ==
  LET Abs(x) == IF x < 0 THEN -x ELSE x
  IN IF (a < 0) = (b < 0) THEN Abs(a) \div Abs(b) ELSE -(Abs(a) \div Abs(b))
exec_div(i) ==
  LET result == IF i.rs2 = 0 THEN 0
                ELSE IF S(i.rs2) = 0 THEN -1
                ELSE Quotient(S(i.rs1), S(i.rs2))
  IN /\ i.op = "div"
     /\ IF i.rd = 0 /\ i.rs2 = 0 THEN Writes(0, gpr[i.rs1]) ELSE Write(i.rd, result)
     /\ Skips(4) /\ UNCHANGED <<fgpr, csr, mem, status>>
exec_divu(i) ==
  /\ i.op = "divu"
  /\ Gives(i.rd, IF gpr[i.rs2] = 0 THEN -1 ELSE gpr[i.rs1] \div gpr[i.rs2])
exec_remu(i) ==
  /\ i.op = "remu"
  /\ Gives(i.rd, IF gpr[i.rs2] = 0 THEN gpr[i.rs1] ELSE gpr[i.rs1] % gpr[i.rs2])
-----------------------------------------------------------------------------
(* Jumps and branches. jal extends its 21-bit offset from bit 19, and blt  *)
(* its 13-bit one from bit 11; bge compares the registers as uint64_t.     *)
Even(x) == x - (x % 2)
exec_jal(i) ==
  /\ i.op = "jal"
  /\ Write(i.rd, pc + 4) /\ Goes(pc + SignExt(i.imm, JumpBits - 1))
  /\ UNCHANGED <<fgpr, csr, mem, status>>
\* Mutant: rd is written before rs1 is read.
exec_jalr_LinksFirst(i) ==
  LET linked == IF i.rd = 0 THEN gpr ELSE [gpr EXCEPT ![i.rd] = U(pc + 4, Dword)]
  IN /\ i.op = "jalr"
     /\ gpr' = linked /\ Goes(Even(linked[i.rs1] + SignExt(i.imm, ImmBits)))
     /\ UNCHANGED <<fgpr, csr, mem, status>>
exec_jalr(i) ==
  LET addr == gpr[i.rs1] + SignExt(i.imm, ImmBits)
  IN /\ i.op = "jalr"
     /\ Write(i.rd, pc + 4) /\ Goes(Even(addr))
     /\ UNCHANGED <<fgpr, csr, mem, status>>

Branches(i, taken, bits) == Jumps(pc + (IF taken THEN SignExt(i.imm, bits) ELSE 4))
exec_beq(i)  == i.op = "beq"  /\ Branches(i, gpr[i.rs1] = gpr[i.rs2], BranchBits)
exec_bne(i)  == i.op = "bne"  /\ Branches(i, gpr[i.rs1] # gpr[i.rs2], BranchBits)
exec_blt(i)  == i.op = "blt"  /\ Branches(i, S(i.rs1) < S(i.rs2), BranchBits - 1)
exec_bltu(i) == i.op = "bltu" /\ Branches(i, gpr[i.rs1] < gpr[i.rs2], BranchBits)
exec_bge(i)  == i.op = "bge"  /\ Branches(i, gpr[i.rs1] >= gpr[i.rs2], BranchBits)
exec_bgeu(i) == i.op = "bgeu" /\ Branches(i, gpr[i.rs1] >= gpr[i.rs2], BranchBits)
-----------------------------------------------------------------------------
(* CSR operations. csrrs and csrrc write rd before they read rs1 again.    *)
Clears(x, mask) == x - And(x, mask)
Reads(i) == IF i.rd = 0 THEN gpr ELSE [gpr EXCEPT ![i.rd] = csr]
exec_csr(i) ==
  /\ \/ i.op = "csrrw"  /\ csr' = gpr[i.rs1]
     \/ i.op = "csrrs"  /\ csr' = IF i.rs1 = 0 THEN csr ELSE Or(csr, Reads(i)[i.rs1])
     \/ i.op = "csrrc"  /\ csr' = Clears(csr, Reads(i)[i.rs1])
     \/ i.op = "csrrwi" /\ csr' = i.imm
     \/ i.op = "csrrci" /\ csr' = Clears(csr, i.imm)
  /\ gpr' = Reads(i) /\ Skips(4) /\ UNCHANGED <<fgpr, mem, status>>

(* csrrsi has no case: only the program counter moves. *)
exec_csr_none(i) == i.op = "csrrsi" /\ Jumps(pc + 4)

(* The four moves between register files, none of which tests for x0; any  *)
(* other operation of the opcode only moves the program counter.           *)
\* Mutant: fmv.w.x extends the sign.
exec_float_Signed(i) ==
  /\ \/ i.op = "fmv.x.w" /\ Writes(i.rd, SignExt(fgpr[i.rs1], Word)) /\ UNCHANGED fgpr
     \/ i.op = "fmv.x.d" /\ Writes(i.rd, fgpr[i.rs1]) /\ UNCHANGED fgpr
     \/ i.op = "fmv.w.x" /\ fgpr' = [fgpr EXCEPT ![i.rd] = Sw(i.rs1)] /\ UNCHANGED gpr
     \/ i.op = "fmv.d.x" /\ fgpr' = [fgpr EXCEPT ![i.rd] = gpr[i.rs1]] /\ UNCHANGED gpr
     \/ i.op = "fsgnj.d" /\ UNCHANGED <<gpr, fgpr>>
  /\ Skips(4) /\ UNCHANGED <<csr, mem, status>>
exec_float(i) ==
  /\ \/ i.op = "fmv.x.w" /\ Writes(i.rd, SignExt(fgpr[i.rs1], Word)) /\ UNCHANGED fgpr
     \/ i.op = "fmv.x.d" /\ Writes(i.rd, fgpr[i.rs1]) /\ UNCHANGED fgpr
     \/ i.op = "fmv.w.x" /\ fgpr' = [fgpr EXCEPT ![i.rd] = Uw(i.rs1)] /\ UNCHANGED gpr
     \/ i.op = "fmv.d.x" /\ fgpr' = [fgpr EXCEPT ![i.rd] = gpr[i.rs1]] /\ UNCHANGED gpr
     \/ i.op = "fsgnj.d" /\ UNCHANGED <<gpr, fgpr>>
  /\ Skips(4) /\ UNCHANGED <<csr, mem, status>>

exec_fence(i) == i.op = "fence" /\ Jumps(pc + 4)

exec_ebreak(i) == i.op = "ebreak" /\ status' = "halted" /\ UNCHANGED state
-----------------------------------------------------------------------------
(* The compressed quadrants. A primed register field is 8 or 9 here. *)
CImm(i) == SignExt(i.imm, CImmBits)

exec_c0(i) ==
  LET a == Address(i.rs1, i.imm)
  IN \/ i.op = "c.addi4spn" /\ CGives(i.rd, IF i.imm = 0 THEN gpr[i.rd] ELSE gpr[2] + i.imm)
     \/ i.op = "c.lw" /\ Loads(i.rd, a, 4, AsWord, 2)
     \/ i.op = "c.ld" /\ Loads(i.rd, a, 8, AsIs, 2)
     \/ i.op = "c.sw" /\ Stores(a, 4, gpr[i.rs2], 2)
     \/ i.op = "c.sd" /\ Stores(a, 8, gpr[i.rs2], 2)

(* c.addiw adds in 64 bits and leaves the sum as it is. To x0 it is taken  *)
(* for the c.jal of RV32: ra is written, and imm is then the offset that   *)
(* branch puts together. The last three operations are told apart by two   *)
(* bits only: bit 12, which selects c.subw and c.addw in place of c.sub    *)
(* and c.xor, is not looked at.                                            *)
exec_c1(i) ==
  \/ i.op = "c.addi" /\ CGives(i.rd, gpr[i.rd] + CImm(i))
  \/ i.op = "c.addiw" /\ i.rd # 0 /\ CGives(i.rd, gpr[i.rd] + CImm(i))
  \/ /\ i.op = "c.addiw" /\ i.rd = 0
     /\ Writes(1, pc + 2) /\ Goes(pc + SignExt(i.imm, CJumpBits))
     /\ UNCHANGED <<fgpr, csr, mem, status>>
  \/ i.op = "c.li"  /\ CGives(i.rd, CImm(i))
  \/ i.op = "c.lui" /\ CGives(i.rd, CImm(i) * 2^ImmBits)
  \/ i.op = "c.addi16sp" /\ CGives(2, gpr[2] + CImm(i) * SpScale)
  \/ i.op = "c.srli" /\ CGives(i.rd, gpr[i.rd] \div 2^i.imm)
  \/ i.op = "c.srai" /\ CGives(i.rd, S(i.rd) \div 2^i.imm)
  \/ i.op = "c.andi" /\ CGives(i.rd, And(gpr[i.rd], U(CImm(i), Dword)))
  \/ i.op = "c.and"  /\ CGives(i.rd, And(gpr[i.rd], gpr[i.rs2]))
  \/ i.op = "c.or"   /\ CGives(i.rd, Or(gpr[i.rd], gpr[i.rs2]))
  \/ i.op \in {"c.sub", "c.subw"} /\ CGives(i.rd, gpr[i.rd] - gpr[i.rs2])
  \/ i.op \in {"c.addw", "c.xor"} /\ CGives(i.rd, SignExt(Sw(i.rd) + Sw(i.rs2), Word))
  \/ i.op = "c.j" /\ Jumps(pc + SignExt(i.imm, CJumpBits))
  \/ i.op = "c.beqz" /\ Jumps(pc + (IF gpr[i.rs1] = 0 THEN SignExt(i.imm, CBranchBits) ELSE 2))
  \/ i.op = "c.bnez" /\ Jumps(pc + (IF gpr[i.rs1] # 0 THEN SignExt(i.imm, CBranchBits) ELSE 2))

(* The second quadrant. c.jalr writes ra before it reads its target; with  *)
(* a zero rs1 field c.jr does nothing and c.jalr, which is then c.ebreak,  *)
(* only writes ra; c.mv and c.add to x0 do nothing, the pc included.       *)
exec_c2(i) ==
  LET a == Address(2, i.imm)
      linked == [gpr EXCEPT ![1] = U(pc + 2, Dword)]
  IN \/ i.op = "c.slli" /\ CGives(i.rd, gpr[i.rd] * 2^i.imm)
     \/ i.op = "c.lwsp" /\ Loads(i.rd, a, 4, AsIs, 2)
     \/ i.op = "c.ldsp" /\ InRam(a, 8) /\ Writes(i.rd, Gather(mem, a, 8)) /\ Skips(2)
                        /\ UNCHANGED <<fgpr, csr, mem, status>>
     \/ i.op = "c.swsp" /\ Stores(a, 4, gpr[i.rs2], 2)
     \/ i.op = "c.sdsp" /\ Stores(a, 8, gpr[i.rs2], 2)
     \/ i.op = "c.jr"   /\ Jumps(IF i.rs1 = 0 THEN pc ELSE gpr[i.rs1])
     \/ /\ i.op = "c.jalr"
        /\ gpr' = linked
        /\ Goes(IF i.rs1 = 0 THEN pc ELSE Even(linked[i.rs1]))
        /\ UNCHANGED <<fgpr, csr, mem, status>>
     \/ i.op \in {"c.mv", "c.add"} /\ i.rd = 0 /\ Jumps(pc)
     \/ i.op = "c.mv"  /\ i.rd # 0 /\ CGives(i.rd, gpr[i.rs2])
     \/ i.op = "c.add" /\ i.rd # 0 /\ CGives(i.rd, gpr[i.rd] + gpr[i.rs2])
-----------------------------------------------------------------------------
(* What dispatch does with an operation no function implements: a function *)
(* without a case for it returns and leaves the pc where it is, an opcode  *)
(* without a function clears running, and the tables of handle_r_type are  *)
(* called without a test for a null entry.                                 *)
NoCase(i) == i.op \in {"c.fld", "mulw", "srlw", "amoxor.w", "amoadd.d"} /\ Jumps(pc)
NoOpcode(i) == i.op = "fld" /\ status' = "stopped" /\ UNCHANGED state
NoHandler(i) == i.op \in {"sll", "slt", "sra", "rem", "mulhu"}
                /\ status' = "crashed" /\ UNCHANGED state

handle_r_type(i) ==
  \/ exec_add(i) \/ exec_or(i) \/ exec_and(i) \/ exec_sub(i) \/ exec_mul(i) \/ exec_sltu(i)
  \/ exec_xor(i) \/ exec_div(i) \/ exec_srl(i) \/ exec_remu(i) \/ exec_divu(i) \/ NoHandler(i)
handle_i_imm_type(i) ==
  \/ exec_addi(i) \/ exec_slli(i) \/ exec_slti(i) \/ exec_sltiu(i)
  \/ exec_si(i) \/ exec_ori(i) \/ exec_andi(i) \/ exec_xori(i)
hande_b_type(i) ==
  exec_beq(i) \/ exec_bne(i) \/ exec_bltu(i) \/ exec_bge(i) \/ exec_blt(i) \/ exec_bgeu(i)
handle_opcode(i) ==
  \/ exec_load(i) \/ handle_i_imm_type(i) \/ exec_iw(i) \/ exec_auipc(i) \/ exec_store(i)
  \/ handle_r_type(i) \/ exec_3b(i) \/ exec_csr(i) \/ exec_csr_none(i) \/ exec_ebreak(i)
  \/ exec_lui(i) \/ exec_jal(i) \/ exec_jalr(i) \/ hande_b_type(i)
  \/ exec_c0(i) \/ exec_c1(i) \/ exec_c2(i) \/ exec_amoswap(i) \/ exec_amoadd(i)
  \/ exec_fence(i) \/ exec_float(i) \/ NoCase(i) \/ NoOpcode(i)

(* The word of zeros is the c.addi4spn of register 8 by nothing; it clears *)
(* running and leaves the pc.                                              *)
ZeroWord(i) == i.op = "c.addi4spn" /\ i.rd = 8 /\ i.imm = 0
decode_and_execute(i) ==
  \/ ZeroWord(i) /\ status' = "stopped" /\ UNCHANGED state
  \/ ~ZeroWord(i) /\ handle_opcode(i)
-----------------------------------------------------------------------------
HartInit ==
  /\ \E s \in Starts : gpr = s.gpr /\ fgpr = s.fgpr /\ csr = s.csr /\ mem = s.mem /\ pc = s.pc
  /\ status = "runs" /\ ir = Nop /\ steps = 0

(* main's loop: an instruction of a hart that runs, then the test that     *)
(* halts it when x0 no longer reads as zero.                               *)
Step ==
  /\ status = "runs" /\ gpr[0] = 0 /\ steps < MaxSteps
  /\ \E i \in Program : decode_and_execute(i) /\ ir' = i
  /\ steps' = steps + 1
ZeroCheck ==
  /\ status = "runs" /\ gpr[0] # 0
  /\ status' = "halted" /\ UNCHANGED <<state, ir, steps>>

HartNext == Step \/ ZeroCheck
HartSpec == HartInit /\ [][HartNext]_hartVars
=============================================================================
