-------------------------------- MODULE Isa ---------------------------------
(***************************************************************************)
(* What an RV64 instruction does, as the instruction set defines it and    *)
(* not as instructions.c does it: a compressed instruction is the full one *)
(* it abbreviates, registers are signed numbers, and the result of an      *)
(* operation is a number of which a register keeps the low bits. Module    *)
(* HartIsa compares the steps of module Hart with it.                      *)
(***************************************************************************)
EXTENDS Words

CONSTANTS ImmBits, BranchBits, JumpBits,   \* widths of the immediates
          CImmBits, CJumpBits, CBranchBits,
          SpScale

VARIABLES gpr, fgpr, csr, mem, pc

Reg(r) == IF r = 0 THEN 0 ELSE SignExt(gpr[r], Dword)
Unsigned(x) == U(x, Dword)
Low(x) == SignExt(x, Word)

(* The full instruction: signed immediate, and its length in bytes. *)
Expand(i) ==
  LET Full(op, rd, rs1, rs2, imm) ==
        [op |-> op, rd |-> rd, rs1 |-> rs1, rs2 |-> rs2, imm |-> imm, len |-> 2]
      c == SignExt(i.imm, CImmBits)
  IN CASE i.op = "c.addi4spn" -> Full("addi", i.rd, 2, 0, i.imm)
       [] i.op = "c.lw" -> Full("lw", i.rd, i.rs1, 0, i.imm)
       [] i.op = "c.ld" -> Full("ld", i.rd, i.rs1, 0, i.imm)
       [] i.op = "c.sw" -> Full("sw", 0, i.rs1, i.rs2, i.imm)
       [] i.op = "c.sd" -> Full("sd", 0, i.rs1, i.rs2, i.imm)
       [] i.op = "c.addi"  -> Full("addi", i.rd, i.rd, 0, c)
       [] i.op = "c.addiw" -> Full("addiw", i.rd, i.rd, 0, c)
       [] i.op = "c.li"    -> Full("addi", i.rd, 0, 0, c)
       [] i.op = "c.lui"   -> Full("lui", i.rd, 0, 0, c * 2^ImmBits)
       [] i.op = "c.addi16sp" -> Full("addi", 2, 2, 0, c * SpScale)
       [] i.op = "c.srli"  -> Full("srli", i.rd, i.rd, 0, i.imm)
       [] i.op = "c.srai"  -> Full("srai", i.rd, i.rd, 0, i.imm)
       [] i.op = "c.slli"  -> Full("slli", i.rd, i.rd, 0, i.imm)
       [] i.op = "c.andi"  -> Full("andi", i.rd, i.rd, 0, c)
       [] i.op = "c.and"   -> Full("and", i.rd, i.rd, i.rs2, 0)
       [] i.op = "c.or"    -> Full("or", i.rd, i.rd, i.rs2, 0)
       [] i.op = "c.xor"   -> Full("xor", i.rd, i.rd, i.rs2, 0)
       [] i.op = "c.sub"   -> Full("sub", i.rd, i.rd, i.rs2, 0)
       [] i.op = "c.addw"  -> Full("addw", i.rd, i.rd, i.rs2, 0)
       [] i.op = "c.subw"  -> Full("subw", i.rd, i.rd, i.rs2, 0)
       [] i.op = "c.j"     -> Full("jal", 0, 0, 0, SignExt(i.imm, CJumpBits))
       [] i.op = "c.beqz"  -> Full("beq", 0, i.rs1, 0, SignExt(i.imm, CBranchBits))
       [] i.op = "c.bnez"  -> Full("bne", 0, i.rs1, 0, SignExt(i.imm, CBranchBits))
       [] i.op = "c.lwsp"  -> Full("lw", i.rd, 2, 0, i.imm)
       [] i.op = "c.ldsp"  -> Full("ld", i.rd, 2, 0, i.imm)
       [] i.op = "c.swsp"  -> Full("sw", 0, 2, i.rs2, i.imm)
       [] i.op = "c.sdsp"  -> Full("sd", 0, 2, i.rs2, i.imm)
       [] i.op = "c.jr"    -> Full("jalr", 0, i.rs1, 0, 0)
       [] i.op = "c.jalr" /\ i.rs1 = 0 -> Full("ebreak", 0, 0, 0, 0)     \* c.ebreak
       [] i.op = "c.jalr" /\ i.rs1 # 0 -> Full("jalr", 1, i.rs1, 0, 0)
       [] i.op = "c.mv"    -> Full("add", i.rd, 0, i.rs2, 0)
       [] i.op = "c.add"   -> Full("add", i.rd, i.rd, i.rs2, 0)
       [] OTHER ->
            [op |-> i.op, rd |-> i.rd, rs1 |-> i.rs1, rs2 |-> i.rs2, len |-> 4,
             imm |-> CASE i.op \in {"lui", "auipc"} -> SignExt(i.imm, Word)
                       [] i.op = "jal" -> SignExt(i.imm, JumpBits)
                       [] i.op \in {"beq", "bne", "blt", "bge", "bltu", "bgeu"} -> SignExt(i.imm, BranchBits)
                       [] i.op \in {"slli", "srli", "srai", "slliw", "srliw", "sraiw",
                                    "csrrwi", "csrrsi", "csrrci"} -> i.imm
                       [] OTHER -> SignExt(i.imm, ImmBits)]
-----------------------------------------------------------------------------
(* An operation on two numbers. The immediate forms and the word forms are *)
(* the same operations on another second operand or on the low words.      *)
Immediate == [addi |-> "add", xori |-> "xor", ori |-> "or", andi |-> "and", slti |-> "slt",
              sltiu |-> "sltu", slli |-> "sll", srli |-> "srl", srai |-> "sra",
              addiw |-> "addw", slliw |-> "sllw", srliw |-> "srlw", sraiw |-> "sraw"]
OfWords == [addw |-> "add", subw |-> "sub", sllw |-> "sll", srlw |-> "srl", sraw |-> "sra",
            mulw |-> "mul", divuw |-> "divu", remuw |-> "remu"]

Toward0(a, b) == IF a >= 0 /\ b > 0 THEN a \div b
                 ELSE IF a >= 0 THEN -(a \div (-b))
                 ELSE IF b > 0 THEN -((-a) \div b) ELSE (-a) \div (-b)

(* x and y are signed, bits is the width of the operation. *)
Apply(op, x, y, bits) ==
  LET ux == U(x, bits)
      uy == U(y, bits)
      Bool(p) == IF p THEN 1 ELSE 0
  IN CASE op = "add"  -> x + y
       [] op = "sub"  -> x - y
       [] op = "xor"  -> Xor(ux, uy)
       [] op = "or"   -> Or(ux, uy)
       [] op = "and"  -> And(ux, uy)
       [] op = "slt"  -> Bool(x < y)
       [] op = "sltu" -> Bool(ux < uy)
       [] op = "sll"  -> x * 2^(uy % bits)
       [] op = "srl"  -> ux \div 2^(uy % bits)
       [] op = "sra"  -> x \div 2^(uy % bits)
       [] op = "mul"  -> x * y
       [] op = "mulhu" -> (ux * uy) \div 2^bits
       [] op = "div"  -> IF y = 0 THEN -1 ELSE Toward0(x, y)
       [] op = "rem"  -> IF y = 0 THEN x ELSE x - y * Toward0(x, y)
       [] op = "divu" -> IF uy = 0 THEN -1 ELSE ux \div uy
       [] op = "remu" -> IF uy = 0 THEN x ELSE ux % uy

Result(b) ==
  LET imm == b.op \in DOMAIN Immediate
      op == IF imm THEN Immediate[b.op] ELSE b.op
      y == IF imm THEN b.imm ELSE Reg(b.rs2)
  IN IF op \in DOMAIN OfWords
     THEN Low(Apply(OfWords[op], Low(Reg(b.rs1)), Low(y), Word))
     ELSE Apply(op, Reg(b.rs1), y, Dword)
-----------------------------------------------------------------------------
SizeOf == [lb |-> 1, lbu |-> 1, lh |-> 2, lhu |-> 2, lw |-> 4, lwu |-> 4, ld |-> 8,
           sb |-> 1, sh |-> 2, sw |-> 4, sd |-> 8]
Loading == {"lb", "lbu", "lh", "lhu", "lw", "lwu", "ld"}
Storing == {"sb", "sh", "sw", "sd"}
Branching == {"beq", "bne", "blt", "bge", "bltu", "bgeu"}
CsrOps == {"csrrw", "csrrs", "csrrc", "csrrwi", "csrrsi", "csrrci"}
ToFloat == {"fmv.w.x", "fmv.d.x", "fsgnj.d"}

At(b) == Unsigned(Reg(b.rs1) + b.imm)

(* The register an instruction writes, x0 if none, and its value.          *)
Dest(b) == IF b.op \in Storing \cup Branching \cup ToFloat \cup {"fence", "ebreak"} THEN 0 ELSE b.rd
Value(b) ==
  CASE b.op \in Loading ->
         LET raw == Gather(mem, At(b), SizeOf[b.op])
         IN IF b.op \in {"lb", "lh", "lw"} THEN SignExt(raw, SizeOf[b.op] * Byte) ELSE raw
    [] b.op \in {"amoswap.w", "amoadd.w", "amoxor.w"} -> Low(Gather(mem, Unsigned(Reg(b.rs1)), 4))
    [] b.op = "amoadd.d" -> Gather(mem, Unsigned(Reg(b.rs1)), 8)
    [] b.op = "lui" -> b.imm
    [] b.op = "auipc" -> pc + b.imm
    [] b.op \in {"jal", "jalr"} -> pc + b.len
    [] b.op \in CsrOps -> csr
    [] b.op = "fmv.x.w" -> Low(fgpr[b.rs1])
    [] b.op = "fmv.x.d" -> fgpr[b.rs1]
    [] OTHER -> Result(b)

Taken(b) ==
  LET x == Reg(b.rs1)
      y == Reg(b.rs2)
  IN CASE b.op = "beq" -> x = y
       [] b.op = "bne" -> x # y
       [] b.op = "blt" -> x < y
       [] b.op = "bge" -> x >= y
       [] b.op = "bltu" -> Unsigned(x) < Unsigned(y)
       [] b.op = "bgeu" -> Unsigned(x) >= Unsigned(y)
Target(b) ==
  CASE b.op = "jal" -> pc + b.imm
    [] b.op = "jalr" -> ((Reg(b.rs1) + b.imm) \div 2) * 2
    [] b.op \in Branching -> pc + (IF Taken(b) THEN b.imm ELSE b.len)
    [] OTHER -> pc + b.len

Stored(b) ==
  LET a == Unsigned(Reg(b.rs1))
  IN CASE b.op \in Storing -> Scatter(mem, At(b), SizeOf[b.op], Unsigned(Reg(b.rs2)))
       [] b.op = "amoswap.w" -> Scatter(mem, a, 4, Unsigned(Reg(b.rs2)))
       [] b.op = "amoadd.w" -> Scatter(mem, a, 4, Unsigned(Reg(b.rs2) + Gather(mem, a, 4)))
       [] b.op = "amoxor.w" -> Scatter(mem, a, 4, Xor(Unsigned(Reg(b.rs2)), Gather(mem, a, 4)))
       [] b.op = "amoadd.d" -> Scatter(mem, a, 8, Unsigned(Reg(b.rs2) + Gather(mem, a, 8)))
       [] OTHER -> mem

NewCsr(b) ==
  LET src == IF b.op \in {"csrrwi", "csrrsi", "csrrci"} THEN b.imm ELSE Unsigned(Reg(b.rs1))
  IN CASE b.op \in {"csrrw", "csrrwi"} -> src
       [] b.op \in {"csrrs", "csrrsi"} -> Or(csr, src)
       [] b.op \in {"csrrc", "csrrci"} -> And(csr, 2^Dword - 1 - src)
       [] OTHER -> csr

NewFloat(b) ==
  CASE b.op = "fmv.d.x" -> [fgpr EXCEPT ![b.rd] = Unsigned(Reg(b.rs1))]
    [] b.op = "fmv.w.x" -> [fgpr EXCEPT ![b.rd] = (2^Word - 1) * 2^Word + U(Reg(b.rs1), Word)]
    [] b.op = "fsgnj.d" -> [fgpr EXCEPT ![b.rd] = fgpr[b.rs1]]     \* rs2 = rs1: a move
    [] OTHER -> fgpr

(* A misaligned AMO and ebreak trap, with no other effect. *)
Traps(b) == \/ b.op = "ebreak"
            \/ b.op \in {"amoswap.w", "amoadd.w", "amoxor.w"} /\ Reg(b.rs1) % 4 # 0

(* The step of instruction i. *)
Executes(i) ==
  LET b == Expand(i)
  IN /\ ~Traps(b)
     /\ gpr' = IF Dest(b) = 0 THEN gpr ELSE [gpr EXCEPT ![Dest(b)] = Unsigned(Value(b))]
     /\ fgpr' = NewFloat(b)
     /\ csr' = NewCsr(b)
     /\ mem' = Stored(b)
     /\ pc' = Unsigned(Target(b))
=============================================================================
