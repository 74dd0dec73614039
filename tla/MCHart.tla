------------------------------- MODULE MCHart -------------------------------
EXTENDS HartIsa, TLC

Ops(names, rds, rs1s, rs2s, imms) ==
  { [op |-> o, rd |-> d, rs1 |-> a, rs2 |-> b, imm |-> m] :
      o \in names, d \in rds, a \in rs1s, b \in rs2s, m \in imms }

Full ==
  Ops({"add", "sub", "xor", "or", "and", "sltu", "srl", "mul", "div", "divu", "remu",
       "sllw", "remuw", "divuw", "addw", "subw"}, {0, 1}, {1, 2}, {0, 1, 2}, {0})
  \cup Ops({"addi", "xori", "ori", "andi", "slti", "sltiu", "addiw"}, {0, 1}, {1}, {0}, {0, 1, 3, 4, 7})
  \cup Ops({"slli", "srli", "srai"}, {0, 1}, {1}, {0}, {0, 3, 4, 7})
  \cup Ops({"slliw", "srliw", "sraiw"}, {0, 1}, {1}, {0}, {0, 1, 3})
  \cup Ops({"lui", "auipc"}, {0, 1}, {0}, {0}, {0, 8})
  \cup Ops({"lb", "lh", "lw", "ld", "lbu", "lhu", "lwu"}, {0, 1}, {1}, {0}, {0, 1, 7})
  \cup Ops({"sb", "sh", "sw", "sd"}, {0}, {1}, {2}, {0, 1, 7})
  \cup Ops({"amoswap.w", "amoadd.w"}, {0, 1, 2}, {1}, {2}, {0})
  \cup Ops({"beq", "bne", "blt", "bltu", "bge", "bgeu"}, {0}, {1}, {1, 2}, {2, 6, 8, 14})
  \cup Ops({"jal"}, {0, 1}, {0}, {0}, {0, 6, 10, 16, 24})
  \cup Ops({"jalr"}, {0, 1}, {1, 2}, {0}, {0, 1, 7})
  \cup Ops({"csrrw", "csrrs", "csrrc", "csrrwi", "csrrsi", "csrrci"}, {0, 1}, {0, 1, 2}, {0}, {0, 3})
  \cup Ops({"fmv.x.w", "fmv.x.d", "fmv.w.x", "fmv.d.x", "fsgnj.d"}, {0, 1}, {0, 1}, {0}, {0})
  \cup Ops({"fence", "ebreak", "sll", "slt", "sra", "rem", "mulhu", "fld", "mulw", "srlw",
            "amoxor.w", "amoadd.d"}, {1}, {1}, {2}, {0})

Short ==
  Ops({"c.addi", "c.li"}, {0, 1}, {0}, {0}, 0 .. 3)
  \cup Ops({"c.addiw"}, {1, 2}, {0}, {0}, 0 .. 3)
  \cup Ops({"c.addiw"}, {0}, {0}, {0}, {0, 6, 8, 14})    \* reserved, and executed
  \cup Ops({"c.lui"}, {0, 1}, {0}, {0}, 1 .. 3)
  \cup Ops({"c.addi16sp"}, {2}, {0}, {0}, 1 .. 3)
  \cup Ops({"c.addi4spn"}, {8, 9}, {0}, {0}, {0, 4, 8})
  \cup Ops({"c.slli", "c.srli", "c.srai"}, {8}, {0}, {0}, {1, 4, 7})
  \cup Ops({"c.andi"}, {8}, {0}, {0}, 0 .. 3)
  \cup Ops({"c.and", "c.or", "c.xor", "c.sub", "c.addw", "c.subw"}, {8}, {0}, {8, 9}, {0})
  \cup Ops({"c.lw", "c.ld", "c.sw", "c.sd", "c.fld"}, {8}, {9}, {8}, {0, 4})
  \cup Ops({"c.lwsp"}, {0, 1, 2}, {0}, {0}, {0, 4})
  \cup Ops({"c.ldsp"}, {0, 1}, {0}, {0}, {0})     \* rd = x0 is reserved, and executed
  \cup Ops({"c.swsp", "c.sdsp"}, {0}, {0}, {1}, {0, 4})
  \cup Ops({"c.j"}, {0}, {0}, {0}, {0, 6, 8, 14})
  \cup Ops({"c.beqz", "c.bnez"}, {0}, {8}, {0}, {2, 4, 6})
  \cup Ops({"c.jr", "c.jalr"}, {0}, {0, 1, 2}, {0}, {0})
  \cup Ops({"c.mv", "c.add"}, {0, 1}, {0}, {1, 2}, {0})

MCRegs == {0, 1, 2, 8, 9}
MCRam == 0 .. 7
MCProgram == Full \cup Short

(* The values around every border: of the RAM, the word and the dword.     *)
Values == {0, 1, 2, 4, 7, 8, 15, 16, 120, 127, 128, 129, 248, 255}

Start(u, v, p) ==
  [gpr |-> 0 :> 0 @@ 1 :> u @@ 2 :> v @@ 8 :> u @@ 9 :> v,
   fgpr |-> 0 :> u @@ 1 :> v @@ 2 :> 0 @@ 8 :> 0 @@ 9 :> 0, csr |-> U(u + 2 * v, Dword),
   mem |-> [a \in MCRam |-> U(v \div 2^a, 1)], pc |-> p]
MCStarts == { Start(u, v, 250) : u, v \in Values }
=============================================================================
