------------------------ MODULE MCControlFlowGraph ------------------------
(* Code ranges of five bytes over the instructions that matter to the cuts:  *)
(* short and long ones, jumps back, forward and outside, and a few ranges    *)
(* with calls, indirect branches and the lengths that are refused.           *)
EXTENDS ControlFlowGraph

Instruction(kind, len, disp) == [kind |-> kind, len |-> len, disp |-> disp]

Core == {Instruction("none", 1, NoTarget), Instruction("none", 2, NoTarget),
         Instruction("return", 1, NoTarget), Instruction("none", 0, NoTarget),
         Instruction("conditional", 1, -3), Instruction("conditional", 2, 1),
         Instruction("jump", 1, -2)}

Others == {Instruction("call", 2, 5), Instruction("jump", 1, NoTarget),
           Instruction("conditional", 1, NoTarget), Instruction("noreturn", 1, NoTarget),
           Instruction("jump", 2, 9), Instruction("conditional", 1, 1)}

MCCodes == [0 .. 4 -> Core] \cup [0 .. 2 -> Others] \cup {NullCode, << >>}
           \cup {[o \in 0 .. 5 |-> Instruction("none", 1, NoTarget)]}
===========================================================================
