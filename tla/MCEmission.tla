------------------------------ MODULE MCEmission ------------------------------
(* Emission with the operands of the sleds, the sizes and one sample of every *)
(* kind of instruction Lower() knows, and of those that almost match.          *)
EXTENDS Emission

I(op, form, width, args) == [op |-> op, form |-> form, width |-> width, args |-> args]

MCSrcRegs == {"rdi", "rsi", "rdx"}
MCSamples ==
  { I("vmovaps", "rr", 0, <<d, s>>) : d, s \in {"xmm0", "xmm8"} } \cup
  { I("vmovsd", "rr", 0, <<d, "xmm1", s>>) : d, s \in {"xmm0", "xmm8"} } \cup
  { I("call", "r", 64, <<"rax", "rdi">>), I("call", "rel", 0, <<"f">>),
    I("tailjmp_r64", "r", 64, <<"rax", "rdi">>), I("tailjmp", "rel", 0, <<"f">>),
    I("tailjmp_cc", "rel", 0, <<"f", "je">>), I("ret", "", 0, <<>>),
    I("eh_return", "", 0, <<"rcx">>), I("cleanupret", "", 0, <<>>), I("catchret", "", 64, <<"b">>) } \cup
  { I(op, "r", 32, <<"ecx">>) : op \in {"inc"} } \cup
  { I("release_inc", "m", 32, <<"rbx">>), I("add_db", "rr", 32, <<"eax", "ecx">>) } \cup
  { I(op, "ri", 32, <<r, "imm">>) : op \in {"cmp", "add_db", "test"}, r \in {"eax", "ecx"} } \cup
  { I("add", "ri", 64, <<"rax", "imm">>), I("xor", "ri", 8, <<"ah", "imm">>),
    I("release_add", "mi", 64, <<"rbx", "imm">>), I("release_xor", "mi", 64, <<"rbx", "imm">>), I("release_mov", "mr", 32, <<"ecx", "ebx", "sym">>) } \cup
  { I(op, "rm", 32, <<r, b, "sym">>) : op \in {"mov", "acquire_mov"}, r \in {"eax", "ecx"}, b \in {"none", "ebx"} } \cup
  { I("mov", "mr", 8, <<r, "none", s>>) : r \in {"al", "ah"}, s \in {"sym", "tlvp"} } \cup
  { I("movsx", "rr", 64, <<d, s>>) : d \in {"rax", "rcx"}, s \in {"eax", "ecx"} } \cup
  { I("movsx", "rr", 16, <<"ax", s>>) : s \in {"al", "bl"} } \cup
  { I("movsx", "rr", 32, <<"eax", s>>) : s \in {"ax", "bx"} }
===============================================================================
