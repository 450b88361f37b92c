------------------------------ MODULE MCCodegen ------------------------------
(* Codegen with one function of every shape the passes tell apart. *)
EXTENDS Codegen

B(ins, to) == [ins |-> ins, to |-> to]
MCBody ==
  [ leaf   |-> << B(<<"cmp", "jcc">>, 2), B(<<"gstore", "ret">>, 0) >>,
    spared |-> << B(<<"push", "gstore", "call", "mixed", "ret">>, 0) >>,
    writes |-> << B(<<"store", "cmp", "jcc">>, 3), B(<<"call", "jmp">>, 4),
                  B(<<"store", "call", "tail">>, 0), B(<<"retn">>, 0) >>,
    ctor   |-> << B(<<"store", "ret">>, 0) >>,
    dtor   |-> << B(<<"store", "tail">>, 0) >>,
    main   |-> << B(<<"store", "call", "ret">>, 0) >>,
    cond   |-> << B(<<"store", "cmp", "cctail">>, 0), B(<<"store", "ret">>, 0) >>,
    condj  |-> << B(<<"store", "cmp", "cctail", "jmp">>, 3), B(<<"tail">>, 0), B(<<"ret">>, 0) >>,
    loop   |-> << B(<<"store", "cmp", "jcc">>, 3), B(<<"call", "cmp", "jcc">>, 2), B(<<"ret">>, 0) >>,
    eh     |-> << B(<<"store", "aim", "ehret">>, 0) >> ]
MCFns == DOMAIN MCBody
A(cpu, fs, soft, prefer, required, flags) ==
  [cpu |-> cpu, fs |-> fs, soft |-> soft, prefer |-> prefer, required |-> required, flags |-> flags]
MCAttrs ==
  [f \in MCFns |->
     CASE f = "leaf"   -> A("none", <<"none">>, TRUE, "none", "none", "none")
       [] f = "spared" -> A("none", <<"+retpoline">>, FALSE, "none", "none", "none")
       [] f = "ctor"   -> A("haswell", <<"+avx">>, FALSE, "256", "none", "none")
       [] f = "dtor"   -> A("haswell", <<"+avx">>, FALSE, "none", "256", "none")
       [] f = "cond"   -> A("none", <<"none">>, FALSE, "none", "none", "unsafe-fp-math")
       [] f = "eh"     -> A("none", <<>>, FALSE, "bad", "none", "none")
       [] OTHER        -> A("none", <<"none">>, FALSE, "none", "none", "none")]
\* MPX goes with REG.
MCBuilds ==
  { b \in [scheme : {"REG", "SEG", "MEM", "CON"}, mpk : BOOLEAN,
           mpx : BOOLEAN, count : BOOLEAN, xray : BOOLEAN, ibt : BOOLEAN] :
      b.mpx => b.scheme = "REG" }
MCDefaultFS == <<"+sse2">>
==============================================================================
