--------------------------- MODULE MCEmittedCode ---------------------------
(***************************************************************************)
(* The functions and builds EmittedCode is checked for.                    *)
(***************************************************************************)
EXTENDS EmittedCode, TLC

MCFunction(s, m, t, r, l, c) ==
  [scheme |-> s, mpk |-> m, tail |-> t, reads |-> r, load |-> l, ctor |-> c]

\* Functions that return, functions that end in a tail call, main and constructors.
MCReturns == {MCFunction(s, m, FALSE, {"RAX"}, FALSE, FALSE) : s \in Schemes, m \in BOOLEAN}
MCTail(m, reads) == {MCFunction(s, m, TRUE, reads, FALSE, FALSE) : s \in Schemes}
MCTails   == MCTail(FALSE, {"RAX", "RCX", "R10", "R11"}) \cup MCTail(TRUE, {"RAX", "RCX", "RDX", "R10"})
MCLoads   == {MCFunction(s, m, FALSE, {"RAX"}, TRUE, c) : s \in {"REG", "PARR"}, m \in BOOLEAN, c \in BOOLEAN}

\* No slot of r10 or r11 is clobbered in these: with pkeys no tail call reads r11.
MCSound   == MCReturns \cup MCTails \cup MCLoads
MCPkeyTails == MCTail(TRUE, {"RCX", "R10", "R11"}) \cup MCTail(TRUE, {"RAX", "R11"})
=============================================================================
