--------------------------- MODULE MCMinimalStack ---------------------------
(***************************************************************************)
(* Small programs for MinimalStack.                                        *)
(***************************************************************************)
EXTENDS MinimalStack, TLC

CONSTANTS crt, main, raise, ctor, a, b, lib, x, y, null, header

MCFns == {crt, main, raise, ctor, a, b, lib}

\* main and a are instrumented, b stores nothing and lib is foreign code.
MCUnsafe   == {main, a, raise, ctor}
MCCalls    == {<<main, a>>, <<main, b>>, <<a, b>>, <<b, a>>, <<a, a>>, <<a, lib>>,
               <<a, raise>>, <<ctor, a>>}
MCTails    == {<<a, b>>, <<b, a>>, <<ctor, a>>}
MCFrame    == [f \in MCFns |-> IF f = b THEN 3 ELSE 1]
=============================================================================
