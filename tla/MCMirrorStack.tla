---------------------------- MODULE MCMirrorStack ----------------------------
(* A small program for MirrorStack. *)
EXTENDS MirrorStack

CONSTANTS libc, main, ctor, raise, a, b, lib, x, y, null

MCFns == {libc, main, ctor, raise, a, b, lib}

\* main and a are instrumented, b stores nothing; lib is foreign, loads a
\* library with the constructor ctor, and calls a back.
MCUnsafe == {main, a, ctor, raise}
MCCalls  == {<<main, a>>, <<main, b>>, <<a, b>>, <<b, a>>, <<a, a>>, <<a, lib>>, <<a, raise>>, <<main, lib>>,
             <<ctor, a>>, <<lib, a>>, <<lib, ctor>>}
MCTails  == {<<a, b>>, <<b, a>>, <<ctor, a>>, <<lib, b>>}
MCFrame  == [f \in MCFns |-> IF f = b THEN 3 ELSE 1]
==============================================================================
