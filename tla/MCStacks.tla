------------------------------ MODULE MCStacks ------------------------------
(***************************************************************************)
(* Two programs that break the discipline ReturnGuard needs, in one run of *)
(* MinimalStack: one under SEG, whose jumps do not restore the pointer,    *)
(* and one under REG with foreign code that calls an instrumented function *)
(* back.                                                                   *)
(***************************************************************************)
EXTENDS Integers, Sequences, FiniteSets

CONSTANTS
  StackWords, Sites, Null, Header,   \* as in MinimalStack
  Crt, Main, Raise, ctor, a, b, lib  \* the functions of the two programs

\* Any stack and any return addresses, but these functions.
ASSUME StacksAssumption ==
  /\ StackWords \in Nat /\ StackWords % 2 = 0 /\ StackWords > 2
  /\ Null \notin Sites /\ Header \notin Sites /\ Header # Null
  /\ Crt \notin {Main, Raise, ctor, a, b, lib} /\ lib \notin {Main, Raise, ctor, a}

Fns       == {Crt, Main, Raise, ctor, a, b, lib}
InitFns   == {ctor}
FiniFns   == {ctor}
Ctors     == {ctor}
Unsafe    == {Main, a, Raise, ctor}
Clobbers  == {Crt, lib}
SetJmps   == {Main, a}
Handlers  == {Main, a}
Within    == {<<Main, a>>, <<Main, b>>, <<a, b>>, <<a, a>>, <<a, lib>>, <<a, Raise>>, <<ctor, a>>}
Callbacks == {<<lib, a>>}
TailCalls == {<<a, b>>, <<b, a>>, <<ctor, a>>}
Frame     == [f \in Fns |-> IF f = b THEN 3 ELSE 1]

VARIABLES
  program,  \* "jumps": SEG with non-local jumps; "foreign": REG with callbacks
  frames, shadow, ssp, env, phase, status

Jumps   == INSTANCE MinimalStack WITH Scheme <- "SEG", Calls <- Within
Foreign == INSTANCE MinimalStack WITH Scheme <- "REG", Calls <- Within \cup Callbacks

vars == <<program, frames, shadow, ssp, env, phase, status>>

Init == \/ program = "jumps" /\ Jumps!Init
        \/ program = "foreign" /\ Foreign!Init
Next == \/ program = "jumps" /\ Jumps!Next /\ UNCHANGED program
        \/ program = "foreign" /\ Foreign!Next /\ UNCHANGED program
Spec == Init /\ [][Next]_vars

\* Whatever a longjmp or an exception does to the pointer under SEG, the entry
\* of a live instrumented frame is never overwritten and lies below it.
LiveEntriesKept == program = "jumps" => Jumps!LiveEntriesKept

\* A prolog stores through a foreign r15 only in the first instrumented
\* function entered from foreign code that was itself called.
WildBlame == program = "foreign" => Foreign!WildBlame
=============================================================================
