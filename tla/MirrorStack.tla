----------------------------- MODULE MirrorStack -----------------------------
(***************************************************************************)
(* One thread of a program compiled with a mirroring shadow stack: an      *)
(* instrumented function stores its return address at a fixed distance     *)
(* from the slot that holds it, and compares the two before it returns.    *)
(* Under CON the distance is SHADOW_STACK_OFFSET; under PARR, the register *)
(* scheme built with SHADOW_STACK_PARR, it is in r15.  No pointer moves,   *)
(* so nothing is popped.                                                   *)
(*                                                                         *)
(* As in MinimalStack, a step is one function entry, one exit or one       *)
(* non-local jump, and stack addresses count words from the low end of the *)
(* stack; the mirror has a word for each of them.                          *)
(***************************************************************************)
EXTENDS Integers, Sequences

CONSTANTS
  StackWords,  \* size of the machine stack, and of the mirror, in words
  Sites,       \* return addresses
  Null,        \* a word that was never written
  Fns,         \* the functions of the program
  Libc,        \* start-up code or the thread library, which calls the others
  Roots,       \* the functions it calls in the main thread
  Starts,      \* the start routines of other threads
  Reloads,     \* the functions that load r15: main and those isGlobalConstructor() accepts
  Bare,        \* of those, the ones that get no epilog: all but main
  Unsafe,      \* the functions mayWriteMem() accepts
  Raise,       \* the unwinder, which ends in jumpto()
  Clobbers,    \* foreign functions, free to use r15
  Calls,       \* pairs (caller, callee)
  TailCalls,   \* pairs (caller, callee) compiled to a jump
  SetJmps,     \* functions that call setjmp
  Handlers,    \* functions with a landing pad
  Frame        \* words each function's frame takes below its return address

ASSUME ProgramAssumption ==
  /\ StackWords \in Nat /\ Null \notin Sites
  /\ Libc \in Clobbers /\ Clobbers \subseteq Fns \ Unsafe
  /\ Roots \cup Starts \cup Unsafe \subseteq Fns \ {Libc}
  /\ Reloads \subseteq Fns \ Clobbers /\ Bare \subseteq Reloads
  /\ Calls \cup TailCalls \subseteq Fns \X (Fns \ {Libc})
  /\ Frame \in [Fns -> Nat] /\ StackWords > Frame[Libc]
  \* rsp is 16-byte aligned at every call: a frame and its return address take
  \* an even number of words
  /\ StackWords % 2 = 0 /\ \A f \in Fns : Frame[f] % 2 = 1

Words == 0 .. StackWords - 1

VARIABLES
  scheme,   \* "PARR" or "CON"
  thread,   \* "main", or "other" for a thread that pthread_create() started
  mapped,   \* what lies at the mirror's distance: the "own" shadow stack, one that
            \* is "shared" with another mapping, or "nothing"
  frames,   \* live frames, libc's first; ra and reg are history: the address in
            \* the slot on entry, and r15 behind the load
  mirror,   \* the words at the mirror's distance
  r15,      \* "offset", or "foreign"
  env,      \* a jmp_buf, or NoEnv
  status    \* "run", or why the thread stopped

vars == <<scheme, thread, mapped, frames, mirror, r15, env, status>>
build == <<scheme, thread, mapped>>

NoEnv  == [depth |-> 0, rsp |-> 0, r15 |-> "foreign"]
Depth  == Len(frames)
Top    == frames[Depth]
Rsp(i) == frames[i].slot - Frame[frames[i].fn]
LibcFrame(slot) == [fn |-> Libc, slot |-> slot, ra |-> Null, mem |-> Null, reg |-> "foreign"]

\* thread_init() leaves gs:[8] in r15, the address of the shadow stack and not
\* its offset.  Under CON the main thread takes any address mmap() gives it, and
\* the others only the right one.
Init ==
  /\ scheme \in {"PARR", "CON"}
  /\ thread \in {"main", "other"}
  /\ mapped \in IF scheme = "CON" /\ thread = "main" THEN {"own", "shared", "nothing"} ELSE {"own"}
  /\ frames = <<LibcFrame(StackWords - 1)>>
  /\ mirror = [w \in Words |-> Null]
  /\ r15 = "foreign"
  /\ env = NoEnv
  /\ status = "run"
-----------------------------------------------------------------------------
(* Entering and leaving a function. *)

Prolog(f) == f \in Unsafe
Epilog(f) == f \in Unsafe /\ ~(scheme = "PARR" /\ f \in Bare)

\* Whether a prolog or an epilog finds memory where it looks for the mirror.
Reaches(reg) == IF scheme = "PARR" THEN reg = "offset" ELSE mapped # "nothing"

\* r15 behind its load.  The mutant forgets main.
LoadedBareOnly(f, reg) == IF scheme = "PARR" /\ f \in Bare THEN "offset" ELSE reg
Loaded(f, reg) == IF scheme = "PARR" /\ f \in Reloads THEN "offset" ELSE reg

\* The prolog's store.  The mutant pushes something first.
StoredBelow(slot, ra) == [mirror EXCEPT ![slot - 1] = ra]
Stored(slot, ra) == [mirror EXCEPT ![slot] = ra]

Enter(callers, f, slot, ra, reg) ==
  /\ frames' = Append(callers, [fn |-> f, slot |-> slot, ra |-> ra, mem |-> ra, reg |-> Loaded(f, reg)])
  /\ r15' = Loaded(f, reg)
  /\ IF Prolog(f) /\ ~Reaches(Loaded(f, reg))
       THEN status' = "wildstore" /\ UNCHANGED mirror
       ELSE /\ mirror' = IF Prolog(f) THEN Stored(slot, ra) ELSE mirror
            /\ UNCHANGED status

\* The comparison an epilog makes; a function without one passes.  The mutant
\* loads the word and compares nothing.
CheckedLoadOnly == ~Epilog(Top.fn) \/ Reaches(r15)
Checked == ~Epilog(Top.fn) \/ (Reaches(r15) /\ mirror[Top.slot] = Top.mem)

KeepEnv(n) == env' = IF env.depth > n THEN NoEnv ELSE env
Fits(f, slot) == slot - Frame[f] >= 0

\* Foreign code has its own value in r15 while it calls, and puts the one it
\* found back before it returns.
CalleeR15 == IF Top.fn \in Clobbers THEN "foreign" ELSE r15
LeftR15   == IF Top.fn \in Clobbers THEN Top.reg ELSE r15

Callable(f) ==
  IF Depth > 1 THEN <<Top.fn, f>> \in Calls
  ELSE f \in IF thread = "main" THEN Roots ELSE Starts

Call(f, ra) ==
  /\ status = "run"
  /\ Callable(f)
  /\ Fits(f, Rsp(Depth) - 1)
  /\ Enter(frames, f, Rsp(Depth) - 1, ra, CalleeR15)
  /\ UNCHANGED <<build, env>>

Leaving == status = "run" /\ Depth > 1

Return ==
  /\ Leaving /\ Checked /\ Top.mem = Top.ra
  /\ frames' = SubSeq(frames, 1, Depth - 1)
  /\ r15' = LeftR15
  /\ KeepEnv(Depth - 1)
  /\ UNCHANGED <<build, mirror, status>>

TailCall(f) ==
  /\ Leaving /\ Checked /\ Top.mem = Top.ra
  /\ <<Top.fn, f>> \in TailCalls
  /\ Fits(f, Top.slot)
  /\ Enter(SubSeq(frames, 1, Depth - 1), f, Top.slot, Top.mem, LeftR15)
  /\ KeepEnv(Depth - 1)
  /\ UNCHANGED build

Escape ==
  /\ Leaving /\ Checked /\ Top.mem # Top.ra
  /\ status' = "escaped"
  /\ UNCHANGED <<build, frames, mirror, r15, env>>

EpilogTrap ==
  /\ Leaving /\ ~Checked
  /\ status' = IF Reaches(r15) THEN "trap" ELSE "wildload"
  /\ UNCHANGED <<build, frames, mirror, r15, env>>

\* exit() from any depth, for the functions of .fini_array.
Exit ==
  /\ Leaving /\ thread = "main"
  /\ Fits(Libc, Rsp(Depth) - 1)
  /\ frames' = <<LibcFrame(Rsp(Depth) - 1)>>
  /\ env' = NoEnv
  /\ UNCHANGED <<build, mirror, r15, status>>

\* A store of the running function hits the return address of a live frame.
StrayStore(i, v) ==
  /\ status = "run" /\ Top.fn \in Unsafe
  /\ i \in 2 .. Depth /\ v # frames[i].mem
  /\ frames' = [frames EXCEPT ![i].mem = v]
  /\ UNCHANGED <<build, mirror, r15, env, status>>

\* The owner of a shared mapping writes to it; only the words of live frames
\* matter.
Intrude(i, v) ==
  /\ status = "run" /\ mapped = "shared" /\ i \in 2 .. Depth
  /\ mirror' = [mirror EXCEPT ![frames[i].slot] = v]
  /\ UNCHANGED <<build, frames, r15, env, status>>
-----------------------------------------------------------------------------
(* Non-local jumps. *)

SetJmp ==
  /\ status = "run" /\ Depth > 1 /\ Top.fn \in SetJmps
  /\ env' = [depth |-> Depth, rsp |-> Rsp(Depth), r15 |-> r15]
  /\ UNCHANGED <<build, frames, mirror, r15, status>>

\* longjmp and jumpto walk entries of two words, which a mirror does not have,
\* from gs:[8], which only PARR sets.  A zero word ends the walk in an int3; how
\* the target's rsp compares with a return address depends on where code is mapped.
Seen(start)   == {w \in start .. StackWords - 2 : (w - start) % 2 = 0}
GoesOn(w)     == mirror[w] # Null /\ mirror[w + 1] # Null
Reached(start) == {w \in Seen(start) : \A v \in Seen(start) : v < w => GoesOn(v)}

\* How a walk may end.  The mutant does not look for the zero word.
WalkBlind(start) == {"run"}
Walk(start) ==
  IF scheme = "CON" THEN {"segv"}
  ELSE {IF mirror[w] = Null THEN "int3" ELSE "run" : w \in Reached(start)}
       \cup {end \in {"segv"} : \A w \in Seen(start) : GoesOn(w)}

\* longjmp starts at the second entry and restores r15 from the jmp_buf.
LongJmp ==
  /\ status = "run" /\ env # NoEnv /\ Top.fn # Raise
  /\ status' \in Walk(2)
  /\ IF status' = "run" THEN frames' = SubSeq(frames, 1, env.depth) /\ r15' = env.r15
                        ELSE UNCHANGED <<frames, r15>>
  /\ UNCHANGED <<build, mirror, env>>

\* jumpto() leaves the address its walk ended at in r15.
Unwind(i) ==
  /\ status = "run" /\ Top.fn = Raise
  /\ i \in 2 .. Depth - 1 /\ frames[i].fn \in Handlers
  /\ status' \in Walk(0)
  /\ IF status' = "run" THEN frames' = SubSeq(frames, 1, i) /\ r15' = "foreign" /\ KeepEnv(i)
                        ELSE UNCHANGED <<frames, r15, env>>
  /\ UNCHANGED <<build, mirror>>

Next ==
  \/ \E f \in Fns, ra \in Sites : Call(f, ra)
  \/ Return
  \/ \E f \in Fns : TailCall(f)
  \/ Escape
  \/ EpilogTrap
  \/ Exit
  \/ \E i \in 2 .. Depth, v \in Sites : StrayStore(i, v)
  \/ \E i \in 2 .. Depth, v \in Sites : Intrude(i, v)
  \/ SetJmp
  \/ LongJmp
  \/ \E i \in 2 .. Depth : Unwind(i)

Spec == Init /\ [][Next]_vars
-----------------------------------------------------------------------------
\* Type invariant.
Frames == [fn : Fns, slot : Words, ra : Sites \cup {Null}, mem : Sites \cup {Null},
           reg : {"offset", "foreign"}]
TypeOK ==
  /\ scheme \in {"PARR", "CON"} /\ thread \in {"main", "other"}
  /\ mapped \in {"own", "shared", "nothing"}
  /\ frames \in Seq(Frames) /\ Depth >= 1
  /\ mirror \in [Words -> Sites \cup {Null}]
  /\ r15 \in {"offset", "foreign"}
  /\ env \in [depth : Nat, rsp : Words, r15 : {"offset", "foreign"}]
  /\ status \in {"run", "trap", "escaped", "wildstore", "wildload", "int3", "segv"}

\* The mirror of every live instrumented frame holds its return address, although
\* nothing clears a word and nothing says which words are in use: whatever code
\* runs below leaves it alone.
MirrorSync ==
  mapped = "own" /\ status = "run" =>
    \A i \in 2 .. Depth : Prolog(frames[i].fn) => mirror[frames[i].slot] = frames[i].ra

\* A prolog misses its mirror only under CON when the main thread's lies
\* elsewhere, or under PARR in what foreign code calls before something reloads
\* r15; the thread library is such code, and thread_init() loads the wrong word.
\* An epilog never misses it.
BlindBlame ==
  /\ status # "wildload"
  /\ status = "wildstore" =>
       \/ scheme = "CON" /\ thread = "main" /\ mapped = "nothing"
       \/ /\ scheme = "PARR"
          /\ \E i \in 1 .. Depth - 1 :
               /\ frames[i].fn \in Clobbers
               /\ \A j \in i + 1 .. Depth : frames[j].fn \notin Reloads

\* longjmp and exceptions never get anywhere: frames are left one by one, or by
\* exit().  The walk reads the words between the return addresses, which stay zero.
NoFrameSkipped == [][Depth' >= Depth - 1 \/ frames'[Depth'].fn = Libc]_vars
\* The inductive invariant.  Frames lie below each other, at odd slots.
Stacked(fs) ==
  \A i \in 1 .. Len(fs) :
    /\ Frame[fs[i].fn] <= fs[i].slot /\ fs[i].slot % 2 = 1
    /\ \A j \in i + 1 .. Len(fs) : fs[j].slot < fs[i].slot - Frame[fs[i].fn]

\* Once r15 is right it stays so in the function and in what it calls, unless
\* that is foreign.
Chained(fs, reg) ==
  scheme = "PARR" =>
    \A i \in 2 .. Len(fs) :
      fs[i].fn \notin Clobbers /\ fs[i].reg = "offset" =>
        IF i < Len(fs) THEN fs[i + 1].reg = "offset" ELSE reg = "offset"

\* Where it is wrong, the newest foreign caller is to blame.
ToBlame(fs, i) ==
  \E k \in 1 .. i - 1 : fs[k].fn \in Clobbers /\ \A j \in k + 1 .. i : fs[j].fn \notin Reloads
Blamed(fs) ==
  scheme = "PARR" => \A i \in 2 .. Len(fs) : fs[i].reg = "foreign" => ToBlame(fs, i)

\* A function with a prolog that ran has reached its mirror, and its word is there.
Ready(fs)   == \A i \in 2 .. Len(fs) : Prolog(fs[i].fn) => Reaches(fs[i].reg)
Kept(fs, m) == \A i \in 2 .. Len(fs) : Prolog(fs[i].fn) => m[fs[i].slot] = fs[i].ra

\* The words between the return addresses stay zero.
Gaps == scheme = "PARR" => \A w \in Words : w % 2 = 0 => mirror[w] = Null

IInv ==
  /\ TypeOK /\ frames[1].fn = Libc
  /\ Stacked(frames) /\ Chained(frames, r15) /\ Blamed(frames)
  /\ status = "run" => Ready(frames) /\ (mapped = "own" => Kept(frames, mirror))
  /\ Gaps /\ (mapped # "own" => scheme = "CON" /\ thread = "main")
  /\ BlindBlame
-----------------------------------------------------------------------------
(* The activations above libc's, as ReturnGuard sees them.  A mirror that is  *)
(* shared guards nothing, and its traps are no verdict.                       *)

ActOf(x)    == [guarded |-> mapped = "own" /\ Epilog(x.fn), ra |-> x.ra, mem |-> x.mem]
ActsOf(fs)  == [i \in 1 .. Len(fs) - 1 |-> ActOf(fs[i + 1])]
Activations == ActsOf(frames)

Outcome == CASE status = "run" -> "run"
             [] status = "trap" /\ mapped = "own" -> "stopped"
             [] status = "escaped" -> "diverted"
             [] OTHER -> "stuck"

Guard == INSTANCE ReturnGuard WITH Address <- Sites, acts <- Activations, out <- Outcome

\* A mirroring shadow stack that lies where the prologs store keeps the same
\* promise as the others, ReturnGuard.
GuardSpec == Guard!GuardSpec
=============================================================================
