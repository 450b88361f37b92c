---------------------------- MODULE MinimalStack ----------------------------
(***************************************************************************)
(* One thread of a program compiled with a "minimal" shadow stack: every   *)
(* instrumented function pushes the pair (return address, rsp) on entry    *)
(* and pops and compares it before it returns.  The shadow stack pointer   *)
(* is the register r15 (scheme REG), the word gs:[0] (SEG) or the word at  *)
(* SHADOW_STACK_PTR (MEM).                                                 *)
(*                                                                         *)
(* A step is one function entry, one function exit or one non-local jump:  *)
(* the sequences the passes emit are atomic here.                          *)
(*                                                                         *)
(* Stack addresses count 8-byte words from the low end of the stack.  An   *)
(* entry of the shadow stack is 16 bytes and has an index; in SEG and MEM  *)
(* index 0 is the header that holds the pointer itself.                    *)
(***************************************************************************)
EXTENDS Integers, Sequences, FiniteSets

CONSTANTS
  Scheme,      \* "REG", "SEG" or "MEM"
  StackWords,  \* size of the machine stack, and of the shadow stack, in words
  Sites,       \* return addresses
  Null,        \* a word that was never written
  Header,      \* the word page[0] of a SEG or MEM shadow stack
  Fns,         \* the functions of the program
  Crt,         \* the start-up code of libc, which calls the others
  Main,        \* main
  Raise,       \* the unwinder's entry, which ends in jumpto()
  InitFns,     \* the functions of .init_array
  FiniFns,     \* the functions of .fini_array
  Ctors,       \* the functions isGlobalConstructor() accepts
  Unsafe,      \* the functions mayWriteMem() accepts
  Clobbers,    \* foreign functions, free to use r15
  Calls,       \* pairs (caller, callee)
  TailCalls,   \* pairs (caller, callee) compiled to a jump
  SetJmps,     \* functions that call setjmp
  Handlers,    \* functions with a landing pad
  Frame        \* words each function's frame takes below its return address

Schemes == {"REG", "SEG", "MEM"}

ASSUME ProgramAssumption ==
  /\ Scheme \in Schemes
  /\ StackWords \in Nat /\ StackWords % 2 = 0 /\ StackWords > 2
  /\ Null \notin Sites /\ Header \notin Sites /\ Header # Null
  /\ {Crt, Main, Raise} \subseteq Fns /\ Crt # Main
  /\ InitFns \subseteq Fns /\ FiniFns \subseteq Fns
  /\ Ctors \subseteq Fns /\ Unsafe \subseteq Fns
  /\ Clobbers \subseteq Fns \ Unsafe
  /\ Crt \notin Unsafe \cup SetJmps \cup Handlers
  /\ Calls \subseteq Fns \X (Fns \ {Crt}) /\ TailCalls \subseteq Fns \X (Fns \ {Crt})
  /\ \A f \in Fns : <<Crt, f>> \notin Calls \cup TailCalls
  /\ Crt \notin InitFns \cup FiniFns
  /\ Frame \in [Fns -> Nat]
  \* rsp is 16-byte aligned at every call, so the caller's frame is not empty
  /\ \A f \in Fns : Frame[f] >= 1
  /\ StackWords > Frame[Crt]

\* What the pass emits for a function.
\* Mutant: isGlobalConstructor() forgets main.
LoadsR15CtorsOnly(f) == Scheme = "REG" /\ f \in Ctors
LoadsR15(f) == Scheme = "REG" /\ (f \in Ctors \/ f = Main)
Prolog(f)   == f \in Unsafe
Epilog(f)   == f \in Unsafe /\ ~(Scheme = "REG" /\ f \in Ctors)

\* Mutant: getpage() maps half of what the stack may need.
ShadowLenHalf == StackWords \div 4
ShadowLen  == StackWords \div 2
FirstEntry == IF Scheme = "REG" THEN 0 ELSE 1
Wild       == -1    \* a pointer that is not the shadow stack pointer
Index      == 0 .. ShadowLen - 1
Pointer    == 0 .. ShadowLen
NoEnv      == [depth |-> 0, rsp |-> 0, r15 |-> 0]

Entries == [ra : Sites \cup {Null, Header}, sp : 0 .. StackWords - 1]
Frames  == {r \in [fn : Fns, slot : 0 .. StackWords - 1, ra : Sites \cup {Null},
                   mem : Sites \cup {Null}, base : Pointer \cup {Wild}] : r.slot >= Frame[r.fn]}
Statuses == {"run", "done", "trap", "int3", "segv", "escaped", "wildload", "wildstore", "overflow"}

VARIABLES
  frames,   \* live frames, the start-up code first; ra and base are history:
            \* the address in the slot on entry, the pointer before the prolog
  shadow,   \* the shadow stack; entries above the pointer keep old contents
  ssp,      \* the shadow stack pointer
  env,      \* a jmp_buf, or NoEnv
  phase,    \* "init", "main" or "fini": what the start-up code is running
  status    \* "run", or why the thread stopped

vars == <<frames, shadow, ssp, env, phase, status>>

Depth == Len(frames)
Top   == frames[Depth]
Rsp(i) == frames[i].slot - Frame[frames[i].fn]   \* rsp while frame i makes a call

CrtFrame(slot) == [fn |-> Crt, slot |-> slot, ra |-> Null, mem |-> Null, base |-> FirstEntry]

Init ==
  /\ frames = <<CrtFrame(StackWords - 1)>>
  /\ shadow = [i \in Index |-> IF i < FirstEntry THEN [ra |-> Header, sp |-> 0]
                                                 ELSE [ra |-> Null, sp |-> 0]]
  /\ ssp = FirstEntry
  /\ env = NoEnv
  /\ phase = "init"
  /\ status = "run"

-----------------------------------------------------------------------------
(* Entering and leaving a function. *)

\* The callee's load of r15 and its prolog, entered with pointer p.
Enter(callers, f, slot, ra, p) ==
  LET base == IF LoadsR15(f) THEN FirstEntry ELSE p
  IN /\ frames' = Append(callers, [fn |-> f, slot |-> slot, ra |-> ra, mem |-> ra, base |-> base])
     /\ IF Prolog(f) /\ base \in Index
          THEN /\ shadow' = [shadow EXCEPT ![base] = [ra |-> ra, sp |-> slot]]
               /\ ssp' = base + 1
               /\ status' = status
          ELSE /\ shadow' = shadow
               /\ ssp' = base
               /\ status' = IF ~Prolog(f) THEN status
                            ELSE IF base = Wild THEN "wildstore" ELSE "overflow"

\* Mutant: the epilog loads the entry and never compares it.
CheckedLoadOnly == ~Epilog(Top.fn) \/ ssp - 1 \in Index
\* The comparison an epilog makes; a function without one passes.
Checked == ~Epilog(Top.fn) \/ (ssp - 1 \in Index /\ shadow[ssp - 1].ra = Top.mem)

\* Mutant: an epilog is emitted in every function.
PoppedAlways == ssp - 1
\* The pointer once the epilog has popped; foreign code restores the r15 it found.
Popped == IF Epilog(Top.fn) THEN ssp - 1
          ELSE IF Scheme = "REG" /\ Top.fn \in Clobbers THEN Top.base
          ELSE ssp

\* A jmp_buf outlives no frame but those below n.
KeepEnv(n) == env' = IF env.depth > n THEN NoEnv ELSE env

\* The start-up code calls the functions of .init_array, main, and at exit
\* those of .fini_array.
CrtMayCall(f) ==
  \/ phase = "init" /\ f \in InitFns \cup {Main}
  \/ phase = "fini" /\ f \in FiniFns

\* The machine stack itself does not overflow: a frame at `slot` fits.
Fits(f, slot) == slot - Frame[f] >= 0

Call(f, ra) ==
  /\ status = "run"
  /\ IF Depth = 1 THEN CrtMayCall(f) ELSE <<Top.fn, f>> \in Calls
  /\ Fits(f, Rsp(Depth) - 1)
  /\ phase' = IF Depth = 1 /\ f = Main THEN "main" ELSE phase
  /\ Enter(frames, f, Rsp(Depth) - 1, ra,
           IF Scheme = "REG" /\ Top.fn \in Clobbers THEN Wild ELSE ssp)
  /\ UNCHANGED env

Return ==
  /\ status = "run"
  /\ Depth > 1
  /\ Checked
  /\ Top.mem = Top.ra
  /\ frames' = SubSeq(frames, 1, Depth - 1)
  /\ ssp' = Popped
  /\ phase' = IF Depth = 2 /\ Top.fn = Main THEN "fini" ELSE phase
  /\ KeepEnv(Depth - 1)
  /\ UNCHANGED <<shadow, status>>

\* Leaving through an altered return address that no check caught, by a
\* return or by a tail call that hands the slot on.
Escape ==
  /\ status = "run"
  /\ Depth > 1
  /\ Checked
  /\ Top.mem # Top.ra
  /\ status' = "escaped"
  /\ UNCHANGED <<frames, shadow, ssp, env, phase>>

\* The epilog's comparison fails and its next load faults.
EpilogTrap ==
  /\ status = "run"
  /\ Depth > 1
  /\ ~Checked
  /\ status' = IF ssp - 1 \in Index THEN "trap" ELSE "wildload"
  /\ UNCHANGED <<frames, shadow, ssp, env, phase>>

\* A tail call runs the caller's epilog, then the callee's prolog on the same slot.
TailCall(f) ==
  /\ status = "run"
  /\ Depth > 1
  /\ <<Top.fn, f>> \in TailCalls
  /\ Fits(f, Top.slot)
  /\ Checked
  /\ Top.mem = Top.ra
  /\ Enter(SubSeq(frames, 1, Depth - 1), f, Top.slot, Top.mem, Popped)
  /\ KeepEnv(Depth - 1)
  /\ UNCHANGED phase

\* exit() from any depth: libc runs .fini_array on top of frames that never return.
Exit ==
  /\ status = "run"
  /\ phase = "main"
  /\ Depth > 1
  /\ Fits(Crt, Rsp(Depth) - 1)
  /\ frames' = <<CrtFrame(Rsp(Depth) - 1)>>
  /\ phase' = "fini"
  /\ env' = NoEnv
  /\ UNCHANGED <<shadow, ssp, status>>

Finish ==
  /\ status = "run"
  /\ phase = "fini"
  /\ Depth = 1
  /\ status' = "done"
  /\ UNCHANGED <<frames, shadow, ssp, env, phase>>

\* A store of the running function hits the return address of a live frame.
StrayStore(i, v) ==
  /\ status = "run"
  /\ Top.fn \in Unsafe
  /\ i \in 2 .. Depth
  /\ v # frames[i].mem
  /\ frames' = [frames EXCEPT ![i].mem = v]
  /\ UNCHANGED <<shadow, ssp, env, phase, status>>

-----------------------------------------------------------------------------
(* Non-local jumps. *)

SetJmp ==
  /\ status = "run"
  /\ Depth > 1
  /\ Top.fn \in SetJmps
  /\ env' = [depth |-> Depth, rsp |-> Rsp(Depth), r15 |-> ssp]
  /\ UNCHANGED <<frames, shadow, ssp, phase, status>>

\* The loop of longjmp and jumpto: from entry `start` up to the first entry
\* that is zero or recorded at or below `rsp`.
Stops(i, rsp) == shadow[i].ra = Null \/ rsp >= shadow[i].sp
\* Mutants: the loop stops an entry early; it skips one entry more.
WalkEndEarly(start, rsp, w) ==
  /\ w \in start .. ShadowLen - 2
  /\ Stops(w + 1, rsp)
  /\ \A i \in start .. w : ~Stops(i, rsp)
WalkEndLate(start, rsp, w) ==
  /\ w \in start + 1 .. ShadowLen - 1
  /\ Stops(w, rsp)
  /\ \A i \in start + 1 .. w - 1 : ~Stops(i, rsp)
WalkEnd(start, rsp, w) ==
  /\ w \in start .. ShadowLen - 1
  /\ Stops(w, rsp)
  /\ \A i \in start .. w - 1 : ~Stops(i, rsp)
WalkFails(start, rsp) == \A w \in start .. ShadowLen - 1 : ~Stops(w, rsp)

LongJmp ==
  /\ status = "run"
  /\ env # NoEnv
  /\ Top.fn # Raise
  /\ UNCHANGED <<shadow, env, phase>>
  /\ \/ /\ Scheme # "MEM"
        /\ \E w \in Index :
             /\ WalkEnd(1, env.rsp, w)
             /\ IF shadow[w].ra = Null
                  THEN status' = "int3" /\ UNCHANGED <<frames, ssp>>
                  ELSE /\ frames' = SubSeq(frames, 1, env.depth)
                       /\ ssp' = IF Scheme = "REG" THEN env.r15 ELSE ssp
                       /\ status' = status
     \/ \* gs:[8] with no gs base, or a walk past the mapping
        /\ Scheme = "MEM" \/ WalkFails(1, env.rsp)
        /\ status' = "segv"
        /\ UNCHANGED <<frames, ssp>>

\* The unwinder installs the context of frame i, which has a landing pad.
Unwind(i) ==
  /\ status = "run"
  /\ Top.fn = Raise
  /\ i \in 2 .. Depth - 1
  /\ frames[i].fn \in Handlers
  /\ UNCHANGED <<shadow, phase>>
  /\ \/ /\ Scheme # "MEM"
        /\ \E w \in Index :
             /\ WalkEnd(0, Rsp(i), w)
             /\ IF shadow[w].ra = Null
                  THEN status' = "int3" /\ UNCHANGED <<frames, ssp, env>>
                  ELSE /\ frames' = SubSeq(frames, 1, i)
                       /\ ssp' = IF Scheme = "REG" THEN w ELSE ssp
                       /\ KeepEnv(i)
                       /\ status' = status
     \/ /\ Scheme = "MEM" \/ WalkFails(0, Rsp(i))
        /\ status' = "segv"
        /\ UNCHANGED <<frames, ssp, env>>

Next ==
  \/ \E f \in Fns, ra \in Sites : Call(f, ra)
  \/ Return
  \/ Escape
  \/ EpilogTrap
  \/ \E f \in Fns : TailCall(f)
  \/ Exit
  \/ Finish
  \/ \E i \in 2 .. Depth, v \in Sites : StrayStore(i, v)
  \/ SetJmp
  \/ LongJmp
  \/ \E i \in 2 .. Depth : Unwind(i)

Spec == Init /\ [][Next]_vars

-----------------------------------------------------------------------------
(***************************************************************************)
(* What the properties rest on: how the program must be built for the      *)
(* scheme to work.  Under REG, r15 must reach instrumented code untouched: *)
(* only .init_array, main and .fini_array may be entered from code that    *)
(* uses r15, they must reload it, and nobody else may.  Under SEG and MEM  *)
(* the non-local jumps do not restore the pointer, so there must be none.  *)
(* The unwinder must be instrumented: its own entry stops the walk.        *)
(***************************************************************************)
Disciplined ==
  /\ Scheme = "REG" =>
       /\ \A f \in InitFns \cup FiniFns \cup {Main} : LoadsR15(f)
       /\ \A f, g \in Fns : <<f, g>> \in Calls => f \notin Clobbers
       /\ \A f, g \in Fns : <<f, g>> \in Calls \cup TailCalls => ~LoadsR15(g)
       /\ Crt \in Clobbers
  /\ Scheme # "REG" => SetJmps = {} /\ Handlers = {}
  /\ Handlers # {} => Prolog(Raise)

\* Type invariant.
TypeOK ==
  /\ frames \in Seq(Frames)
  /\ Depth >= 1 /\ frames[1].fn = Crt
  /\ shadow \in [Index -> Entries]
  /\ ssp \in Pointer \cup {Wild}
  /\ env \in [depth : Nat, rsp : 0 .. StackWords - 1, r15 : Pointer \cup {Wild}]
  /\ env = NoEnv \/ env.depth \in 2 .. Depth
  /\ phase \in {"init", "main", "fini"}
  /\ status \in Statuses

Width(f) == IF Prolog(f) THEN 1 ELSE 0

\* The pointer p, or what it was while frame i was the running one: the base
\* of its callee.
NextBase(fs, p, i) == IF i < Len(fs) THEN fs[i + 1].base ELSE p
PtrAt(i) == NextBase(frames, ssp, i)

\* Every live instrumented frame owns exactly one shadow entry, with its own
\* return address and slot, in call order, and the pointer is one past the
\* newest.  This is what calls, returns, tail calls, longjmp and the unwinder
\* must keep between them; stale entries above the pointer are allowed.
ShadowSync ==
  status = "run" =>
    \A i \in 2 .. Depth :
      /\ frames[i].base >= FirstEntry
      /\ PtrAt(i) = frames[i].base + Width(frames[i].fn)
      /\ Prolog(frames[i].fn) => shadow[frames[i].base] = [ra |-> frames[i].ra, sp |-> frames[i].slot]

\* Control leaves a frame through an altered return address only where the
\* pass emitted no epilog: in a function mayWriteMem() rejects, or in a REG
\* constructor, which runOnMachineFunction() leaves with a prolog only.
SafeReturn == status = "escaped" => ~Epilog(Top.fn)

\* An epilog stops the program only if the slot it guards was altered.
NoSpuriousTrap == status = "trap" => Top.mem # Top.ra

\* No instrumented sequence uses a pointer outside the shadow stack: the
\* shadow stack, as large as the machine stack, never overflows first, and r15
\* is never a foreign value.
NoBlindAccess == status \notin {"wildload", "wildstore", "overflow"}

\* Under REG, longjmp ends in its int3, or walks off the mapping, only when the
\* jump discards no instrumented frame, or only the one of entry 0, which the
\* walk skips; jumpto() never does when the unwinder is instrumented.
JumpTrapExact ==
  Scheme = "REG" /\ status \in {"int3", "segv"} =>
    IF Top.fn = Raise
      THEN ~Prolog(Raise)
      ELSE /\ env # NoEnv
           /\ \A i \in env.depth + 1 .. Depth : Prolog(frames[i].fn) => frames[i].base = 0

\* The inductive strengthening of the properties above, as operators on a
\* sequence of frames, a shadow stack and a pointer.
After(x) == x.base + Width(x.fn)

\* Each activation owns its entry and hands the pointer on to the next.
Owns(fs, sh, p) ==
  \A i \in 2 .. Len(fs) :
    /\ fs[i].ra \in Sites
    /\ fs[i].base >= FirstEntry
    /\ NextBase(fs, p, i) = After(fs[i])
    /\ Prolog(fs[i].fn) =>
         fs[i].base \in Index /\ sh[fs[i].base] = [ra |-> fs[i].ra, sp |-> fs[i].slot]

\* Newer activations lie deeper in the stack and higher in the shadow stack.
Ordered(fs, p) ==
  \A i \in 2 .. Len(fs) :
    /\ After(fs[i]) <= p
    /\ \A j \in i + 1 .. Len(fs) :
         After(fs[i]) <= fs[j].base /\ fs[j].slot < fs[i].slot - Frame[fs[i].fn]

\* An entry costs two words and a call at least two, so the room left in the
\* shadow stack is at least the room left in the stack.  A REG constructor may
\* leave its entry behind in a tail call, once.
Roomy(fs, p) ==
  /\ \A i \in 2 .. Len(fs) :
       /\ 2 * fs[i].base + fs[i].slot <= StackWords - 1
       /\ LoadsR15(fs[i].fn) => i = 2 /\ fs[i].base = 0 /\ fs[i].slot <= StackWords - 3
  /\ Scheme # "REG" => /\ NextBase(fs, p, 1) >= FirstEntry
                       /\ 2 * NextBase(fs, p, 1) + fs[1].slot <= StackWords + 1

\* What the walks rely on: an entry below an activation's was recorded at or
\* above its slot, and the entry after it, once pushed, below its rsp.
Beneath(sh, base, slot) ==
  \A k \in Index : k < base => sh[k].ra # Null /\ sh[k].sp >= slot
Walkable(fs, sh, p) ==
  Scheme = "REG" =>
    \A i \in 2 .. Len(fs) :
      /\ Beneath(sh, fs[i].base, fs[i].slot)
      /\ After(fs[i]) < p => /\ After(fs[i]) \in Index
                             /\ sh[After(fs[i])].ra # Null
                             /\ sh[After(fs[i])].sp < fs[i].slot - Frame[fs[i].fn]

Linked(fs, sh, p) == Owns(fs, sh, p) /\ Ordered(fs, p) /\ Roomy(fs, p) /\ Walkable(fs, sh, p)

\* A jmp_buf describes the frame that filled it.
EnvLive ==
  \/ env = NoEnv
  \/ /\ Scheme = "REG"
     /\ env.depth \in 2 .. Depth
     /\ env.rsp = Rsp(env.depth)
     /\ env.r15 = PtrAt(env.depth)

IInv == /\ TypeOK
        /\ Linked(frames, shadow, ssp)
        /\ EnvLive
        /\ SafeReturn /\ NoSpuriousTrap /\ NoBlindAccess /\ JumpTrapExact

\* Whatever the jumps did to the pointer, the entry of a live instrumented
\* frame is never overwritten and lies below the pointer.
LiveEntriesKept ==
  status = "run" =>
    \A i \in 2 .. Depth :
      Prolog(frames[i].fn) =>
        /\ frames[i].base \in Index /\ frames[i].base < PtrAt(i)
        /\ shadow[frames[i].base] = [ra |-> frames[i].ra, sp |-> frames[i].slot]

\* A prolog stores through a foreign r15 only in the first instrumented
\* function entered from foreign code that was itself called.
WildBlame ==
  status = "wildstore" =>
    \E i \in 2 .. Depth - 1 :
      /\ frames[i].fn \in Clobbers
      /\ \A j \in i + 1 .. Depth - 1 : ~Prolog(frames[j].fn)

-----------------------------------------------------------------------------
(* The activations above the start-up code, as ReturnGuard sees them. *)

ActOf(x)    == [guarded |-> Epilog(x.fn), ra |-> x.ra, mem |-> x.mem]
ActsOf(fs)  == [i \in 1 .. Len(fs) - 1 |-> ActOf(fs[i + 1])]
Activations == ActsOf(frames)

Outcome == CASE status = "run" -> "run"
             [] status = "trap" -> "stopped"
             [] status = "escaped" -> "diverted"
             [] OTHER -> "stuck"

Guard == INSTANCE ReturnGuard WITH Address <- Sites, acts <- Activations, out <- Outcome

\* The shadow stack keeps the promise of ReturnGuard: a checked activation
\* leaves through the address it was entered with or stops the program, and
\* it stops the program only if its slot was altered.
GuardSpec == Guard!GuardSpec
=============================================================================
