------------------------------- MODULE Codegen -------------------------------
(***************************************************************************)
(* From a machine function to the code that runs: the passes that          *)
(* X86PassConfig schedules, in their order, over functions of several      *)
(* blocks, and one activation of the code they leave.                      *)
(*                                                                         *)
(* EmittedCode checks the sequences of a prolog and an epilog; here each   *)
(* is one instruction, and the question is where the passes put it: which  *)
(* functions mayWriteMem() takes, which blocks isReturnBlock() takes, and  *)
(* what the other passes have put, or will put, in the same place.         *)
(*                                                                         *)
(* An instruction is one of                                                *)
(*   push, gstore, mixed, store, spill   stores: of a push, to a global,   *)
(*     to a global or through a pointer (two merged stores), through a     *)
(*     pointer, to the frame                                               *)
(*   call, cmp, jcc, jmp, ret, retn, ehret, tail, cctail   retn pops       *)
(*     arguments, ehret is EH_RETURN, cctail a conditional tail call       *)
(*   count, load, prolog, epilog, epilogjmp, check, endbr   what passes    *)
(*     insert; epilogjmp jumps to the return address itself                *)
(*   enter, sledret, sledtail   XRay's sleds                               *)
(*   aim   a function's store to its own return address: the retpoline     *)
(*     thunk's, and EH_RETURN's, which makes the slot hold the landing pad   *)
(***************************************************************************)
EXTENDS Integers, Sequences, FiniteSets, SequencesExt

CONSTANTS
  Fns,         \* the functions of the module
  Body,        \* their blocks: sequences of [ins, to], to the block a jump goes to
  Attrs,       \* their attributes: target-cpu, target-features and so on
  Ctors,       \* those in llvm.global_ctors
  Dtors,       \* those in llvm.global_dtors
  Main,
  Thunk,       \* the retpoline thunk, which the module does not have yet
  MaxFns,      \* functions in one module
  Builds,      \* combinations of ShadowStackFeatures.h and the command line
  DefaultCPU, DefaultFS   \* of the target machine

ASSUME BuildsAssumption ==
  Builds \subseteq [scheme : {"REG", "SEG", "MEM", "CON"}, mpk : BOOLEAN,
                    mpx : BOOLEAN, count : BOOLEAN, xray : BOOLEAN, ibt : BOOLEAN]

Program == {"push", "gstore", "mixed", "store", "call", "cmp", "jcc", "jmp",
            "ret", "retn", "ehret", "tail", "cctail", "aim"}
Returns == {"ret", "retn", "ehret", "tail", "cctail", "sledret", "sledtail"}
Back(block) == block.ins[Len(block.ins)]

\* What instruction selection hands over.  Only a conditional tail call may be
\* followed, by a jump; nothing jumps to the first block; the last one does not
\* fall through; only EH_RETURN aims, in a block without a branch.  A first block
\* without instructions is left out.
WellFormed(blocks) ==
  /\ blocks \in Seq([ins : Seq(Program), to : Nat]) /\ blocks # <<>>
  /\ \A b \in DOMAIN blocks :
       LET ins == blocks[b].ins IN
       /\ ins # <<>>
       /\ \A k \in 1 .. Len(ins) - 1 : ins[k] \in Returns => ins[k] = "cctail" /\ Back(blocks[b]) = "jmp"
       /\ \A k \in DOMAIN ins :
            /\ ins[k] \in {"jcc", "jmp"} => blocks[b].to \in 2 .. Len(blocks)
            /\ ins[k] = "aim" => /\ Back(blocks[b]) = "ehret"
                                /\ \A j \in DOMAIN ins : ins[j] \notin {"jcc", "jmp"}
  /\ Back(blocks[Len(blocks)]) \in {"jmp", "ret", "retn", "ehret", "tail"}

ASSUME FunctionsAssumption ==
  /\ Thunk \notin Fns /\ Ctors \cup Dtors \cup {Main} \subseteq Fns
  /\ \A f \in Fns : WellFormed(Body[f])

VARIABLES
  build,   \* the build
  todo,    \* the functions of the module still to be compiled
  current, \* the function being compiled and the passes left
  code,    \* the blocks of each function, as far as compiled
  got,     \* the subtarget each function is compiled for
  cache,   \* SubtargetMap: key to subtarget
  run      \* an activation of a compiled function
vars == <<build, todo, current, code, got, cache, run>>

None == [fn |-> "none"]
-----------------------------------------------------------------------------
(* The subtarget of a function. *)

\* No feature is called like a width attribute: a feature starts with its sign.
\* A width is "none" (no attribute), "bad" (not a number) or a number, never the
\* "default" that stands for the first two in a subtarget.
WidthNames == {"prefer-vector-width=", "required-vector-width="}
Features(fs) == fs \in Seq(STRING) /\ \A i \in DOMAIN fs : fs[i] \notin WidthNames
ASSUME AttrsAssumption ==
  /\ Features(DefaultFS)
  /\ \A f \in Fns : /\ Features(Attrs[f].fs) /\ Attrs[f].soft \in BOOLEAN
                    /\ "default" \notin {Attrs[f].prefer, Attrs[f].required}

\* A width attribute counts if it is there and a number.
IsWidth(w) == w \notin {"none", "bad"}

CPUOf(a) == IF a.cpu # "none" THEN a.cpu ELSE DefaultCPU
FSOf(a)  == IF a.fs # <<"none">> THEN a.fs ELSE DefaultFS

\* The features, and soft float behind them.
Fragments(a) == FSOf(a) \o (IF a.soft THEN <<"+soft-float">> ELSE <<>>)

\* The key: CPU, features, soft float, widths, one behind the other.  Nothing
\* separates the CPU from the features; it is an element of its own here because
\* a feature starts with its sign and no name of a CPU goes on with one of another
\* CPU's features.  The mutant leaves the widths out of it.
WidthKey(name, w) == IF IsWidth(w) THEN <<name, w>> ELSE <<>>
Widths(a) == WidthKey("prefer-vector-width=", a.prefer) \o WidthKey("required-vector-width=", a.required)
KeyNarrow(a) == <<CPUOf(a)>> \o Fragments(a)
Key(a) == <<CPUOf(a)>> \o Fragments(a) \o Widths(a)

\* The subtarget made for a key that is new: its features are cut out of the key.
\* resetTargetOptions(F) comes first, for the target machine it is made with to
\* have the code generation flags on the function in its options.
Width(w) == IF IsWidth(w) THEN w ELSE "default"
ResetTargetOptions(a) == a.flags
NewSubtarget(a) ==
  [args  |-> [cpu |-> CPUOf(a), fs |-> SubSeq(Key(a), 2, 1 + Len(Fragments(a))),
              prefer |-> Width(a.prefer), required |-> Width(a.required)],
   flags |-> ResetTargetOptions(a)]

\* A map with one more entry, or another value for a key it has.
Put(map, key, value) == [k \in DOMAIN map \cup {key} |-> IF k = key THEN value ELSE map[k]]

\* getSubtargetImpl().  A hit resets nothing: the flags are those of the function
\* that made the subtarget.
SubtargetMap(a) ==
  IF Key(a) \in DOMAIN cache THEN cache
  ELSE Put(cache, Key(a), NewSubtarget(a))
-----------------------------------------------------------------------------
(* Scanning machine code. *)

Stores == {"push", "gstore", "mixed", "store", "spill", "count", "aim"}

\* MachineBasicBlock::isReturnBlock().  The mutant overlooks tail calls.
IsReturnBlockNoTail(block) == Back(block) \in Returns \ {"tail", "cctail"}
IsReturnBlock(block) == Back(block) \in Returns
IsCall(i) == i \in {"call", "tail", "cctail"}

\* isPush().
IsPush(i) == i = "push"

\* isGlobalVarAccess(): one store to a global among the operands is enough.
IsGlobalVarAccess(i) == i \in {"gstore", "mixed"}

\* mayWriteMem().
MayWriteMem(blocks) ==
  \E b \in DOMAIN blocks : \E i \in ToSet(blocks[b].ins) :
     ~IsPush(i) /\ i \in Stores /\ ~IsGlobalVarAccess(i)

\* isGlobalConstructor(): in a module without llvm.global_ctors the destructors
\* are not looked at.
Module == todo \cup DOMAIN code
IsGlobalConstructor(f) == Ctors \cap Module # {} /\ f \in Ctors \cup Dtors
-----------------------------------------------------------------------------
(* The passes: from blocks to blocks. *)

AtEntry(blocks, i)    == [blocks EXCEPT ![1].ins = <<i>> \o @]
EachBlock(blocks, P(_)) == [b \in DOMAIN blocks |-> [blocks[b] EXCEPT !.ins = P(blocks[b])]]

\* In front of the last instruction.
BeforeBack(block, i)  == SubSeq(block.ins, 1, Len(block.ins) - 1) \o <<i, Back(block)>>

\* X86ShadowStackMPX: a check in front of each store that is not a push.
MPX(blocks) ==
  EachBlock(blocks, LAMBDA block :
    FlattenSeq([k \in DOMAIN block.ins |->
      IF block.ins[k] \in {"gstore", "mixed", "store", "spill", "prolog"}
      THEN <<"check", block.ins[k]>> ELSE <<block.ins[k]>>]))

\* Register allocation: a function that calls and stores keeps a value in its frame.
RegAlloc(blocks) ==
  IF \E b \in DOMAIN blocks : {"call", "store"} \subseteq ToSet(blocks[b].ins)
  THEN AtEntry(blocks, "spill") ELSE blocks

IndirectBranchTracking(blocks) == AtEntry(blocks, "endbr")
FunctionCount(blocks) == AtEntry(blocks, "count")

\* The epilog of a block.  REG leaves by itself unless the block ends in a call;
\* the mutant always does.
EpilogLeaves(block) == IF build.scheme = "REG" THEN "epilogjmp" ELSE "epilog"
Epilog(block) ==
  IF build.scheme = "REG" /\ ~IsCall(Back(block)) THEN "epilogjmp" ELSE "epilog"

\* An epilog in every return block.  The mutant puts one in every block.
EpilogsEverywhere(blocks) == EachBlock(blocks, LAMBDA block : BeforeBack(block, Epilog(block)))
Epilogs(blocks) ==
  EachBlock(blocks, LAMBDA block :
    IF IsReturnBlock(block) THEN BeforeBack(block, Epilog(block)) ELSE block.ins)

\* X86ShadowStackReg: prolog, then the load of r15 in front of it; a constructor
\* gets no epilog.
ShadowStackReg(f, blocks) ==
  LET unsafe == MayWriteMem(blocks)
      begun  == IF unsafe THEN AtEntry(blocks, "prolog") ELSE blocks
      loaded == IF IsGlobalConstructor(f) \/ f = Main THEN AtEntry(begun, "load") ELSE begun
  IN  IF unsafe /\ ~IsGlobalConstructor(f) THEN Epilogs(loaded) ELSE loaded

\* X86ShadowStackSeg, X86ShadowStackMem and X86ShadowStackCon.
ShadowStack(blocks) ==
  IF MayWriteMem(blocks) THEN Epilogs(AtEntry(blocks, "prolog")) ELSE blocks

\* XRay: sleds at the entry and around the returns and tail calls it knows.
XRay(blocks) ==
  AtEntry(EachBlock(blocks, LAMBDA block :
            [k \in DOMAIN block.ins |->
               IF block.ins[k] = "ret" THEN "sledret"
               ELSE IF block.ins[k] = "tail" THEN "sledtail" ELSE block.ins[k]]), "enter")

\* X86RetpolineThunks: the thunk's placeholder becomes the thunk.
RetpolineThunks(f, blocks) ==
  IF f = Thunk THEN <<[ins |-> <<"aim", "ret">>, to |-> 0]>> ELSE blocks

\* The passes of X86PassConfig that matter here, in the order of addPreRegAlloc(),
\* addPreEmitPass() and addPreEmitPass2(), and those scheduled between them.  The
\* mutant runs X86RetpolineThunks with the others of addPreEmitPass().
PipelineThunksFirst == <<"regalloc", "thunks", "shadow">>
Pipeline ==
  (IF build.mpx THEN <<"mpx">> ELSE <<>>) \o <<"regalloc">>
  \o (IF build.ibt THEN <<"ibt">> ELSE <<>>) \o (IF build.count THEN <<"count">> ELSE <<>>)
  \o <<"shadow">> \o (IF build.xray THEN <<"xray">> ELSE <<>>) \o <<"thunks">>
-----------------------------------------------------------------------------
(* Compiling. *)

Plain == [cpu |-> "none", fs |-> <<"none">>, soft |-> FALSE, prefer |-> "none", required |-> "none",
          flags |-> "none"]
AttrsOf(f) == IF f = Thunk THEN Plain ELSE Attrs[f]
BodyOf(f)  == IF f = Thunk THEN <<[ins |-> <<"ret">>, to |-> 0]>> ELSE Body[f]

Init ==
  /\ build \in Builds
  /\ todo \in {m \in SUBSET Fns : m # {} /\ Cardinality(m) <= MaxFns}
  /\ current = None
  /\ code = <<>> /\ got = <<>> /\ cache = <<>>
  /\ run = None

\* The next function: its subtarget is looked up, then it is selected.
Select(f) ==
  /\ current = None /\ f \in todo
  /\ todo' = todo \ {f}
  /\ cache' = SubtargetMap(AttrsOf(f))
  /\ got' = Put(got, f, cache'[Key(AttrsOf(f))])
  /\ code' = Put(code, f, BodyOf(f))
  /\ current' = [fn |-> f, passes |-> Pipeline]
  /\ UNCHANGED <<build, run>>

\* A pass that rewrites the current function.
Pass(name, blocks) ==
  /\ current # None /\ current.passes # <<>> /\ Head(current.passes) = name
  /\ code' = [code EXCEPT ![current.fn] = blocks]
  /\ current' = [current EXCEPT !.passes = Tail(@)]
  /\ UNCHANGED <<build, got, cache, run>>

Now == code[current.fn]
RunMPX      == Pass("mpx", MPX(Now)) /\ UNCHANGED todo
RunRegAlloc == Pass("regalloc", RegAlloc(Now)) /\ UNCHANGED todo
RunIBT      == Pass("ibt", IndirectBranchTracking(Now)) /\ UNCHANGED todo
RunCount    == Pass("count", FunctionCount(Now)) /\ UNCHANGED todo
RunShadow   ==
  /\ Pass("shadow", IF build.scheme = "REG" THEN ShadowStackReg(current.fn, Now) ELSE ShadowStack(Now))
  /\ UNCHANGED todo
RunXRay     == Pass("xray", XRay(Now)) /\ UNCHANGED todo

\* The first function that asks for retpolines adds the thunk to the module.
RunThunks   ==
  /\ Pass("thunks", RetpolineThunks(current.fn, Now))
  /\ todo' = IF "+retpoline" \in ToSet(got[current.fn].args.fs) /\ Thunk \notin DOMAIN code
             THEN todo \cup {Thunk} ELSE todo

Emit ==
  /\ current # None /\ current.passes = <<>>
  /\ current' = None
  /\ UNCHANGED <<build, todo, code, got, cache, run>>
-----------------------------------------------------------------------------
(* One activation of the code. *)

Ins  == code[run.fn][run.block].ins[run.k]
Block == code[run.fn][run.block]
Running == run # None /\ run.left = "no"

\* The activation starts with an undamaged return address.  `ahead' counts the
\* entries it has pushed and not popped, flags and want what a branch finds and
\* what the program computed, past (history) that it went on behind a conditional
\* tail call at the end of a block, odd what did not go as it was written.
Start(f) ==
  /\ run = None /\ current = None /\ todo = {} /\ f \in DOMAIN code
  /\ run' = [fn |-> f, block |-> 1, k |-> 1, ra |-> "good", by |-> "none", ahead |-> 0,
             flags |-> TRUE, want |-> TRUE, past |-> FALSE, left |-> "no",
             odd |-> IF build.ibt /\ code[f][1].ins[1] # "endbr" THEN {"entry"} ELSE {}]
  /\ UNCHANGED <<build, todo, current, code, got, cache>>

\* On to the next instruction, or into the block behind.
Onward(r) == IF r.k < Len(Block.ins) THEN [r EXCEPT !.k = @ + 1]
                                     ELSE [r EXCEPT !.block = @ + 1, !.k = 1]
Goto(r)   == [r EXCEPT !.block = Block.to, !.k = 1]
Step(r)   == run' = r /\ UNCHANGED <<build, todo, current, code, got, cache>>

\* Instructions that do nothing to what is modelled.
Quiet ==
  /\ Running /\ Ins \in {"push", "gstore", "spill", "load", "endbr", "enter"}
  /\ Step(Onward(run))

\* The counter is gs:[24]: only REG and SEG have a gs base.  Under REG the word is
\* in the page of the base, which no key guards; under SEG it is in the shadow
\* stack itself, and behind a prolog, which has closed the key again.
CounterOpen == build.scheme = "REG" \/ (build.scheme = "SEG" /\ ~build.mpk)
Count ==
  /\ Running /\ Ins = "count"
  /\ Step(IF CounterOpen THEN Onward(run) ELSE [run EXCEPT !.left = "fault"])

\* A store through a pointer, the function's own or a callee's, may hit the slot.
Write ==
  /\ Running /\ Ins \in {"store", "mixed", "call"}
  /\ \E hit \in BOOLEAN :
        Step(Onward(IF hit THEN [run EXCEPT !.ra = "bad", !.by = Ins] ELSE run))

Aim ==
  /\ Running /\ Ins = "aim"
  /\ Step(Onward([run EXCEPT !.ra = IF @ = "bad" THEN @ ELSE "aimed"]))

\* A check meets a program that stays off its shadow stack; the store of a prolog
\* does not.
Check ==
  /\ Running /\ Ins = "check"
  /\ Step(IF Block.ins[run.k + 1] = "prolog" THEN [run EXCEPT !.left = "refused"] ELSE Onward(run))

Compare ==
  /\ Running /\ Ins = "cmp"
  /\ \E c \in BOOLEAN : Step(Onward([run EXCEPT !.flags = c, !.want = c]))

Odd(r, what) == [r EXCEPT !.odd = @ \cup what]
Strayed == IF run.flags = run.want THEN {} ELSE {"branch"}

Branch ==
  /\ Running
  /\ \/ Ins = "jcc" /\ Step(Odd(IF run.flags THEN Goto(run) ELSE Onward(run), Strayed))
     \/ Ins = "jmp" /\ Step(Goto(run))

Prolog ==
  /\ Running /\ Ins = "prolog"
  /\ Step(Onward([run EXCEPT !.ahead = @ + 1]))

\* The entry compared is the function's own, or its caller's if that is popped;
\* then it may be the same address.  CON keeps its copy where it is.
Passes(same) ==
  IF build.scheme = "CON" THEN run.ra = "good"
  ELSE run.ra = "good" /\ (run.ahead = 1 \/ same)
Compared(c) ==
  [run EXCEPT !.flags = c, !.ahead = IF build.scheme = "CON" THEN @ ELSE @ - 1]

RunEpilog ==
  /\ Running /\ Ins \in {"epilog", "epilogjmp"}
  /\ \E c, same \in BOOLEAN :
       IF ~Passes(same) THEN Step([run EXCEPT !.left = "trap"])
       ELSE IF Ins = "epilog" THEN Step(Onward(Compared(c)))
       ELSE Step(Odd([Compared(c) EXCEPT !.left = "jmp"],
                     (IF Back(Block) = "retn" THEN {"args"} ELSE {})
                     \cup (IF Back(Block) = "sledret" THEN {"sled"} ELSE {})
                     \cup (IF IsCall(Back(Block)) THEN {"target"} ELSE {})))

Leave ==
  /\ Running /\ Ins \in Returns \ {"cctail"}
  /\ Step([run EXCEPT !.left = Ins])

LeaveIf ==
  /\ Running /\ Ins = "cctail"
  /\ Step(Odd(IF run.flags THEN [run EXCEPT !.left = Ins]
              ELSE Onward([run EXCEPT !.past = @ \/ run.k = Len(Block.ins)]), Strayed))

Next ==
  \/ \E f \in Fns \cup {Thunk} : Select(f) \/ Start(f)
  \/ RunMPX \/ RunRegAlloc \/ RunIBT \/ RunCount \/ RunShadow \/ RunXRay \/ RunThunks \/ Emit
  \/ Quiet \/ Count \/ Write \/ Aim \/ Check \/ Compare \/ Branch \/ Prolog \/ RunEpilog \/ Leave \/ LeaveIf

Spec == Init /\ [][Next]_vars
-----------------------------------------------------------------------------
(* Properties. *)

Instrumented(f) == "prolog" \in ToSet(code[f][1].ins)
NeverPops(f)    == build.scheme = "REG" /\ IsGlobalConstructor(f)
Stopped         == run # None /\ run.left \in {"trap", "refused", "fault"}
Left            == run # None /\ run.left # "no" /\ ~Stopped

\* The activation is leaving by a conditional tail call that another jump follows:
\* isReturnBlock() looks at the last instruction of a block only.
Overlooked == run.left = "cctail" /\ Back(Block) # "cctail"

\* An activation hands an altered return address on only if its function was
\* spared although a merged store or a callee could write through a pointer, is
\* a constructor under REG, or leaves where isReturnBlock() sees no return.
UnguardedBlame ==
  Left /\ run.ra = "bad" =>
    \/ ~Instrumented(run.fn) /\ run.by \in {"mixed", "call"}
    \/ NeverPops(run.fn)
    \/ Overlooked

\* The passes never stop a program that has done nothing wrong, with three
\* exceptions: EH_RETURN; the way past a conditional tail call that is the last
\* of its block, whose epilog has popped already; and the call counter, which
\* faults in every function under MEM and CON, and under SEG with a key.  That the
\* thunk, which aims its own return, is not one, and that no check meets a
\* prolog's store, is the order of the passes.
StopBlame ==
  Stopped /\ run.ra # "bad" =>
    CASE run.left = "trap"    -> \/ Back(Block) = "ehret"
                                 \/ run.ahead <= 0 /\ run.past
      [] run.left = "fault"   -> build.count /\ (build.scheme \in {"MEM", "CON"} \/ (build.scheme = "SEG" /\ build.mpk))
      [] run.left = "refused" -> FALSE

\* Every activation leaves the shadow stack pointer where it found it, except a
\* constructor under REG (one entry too many), one that leaves where
\* isReturnBlock() sees no return (the same), and one that has passed several
\* epilogs and found the same address each time.
BalanceBlame ==
  Left /\ build.scheme # "CON" /\ Instrumented(run.fn) =>
    \/ run.ahead = 0
    \/ run.ahead = 1 /\ (NeverPops(run.fn) \/ Overlooked)
    \/ run.ahead < 0 /\ run.past

\* What a finished activation did otherwise than it was written to, and the pass
\* to blame: a conditional tail call decides on flags its epilog has overwritten;
\* REG's jump to the return address leaves a callee's arguments on the stack and
\* XRay's exit sled unvisited, for instrumented functions that return and for
\* no other; and the landing pad of an indirect call is first only in functions
\* no other pass puts something in front of.
ShapeBlame ==
  Left =>
    /\ "target" \notin run.odd
    /\ "branch" \in run.odd =>
         Instrumented(run.fn) /\ (run.past \/ (run.left = "cctail" /\ ~Overlooked))
    /\ (run.odd \cap {"args", "sled"} # {}) <=> (run.left = "jmp" /\ Back(Block) \in {"retn", "sledret"})
    /\ run.left = "jmp" =>
         build.scheme = "REG" /\ Instrumented(run.fn) /\ ~NeverPops(run.fn) /\ ~IsCall(Back(Block))
    /\ "entry" \in run.odd =>
         \/ Instrumented(run.fn) \/ build.count \/ build.xray \/ run.fn = Thunk
         \/ build.scheme = "REG" /\ (IsGlobalConstructor(run.fn) \/ run.fn = Main)

\* What a function's attributes ask for, told without the key.
Asked(a) ==
  [cpu |-> CPUOf(a), fs |-> Fragments(a), prefer |-> Width(a.prefer), required |-> Width(a.required)]

\* Every function is compiled for the CPU, features and widths its own attributes
\* ask for, whatever was compiled before it, and shares its subtarget with the
\* functions that ask for the same.  Not so the code generation flags: by the
\* comment in getSubtargetImpl() the creation of a subtarget depends on those of
\* its function, but they are not in the key, and a function may be compiled for
\* a subtarget created under the flags of another one that asks for the same.
SubtargetBlame ==
  \A f \in DOMAIN got :
    LET alike == {g \in DOMAIN got : Asked(AttrsOf(g)) = Asked(AttrsOf(f))} IN
    /\ got[f].args = Asked(AttrsOf(f))
    /\ \A g \in alike : got[g] = got[f]
    /\ got[f].flags # AttrsOf(f).flags => \E g \in alike \ {f} : got[f].flags = AttrsOf(g).flags
=============================================================================
