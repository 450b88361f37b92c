# A TLA+ model of HexHive/ShadowStack

ShadowStack is a set of LLVM passes, a small C runtime and three rewritten
library routines (`setjmp`, `longjmp`, the unwinder's `jumpto`) that give
x86-64 programs a *shadow stack*: every function that may write memory stores
its return address a second time on entry, and compares the two before it
returns. This directory models the protocol those pieces follow, from the
choice of the functions to the bytes emitted and the end of the process, checks
it with TLC on small instances and proves the central results with TLAPS.

Paths below are relative to `src/Compiler-Impl/src/`.

## 1. Inventory

### Schemes

| name here | macro | pointer to the newest entry | entry |
|---|---|---|---|
| REG  | `SHADOW_STACK_REG` (the default) | register `r15`, reserved by the code generator | (return address, rsp) |
| PARR | `SHADOW_STACK_REG` + `SHADOW_STACK_PARR` | none: `[rsp + r15]`, `r15` is a constant distance | return address |
| SEG  | `SHADOW_STACK_SEG` | the word `gs:[0]` | (return address, rsp) |
| MEM  | `SHADOW_STACK_MEM_SCHEME` | the word at `SHADOW_STACK_PTR` | (return address, rsp) |
| CON  | `SHADOW_STACK_CON` | none: `[rsp + SHADOW_STACK_OFFSET]` | return address |

Each can be combined with `SHADOW_STACK_MPK` (a protection key makes the shadow
stack read-only outside prologs and epilogs) or `SHADOW_STACK_MPX` (stores are
checked against a bound).

### Components

| component | state | operations | what makes it correct | modules |
|---|---|---|---|---|
| Prologs and epilogs (`X86ShadowStack{Reg,Seg,Mem,Con}.cpp`) | none at compile time; the emitted code has registers, the stack, the shadow stack, PKRU | prolog, epilog, load of r15 | registers and pointer kept, comparison before every exit, key closed again | EmittedCode, EmittedCodeProofs |
| The minimal (non-parallel) stack of one thread | live frames, entries, pointer, a `jmp_buf` | call, return, tail call, setjmp, longjmp, throw, exit | stack and shadow stack in step; no exit through an altered address; no false alarm | MinimalStack, ReturnGuard, MinimalStackProofs, StacksProofs |
| The mirroring (parallel) stack of one thread: PARR, CON | live frames, the words at the mirror's distance, r15, a `jmp_buf` | as above | the mirror holds the address of every live frame although nothing is ever popped | MirrorStack, ReturnGuard, MirrorProofs |
| Which functions are instrumented and when (`mayWriteMem`, `isGlobalConstructor`, `isReturnBlock`, the pass order and the subtarget cache of `X86TargetMachine.cpp`, `X86FunctionCountPass.cpp`) | the module's functions and their blocks, the cache | one pass over one function | no activation escapes its epilog, none is stopped, the rest of the pipeline does not undo or trip over a pass | Codegen, CodegenProofs |
| Lowering and emission (`X86MCInstLower.cpp`) | bytes so far, the stack map tracker, pieces that will be rewritten | one machine instruction, the end of a block | what is patched at run time has the room, length and alignment the patcher expects | Emission, EmissionProofs |
| Runtime (`shadowstack/shadow_stack.c`) and pthread interposition (`pthread_create.c`) | mappings, gs base of each thread, the clave page | init, create, start, end, exit | each thread has its own shadow stack for as long as it needs it, and gives it back | ThreadLifecycle, LifecycleProofs |
| MPX (`X86ShadowStackMPX.cpp`, the first half of `shadow_stack.c`) | bnd0, the bound directory | check of a store, init | no check stops a program that stays off its shadow stack; entry functions find r15 | MpxGuard, MpxGuardProofs |
| MPX utilities (`mpxrt-utils.c`); driver and register tables (`CommonArgs.cpp`, `X86RegisterInfo.cpp`); example programs and pkey wrappers; scripts | | | | not modelled, see section 6 |

### How they interact

* The compiler decides per function (instrumented or not, constructor or not,
  `main` or not). Codegen models the decisions; they are constants of
  MinimalStack and MirrorStack. Conversely a prolog or an epilog is one
  instruction in Codegen and one step in the two stacks, and EmittedCode looks
  inside it. Both stacks implement the same abstract machine, ReturnGuard.
* The runtime's constructor `init_all()` runs before any constructor of the
  program and sets the gs base; under REG `main` and the constructors then load
  r15 from `gs:[16]`, and `thread_init()` from `gs:[8]`.
* `longjmp` and `jumpto` walk the shadow stack from `gs:[8]` by comparing the
  stack pointers recorded in the entries.
* The kernel interrupts any instruction to run a handler, which is an
  instrumented function on the same shadow stack.
* Threads share the address space: what one unmaps, `mmap` gives to another.

### Hard behaviours

Signals between the store of an entry and the move of the pointer; the walk of
the non-local jumps and its off-by-one at the first entry; frames without
entries (functions that store nothing, foreign code) between frames with
entries; constructors, which get a prolog and no epilog; foreign code that uses
r15 and calls back; mirrors, in which every stale word stays; passes that put
instructions where another pass expects its own; thread teardown that unmaps
before libc is done with the thread; the process's last thread; failing
`mmap()`. There is nothing to restart and no message to lose: the code has no
retry and no timeout. The complete list, by line, is under `hazards` in
`PROJECT.json`.

## 2. Plan

In this order, the most important behaviour first; all of it is done.

1. **MinimalStack** + **ReturnGuard**, the refinement and their proofs.
2. **EmittedCode**: that what MinimalStack takes as one step is one, and where
   a signal makes a difference.
3. **ThreadLifecycle** for REG, MEM and CON; liveness of the teardown; proofs
   for all three schemes.
4. **MpxGuard**, with a theorem for each of its invariants.
5. **MirrorStack**: PARR and CON as an abstract machine, its refinement of
   ReturnGuard, and proofs.
6. **Codegen**: the passes in their order, and one activation of the result.
7. **Emission**: what X86MCInstLower.cpp makes of machine instructions.
8. Proofs for Emission, for Codegen, with functions of any shape, and for
   EmittedCode, whose properties the other two stacks take for granted.

What would come next: SEG threads, once their initialisation compiles, and a
refinement from EmittedCode's instructions to the steps of MinimalStack for
whole call stacks.

## 3. Modules

### ReturnGuard.tla

What a shadow stack promises, without one: a list of activations
`[guarded, ra, mem]` and an outcome. A return leaves an intact activation;
`Stop` needs a guarded activation whose slot was altered, `Divert` an unguarded
one.

### MinimalStack.tla

One thread under REG, SEG or MEM. One step is one function entry, exit or jump.

| variable | in the program |
|---|---|
| `frames` | the machine stack: function, slot of the return address, its content `mem`; `ra` and `base` are history (the content at entry, the pointer before the prolog) |
| `shadow` | the entries, also the stale ones above the pointer, which the walks can meet |
| `ssp` | r15, `gs:[0]` or the word at `SHADOW_STACK_PTR`; `Wild` when r15 belongs to foreign code |
| `env` | one `jmp_buf`; dropped when its frame is gone, as C requires |
| `phase` | which array of functions the start-up code is running |
| `status` | why the thread stopped: `trap` (epilog), `int3` (walk), `wildload`/`wildstore`/`overflow` |

Addresses count 8-byte words and an entry counts as one index, because the
room argument (an entry takes two words of shadow stack, the call that pushed
it at least two words of stack) is the only place where sizes matter.
`Enter` is prolog and r15 load in the order of the code; `Checked` and `Popped`
the epilog; `WalkEnd` the loop of `longjmp` and `jumpto`. The program is a set
of constants: who calls whom, who is instrumented (`Unsafe`), who loads r15,
who may clobber it, who has a handler, frame sizes.

`Disciplined` names what the scheme needs from the program: under REG r15
reaches instrumented code untouched, entry points reload it and nothing else
does; under SEG and MEM there are no non-local jumps; the unwinder is itself
instrumented. It is a predicate on constants, so it is a hypothesis of the
theorems, and runs outside it show what then happens.

### MirrorStack.tla

The same thread under PARR or CON. There is no pointer: a prolog stores the
return address at a constant distance from its slot, and an epilog compares.

| variable | in the program |
|---|---|
| `frames` | the machine stack, as above; `reg` is history (r15 behind the load) |
| `mirror` | the words at the mirror's distance, one per stack word, never cleared |
| `r15` | PARR: the distance, or what foreign code or `thread_init()` left there |
| `thread`, `mapped` | main or another thread; whether the mirror is the thread's own, another mapping's (CON's main thread accepts any address) or nothing |
| `env`, `status` | as above |

`longjmp()` and `jumpto()` are modelled as they are: they walk pairs of words
from `gs:[8]`, which a mirror does not have. `Reached` collects the words a walk
may see, because how a return address compares with a stack pointer depends on
where the code is mapped. A mirror that is shared or missing guards nothing;
the refinement mapping says so (`ActOf`, `Outcome`).

### Codegen.tla

A module of a few functions goes through `X86PassConfig`'s passes, one function
at a time, each pass one action: the subtarget lookup, function counting, REG's,
SEG's, MEM's or CON's pass, MPX, XRay, endbr insertion, the retpoline thunk.
A function is a sequence of blocks, a block a sequence of abstract
instructions (`store`, `gstore`, `call`, `ret`, `cctail`, ...), one kind per
case the predicates tell apart. `WellFormed` says what instruction selection may
hand over: only a conditional tail call is followed, by a jump; nothing jumps to
the entry block; the last block does not fall through (a function that ends in a
call that never returns is left out); only EH_RETURN writes the slot it returns
through (`aim`). Then `run` executes one activation of a compiled function: `ra`
is its return address (`good`, `bad`, or `aimed` by EH_RETURN and the thunk),
`ahead` how far the shadow stack pointer is off, `odd` what it did otherwise than
the source says, and `past`, a history variable, whether it went on behind a
conditional tail call that ends its block, so past that block's epilog. The
passes LLVM brings along are there only as far as they put something in the
place a shadow stack pass looks at.

A subtarget is what it was created with: CPU, features and widths (`args`), and
the code generation flags that `resetTargetOptions(F)` has just put into the
target machine's options (`flags`). `getSubtargetImpl()` does that on a miss
only, and its key has none of the flags, although its comment says that
"creation will depend on ... the code generation flags on the function"
(`X86TargetMachine.cpp:301-303`). So a function may be compiled for a subtarget
that was created under the flags of another one, the first compiled of those that
ask for the same; `SubtargetBlame` says that this is all that can be wrong with
it. What LLVM's `X86Subtarget` makes of the flags is not in this repository.

The call counter's word, `gs:[24]`, is in the page of the gs base under REG, and
in the shadow stack under SEG, at the place of the first entry's stack pointer.
The increment comes behind the prolog: with a key, which the prolog has closed
again, it faults (`CounterOpen`), and without one it alters that entry's second
word, which no epilog reads. Builds with the counter are not among those the stack
modules look at.

### Emission.tla

One function's machine instructions become bytes; only sizes count. `out` has
the position and `StackMapShadowTracker`'s three fields, `maps` the stack maps
recorded, `whole` the pieces a patcher or the linker rewrites, `lands` the
places where control may arrive, `epilogs` the Windows epilogs. One action per
`Lower...` method and one for the instructions that go through `Lower()`. Of
`Lower()`'s cases one instruction stands for a family: operand widths, and of an
address the scale, index and segment, are not told apart (`ShortMove`,
`IncDec`), and the label that the `GOT` form of `ADD32ri` puts in front of itself,
which moves no byte and where nothing arrives, is left out.

### EmittedCode.tla

One activation, instruction by instruction, on a small x86 (eight registers,
word memory, one flag, PKRU). `Prolog(v)`, `Epilog(v)` and `Code(v)` are the
sequences as emitted for a scheme, with or without pkeys, for a return or a
tail call, as tuples; `Exec` runs one. The windows in which a signal matters are
read off those tuples: `Exposed` from the instruction that opens one to the one
that closes it, `ZeroRsp` at the `cmove` into rsp, `Unloaded` before the load of
r15. Where stack, shadow stack and clave lie is a parameter
(`LayoutAssumption`), and so is the room on the stack (`RoomAssumption`). A signal may arrive before any
instruction: the kernel leaves the red zone, saves the context, sets PKRU to
its initial value and runs a handler with the same prolog and epilog. The
function's own code is one step that may alter its return address.

### ThreadLifecycle.tla

`init_all()`, `pthread_create()`, `thread_init()`, `pthread_exit()`, thread
cancellation, the end of a thread in libc and `exit()`, over regions that
`mmap` hands out. Each thread goes through `clave`, `shadow`, `run`, `unmap`,
`unclave`, `late`, `dead`; in `run`, and in `late` for the threads in `Late`
(destructors of thread-specific data, cleanup handlers), it pushes and pops
entries that carry its name. A push or pop is one step here (EmittedCode is
about its inside). Every call to `mmap` may fail when `Failing` is set, or when
no region is free. The program's own mappings (`Other`) come and go (`OtherMap`,
`OtherUnmap`), and need not fill their region: an access there may find memory
or fault, and what a comparison says of it is open.

Stacks have contents: a call leaves its return address in the thread's stack
(`Address`), a prolog a copy at its `Target`. A prolog that does not store in its
own shadow stack may have hit somebody else's stack (`Victims`). Which word it
hits is then open, since the two threads' depths have nothing to do with each
other: a return address that will be compared, a word nobody reads again, or a
local variable or an address that is returned to unchecked, after which the
thread is lost (`process.how` is `"astray"`; what it does from there on is not
followed). Regions have the size of a stack and the offset is a whole number of
them, so that a stray store hits one mapping and never the edge between two.

`exit()` is one step: other threads that run while `.fini_array` does are left
out.

A run looks at several schemes together: `scheme` is chosen in `Init` and never
changes. `Runtime(t)` is the part of a thread's steps that the runtime takes on
its own; `FairSpec` is about them.

SEG threads are not modelled: `init_shadow_stack_seg()` in `pthread_create.c`
uses `getmem` and `MAP_FAIED`, which that file does not define, so it does not
compile.

### MpxGuard.tla

`SHADOW_STACK_MPX` from the constructor to the destructor: the bound directory
(`l1`), `BNDCFGU.enable` (`enabled`), `bnd0`, then constructors and `main`,
which push and pop entries and access memory. `Rotation`, `Upper` and `Refuses`
are the arithmetic of the pass and of `bndmk`, modulo the size of the address
space. An instruction is the case of the pass's switch that lists it, the place
of its memory operand and `mayStore()`; the pass checks only what stores, so of
the second case nothing is ever checked. Every call and return resets `bnd0`
while BNDPRESERVE is 0, as the processor does. `StoreClave` chooses whether
`mpxrt_prepare()` was inlined and whether the runtime is itself compiled with
the pass, since the build decides neither.

Under REG `getpage()` puts the clave and the shadow stack at the same address,
so `word` is both: `Layout` is what `init_shadow_stack_reg()` writes last, and
entries start at word 0.

### MCStacks.tla

Two programs outside MinimalStack's discipline in one run, each an `INSTANCE`
of MinimalStack: non-local jumps under SEG, callbacks from foreign code under
REG.

## 4. Runs

| run | instance | shows |
|---|---|---|
| `reg_core` | MinimalStack: REG, 7 functions, 10 stack words, 2 return addresses | stack and shadow stack in step, no exit through an altered address, when a jump traps; the proofs' `IInv`; the refinement of ReturnGuard, which leaves no room for a false alarm |
| `stacks` | MCStacks: 10 stack words, SEG with jumps, REG with foreign callbacks | `LiveEntriesKept`: the pointer is left too high, yet no live entry is lost; `WildBlame`: which function stores through a foreign r15 |
| `mirror` | MirrorStack: PARR and CON, main and other threads, 8 stack words | `MirrorSync`, `BlindBlame`, `NoFrameSkipped` (no non-local jump arrives), the refinement of ReturnGuard |
| `code_signals` | EmittedCode: all five schemes, with and without pkeys, 2 signals, nested or in turn | registers, pointer and key kept; exactly where a signal is fatal |
| `threads` | ThreadLifecycle: REG and MEM, 2 threads, 6 regions, failing `mmap`, late code in the main thread | `LateBlame`: entries and return addresses are lost only after late code; `FaultBlame` |
| `reclaim` | ThreadLifecycle: REG, MEM and CON, 2 threads, 5 regions, failing `mmap`, late code in the other thread, `FairSpec` | `Reclaimed`: a leaving thread gives its mappings back or the process ends; `MirrorBlame`: under CON a main thread whose shadow stack is not at the offset, and the thread whose stack is there, are the only ones to suffer |
| `mpx_setup` | MpxGuard: REG, SEG, MEM with MPX, three stack sizes, with and without support | the range refused, that nobody is refused, when the clave is intact |
| `codegen` | Codegen: 80 builds (four schemes, pkeys, call counter, XRay, endbr; MPX with REG only), 10 function shapes, 3 functions in a module | who escapes an epilog, who is stopped, where the pointer ends up off, what the passes do to each other; the subtarget of every function |
| `emission` | Emission: 3 instructions, 32 and 64 bit | stack map shadows, lengths and alignment of sleds, arguments of event sleds, short forms, Windows epilogs |
| `code_scratch` | violation of `ResultsKept` | a pkeys epilog pushes onto the slot that keeps r11 |
| `con_teardown` | violation of `FindsStack` | thread teardown under CON reads through a gs base nobody set |
| `mpx_preserve` | violation of `BoundsKept` | the documented default of BNDPRESERVE is 1; it is 0 and the bound is lost |

Properties whose name ends in `Blame` say exactly who can cause something bad;
what they exclude is the good news, what they list is a limit of the code.

### Bounds, and why they are enough

* MinimalStack: 10 words of stack hold four activations, so that a jump can
  discard two frames and leave two, one with and one without an entry in
  between; the call graph has direct and mutual recursion, a function that
  stores nothing, a constructor with a tail call, the unwinder, foreign code.
  The machine stack bounds everything else: the overflow of the shadow stack is
  reachable if the code let it (a mutant that halves the mapping is caught). The
  theorems cover every size.
* MirrorStack: 8 words hold libc and three more activations: a caller, a frame
  that is left and used again, and what runs below it. The theorems cover every
  size and program.
* EmittedCode: two signals cover an interrupted handler and two interruptions
  of the same activation; a third adds no new pair of positions. The red zone
  is 3 words instead of 16, which is as deep as the emitted code reaches below
  rsp. A tail call that reads r11 in a pkeys build is excluded from
  `code_signals` and is the subject of `code_scratch`.
* ThreadLifecycle: two threads suffice for one to reuse what the other
  unmapped; six regions leave room for two stacks, two claves, two shadow
  stacks and make exhaustion reachable through the program's own mappings. All
  regions except the fixed one are interchangeable under REG and MEM, hence
  the symmetry in `threads`, where the main thread is the one with late code:
  with two threads, only what it unmaps can become the other's. `reclaim` checks
  liveness and CON, where a region's mirror matters, and uses no symmetry, with
  one region and one nested call less; late code in the other thread shows there
  that nothing undoes a teardown. Its mirrors form a cycle, so that every region
  may be some stack's mirror: the main thread's prologs hit the other thread's
  stack, the program's mappings and nothing at all. The invariants of both runs
  are also covered by theorems without bounds, which a third thread needs: under
  REG only then can a late prolog hit a stack.
* MpxGuard: 40 addresses, stack sizes below, at and above PRACTICAL_STACK_SIZE,
  calls nested three deep: the second entry is the one that reaches the word
  r15 is loaded from, the third shows that nothing new happens beyond it. The
  theorems cover every space and size.
* Codegen: two functions in a module are one whose subtarget is in the cache
  when the other's is looked up, a third may share it or not; two of the shapes
  ask for the same subtarget with different code generation flags. The
  compilation of one function does not look at another's code. The shapes cover every predicate's cases: no store, stores
  it spares, stores of every kind, each terminator, a loop, conditional tail calls at
  the end of a block and in the middle, constructors, destructors, `main`. All
  five properties are also covered by theorems without bounds.
* Emission: three instructions are a stack map, something emitted past it, and
  what follows; shadows of 4 and 20 bytes are shorter and longer than a sled;
  a patch point of 5 bytes is all nops, one of 13 just long enough for an
  indirect call through an extended register. Samples have, of every form
  `Lower()` knows, one that matches and the registers that almost do.

`CHECK_DEADLOCK FALSE` is set everywhere: a program ends, a compilation is
done, and a stopped process takes no step.

### Fairness

Only `reclaim` assumes any: weak fairness of `Runtime(t)` for each thread, the
steps `MapClave`, `MapShadow`, `UnmapShadow`, `UnmapClave`. They are the code of
`shadow_stack.c` and `pthread_create.c` between the thread's start and the
program's code, and between the program's code and libc's; they take no lock,
test no condition another thread could change and loop nowhere, so that a
thread the kernel schedules gets through them. Nothing is assumed of the
program: it need not return, call or end. `Reclaimed` would fail without the
assumption, and its mutant, a teardown that keeps the clave, fails with it.

## 5. Proofs

`MinimalStackProofs.tla` proves, for every program, stack size and return
address set, and for REG, SEG and MEM alike:

| theorem | statement |
|---|---|
| `TypeCorrect` | `Spec => []TypeOK`, without `Disciplined` |
| `SyncHolds` | `... []ShadowSync` |
| `SafeReturnHolds` | `... []SafeReturn` |
| `NoSpuriousTrapHolds` | `... []NoSpuriousTrap` |
| `NoBlindAccessHolds` | `... []NoBlindAccess` |
| `JumpTrapExactHolds` | `... []JumpTrapExact` |
| `Implements` | `Disciplined => (Spec => GuardSpec)` |

They rest on `ProgramAssumption` (what any x86-64 program satisfies: aligned
calls, the start-up code is not called) and on the hypothesis `Disciplined`;
`Invariance` states the inductive invariant.

`ShadowSync` is not inductive: that the pointer has room needs a count of
words, and that the walk of `longjmp` ends at the right entry needs the
recorded stack pointers to be ordered. `IInv` therefore adds, as operators on a
frame sequence, a shadow stack and a pointer: `Owns` (each activation owns its
entry and hands the pointer on), `Ordered` (newer is deeper in the stack and
higher in the shadow stack), `Roomy` (twice the index plus the slot never
exceeds the stack), `Walkable` (every entry below an activation's was recorded
at or above its slot, the next one below its rsp) and `EnvLive` (a `jmp_buf`
describes its frame). One lemma each shows that pushing a frame, dropping
frames, and storing above the pointer preserve them; `Invariance` applies them
action by action. `Implements` uses the invariant where the abstract step has a
guard: `Stop` needs the slot altered, `Divert` an unguarded activation.

The last part of `MinimalStackProofs.tla` proves the two properties that matter
when the program does not keep the discipline, from the same assumption on the
program but no discipline. `LiveEntriesKeptHolds`
(`Scheme # "REG"`): the jumps of SEG and MEM leave the pointer alone while they
discard frames, so it is only ever too high; `KeptInv` says that what a live
frame left of the pointer is at or below everything pushed since, so the next
prolog writes above it. `WildBlameHolds` (REG, where .init_array, main and
.fini_array reload r15): `TaintInv` says that r15 is foreign while a frame
runs, at its call, or in a `jmp_buf` it filled, only if foreign code lies below
it with no prolog in between, and never in what the start-up code called.
Without the reload the property is false: the first prolog of main stores
through libc's r15. `StacksProofs.tla` carries both theorems to run
`stacks` itself: `LiveEntriesKept` and `WildBlame` of MCStacks hold for every
even stack size and every set of return addresses, every hypothesis being
discharged from `StacksAssumption`, which TLC evaluates.

`MirrorProofs.tla` proves, for every program, stack size and thread under PARR
and CON: `MirrorSyncHolds`, `BlindBlameHolds`, `NoFrameSkippedHolds`, and
`Implements` (`Spec => GuardSpec`). There is no discipline to assume: the
hypothesis is `ProgramAssumption` alone, with the alignment of frames, on which
`NoFrameSkipped` rests, since it makes every second word of the mirror stay zero
(`Gaps`) so that a walk of two-word entries meets a zero. The invariant `IInv`
has `Stacked` (slots are disjoint, so a prolog below overwrites no live word),
`Chained` and `Blamed` (who has the right r15, and which foreign caller is to
blame where it is wrong), `Ready` (a frame whose prolog ran did reach its
mirror, so its epilog will), `Kept` (its word is there) and `Gaps`. `MirrorSync`
alone is not inductive: without `Stacked` a call may hit a live word, without
`Chained` an epilog may look elsewhere than the prolog did.

`LifecycleProofs.tla` proves `LateBlameHolds`, `FaultBlameHolds` (REG and MEM)
and `MirrorBlameHolds` (CON), for every number of threads and regions, every
nesting of calls, wherever `mmap()` places a mapping and whichever call fails.
`LInv` says of each thread what it has been through (`Phase`), which mappings
are its own in that phase (`Holds`) and, as long as nobody has run late code,
that the entries of its live calls are its own unless it strays (`Mine`, in
`Intact`), and that nobody else has written into its stack unless it lies where
the stray thread stores (`Clean`, `Hit`); `Alone` says that under MEM only the main thread ever gets a shadow
stack. A thread strays if it is CON's main thread and its shadow stack is not at
the offset. The argument is rely-guarantee: a step of one thread maps a free
region or unmaps one of its own (`Remaps`), which leaves alone what another
thread holds (`Spared`), so the others' parts carry over (`OthersKeep`) and only
the thread's own part is to be shown. A stray main thread may hurt the thread
whose stack is at its offset: its epilogs stop it, or it returns to a wrong
address. That it hurts no third one rests on the offset being a constant, and not
0: two stacks have two mirrors, and a thread's shadow stack is its stack's
(`Mirror` is injective, and nothing is its own mirror, in `LifecycleAssumption`).
None of the three properties is inductive: they need to know whose region a
target is, and that in turn what each thread has unmapped. Two more theorems
follow from the same invariant. `GivenBackHolds` is the safety half of
`Reclaimed`: a thread past its two `munmap()`s holds neither a shadow stack nor a
clave (`Owned`: it never has more than one of each). `OnlyOwnerHolds` is an
action property: no step of one thread unmaps another's shadow stack or clave,
and none writes into another's shadow stack or stack but those the other
properties name.

`MpxGuardProofs.tla` proves each invariant of `mpx_setup` for every address
space, placement of the shadow stack and stack size that `SpaceAssumption` and
`SizeAssumption` allow (the shadow stack fits above SHADOW_STACK_PTR; the
refused range does not wrap; PRACTICAL_STACK_SIZE is not 0, without which the
first word of the clave would be refused). `RotatedValue` resolves the modulo,
`RefusedRange` reads the range off it, and `GInv` adds to `NeverRefused` what a
step needs: `bnd0` is either flushed or as made, and flushed whenever program
code runs with MPX enabled. `DInv` follows the bound directory through the
set-up. `ClaveExactHolds` has the hypothesis `Roomy` (calls nested as deep as
the program's fit the stack, which is what separates a fault of the layout from
an overflow); `CInv` says that the pointer counts the calls in progress and
that the word r15 is loaded from is the layout's or a return address.

`EmissionProofs.tla` proves every invariant of `emission`, for functions of any
length and for stack maps and patch points of any size. The actions have one
shape: `Moves` says what a step may do to the bytes, the places where control
arrives, the stack maps, the epilogs and the pieces, one lemma shows of each
lowering that it is one (`MovesSled`, `MovesPATCHPOINT`, ...), and everything
about the invariant uses `Moves` alone. `EInvHolds` is that invariant:
`MapsFit` (a stack map's bytes end inside the code or the room still owed),
`Padded` (nothing is owed at the end), `Passed` and `Ahead` (a place is behind
the code unless it is a hop's or a sled's target, which the properties name),
`EpilogsPassed`. `ShadowBlame` is not inductive without them: whether a place
falls inside a stack map's bytes depends on how many the tracker still owes,
and a lowering that emits past the tracker breaks exactly that.
`PiecesExact` rests on lemmas about pads of nops, proved by induction over the
naturals in set form (`NatSet`), since the library's rule takes an operator.
`LowerKeepsMeaning` is about `Lower()` alone: every well formed machine
instruction keeps its verb and its operands and gets no longer, whatever its
registers; `LowerFaithfulHolds` carries it into every function, where
`SamplesAssumption` says that instructions are well formed, as LLVM's tables
make them. `SledExact` follows the moves of an event sled with its operands in
any registers: the arguments arrive exactly if no operand's register has been
filled by an earlier move (`Overtaken`), and every register is put back.

`CodegenProofs.tla` proves `SubtargetBlameHolds` for every module, every set of
attributes and every order of compilation. `KeyExact` shows that two requests
with the same key ask for the same CPU, features and widths, although the key has
neither the length of the features nor a placeholder for a missing width: it is
the names of the width attributes that tell them apart, so that no feature may be
called like one (`AttrsAssumption`; features begin with + or -). `KeyComplete` is
the converse. `CacheInv`, that a cached subtarget was made for some compiled
function with that key, is then inductive; of the flags it follows only that they
are those of that function.
The model takes CPU and features as separate items of the key; the
code puts them next to each other, which the sign of the first feature makes
readable.

The other four are `UnguardedBlameHolds`, `StopBlameHolds`, `BalanceBlameHolds`
and `ShapeBlameHolds`, for every `WellFormed` function (any number of blocks and
instructions, any branches), every module of such functions and every set of
passes. The argument has two halves, and the invariant `RInv` two parts.

1. *The passes.* `CodeInv` says what the current function is like in front of
   each pass still to run (`Stage`: `Raw` code, then, where endbr insertion has
   run, its landing pad first, then `Compiled` code), and that every other
   function is `Compiled`: `Guarded`, with exactly one prolog, nothing but the
   load of r15 and XRay's sled in front of it, and an epilog in front of the last
   instruction of a block exactly if that block is a return block (and none at all
   in a constructor under REG); or `Spared`, with neither and without a store that could hit the slot. Most passes only put
   something in front of something, which `Weaves` says once and for all; each
   pass then has a lemma (`RawMPX`, `ShadowCompiles`, `XRayCompiles`,
   `ThunksCompile`, ...) and `PassKeeps` collects them along the pipeline. This is
   where the order matters: a thunk that came earlier would get an epilog, and MPX's checks would
   meet a prolog's store.
2. *The activation.* `RunInv` says, of an activation in compiled code, that it is
   somewhere (`Places`), who can have altered its slot (`Slot`), what it has pushed
   and what its flags are worth in terms of having passed the prolog and an epilog
   (`Entries`), and what it did oddly so far (`Odds`); and of one that ended, the
   four properties in terms of the code (`Ended`). One lemma per action of `run`.

No Blame property is inductive: that a return address has been compared when a
block leaves depends on where its epilog is, and that the pointer is back where it
was on there being no other prolog and no second epilog on the way, which is what
`past` is about. `FlattenSeq`, which MPX is modelled with, is defined by
recursion; `FlattenIs` gets at its value through the recursive function inside it.

`EmittedCodeProofs.tla` proves every invariant of `code_signals`, for every
variant of `Variant`, every layout that
`LayoutAssumption` allows, any number of signals and any depth of handlers
(`RoomAssumption`: the stack does not run out; each level needs the red zone,
a slot and the words a sequence uses below it). The run can only
show it for handlers nested twice. The argument has three parts.

1. *A symbolic execution.* A note `a` says what each register holds in terms of
   what the caller left (`Want(r, d)`), of the pointer (`Ptr(d)`), or of the
   comparison (`Old`, `Now`, `Diff`, `Choice`, `Sure`), what the three words
   below rsp hold, how far the pointer has moved, whether the key is open. For
   each use of an instruction there is a rule from one note to the next, such
   as `RPush` or `RProbe`. `Annotated` shows that the rules
   lead through `Code(v)` for every variant, part by part: load of r15, prolog,
   body, epilog, last instruction. That is where wrong scratch registers or a
   missing restore would show, and where the tail call that reads r11
   (`Clobbers`) has to give up on its result.
2. *Soundness.* `Acts` says what a note means of the machine's registers, memory,
   flag and PKRU, for one activation (its slot, its pointer, its nesting level,
   and what has gone wrong so far). `SoundStep` shows that `Exec` leads from the
   meaning of one note to that of the next, and writes nothing but the
   activation's own words and its entry.
3. *Nesting.* `IInv` has one such activation per level (`Nested`): each is
   as its note says (`Standing`), a handler's frame lies below the words and
   its entries above the entries that the levels under it still need (`Under`),
   and a level interrupted while its entry was exposed is marked
   (`Interrupted`). A signal pushes a level, `rt_sigreturn` pops one, a step changes
   the innermost, and each keeps the others' meaning.

No property of `code_signals` is inductive: that a comparison succeeds depends
on what the prolog stored, and that this is still there depends on where each
handler since then has worked. `ResultsKeptHolds` has the hypothesis that no
variant `Clobbers`; `code_scratch` shows what happens to one that does.

### Only model-checked

* The liveness property `Reclaimed`: that a thread gets past its two `munmap()`s
  at all is a matter of fairness, which is beyond the prover. What it has given
  back by then is `GivenBackHolds`.

## 6. Not modelled, and why

* Stores by another thread into a return address, other than those of stray
  prologs (ThreadLifecycle), and with them the window between the two reads of
  `[rsp]` in `checkRA()`: a store is the function's own.
* `checkRANew`, `checkRAJMP`, `checkRASilence`: no caller.
* Signal masks, alternate signal stacks; C++ destructors run by the unwinder's
  first phase (they are ordinary calls).
* What a function makes of rax and r10 on entry (a variadic call's vector count,
  the static chain). `ArgsKept` says which prologs overwrite them; what the
  function then does is its own code.
* Programs outside the discipline beyond those of `stacks`. Three such cases
  follow from the code directly: a constructor run by `dlopen()` below
  instrumented functions loads `gs:[16]`, under REG the base of the shadow
  stack, and its prolog overwrites the first live entries; the functions of
  `llvm.global_dtors` in a module without `llvm.global_ctors` are not taken for
  entry points (`IsGlobalConstructor` of Codegen) and run at exit with libc's r15;
  and under SEG the
  unwinder never stores `gs:[0]`, so that the pointer stays too high after an
  exception (`LiveEntriesKept` shows that this costs no entry).
* The #BR handler of the MPX runtime: its installation is commented out.
* Threads under MPX: `pthread_create.c` calls `mpxrt_prepare()`, which is static
  in `shadow_stack.c`, so that combination does not link. SEG threads:
  `init_shadow_stack_seg()` in `pthread_create.c` does not compile.
* `mpxrt-utils.c`: environment options and log files, carried from GCC's
  libmpx. Option parsing and printing, with no effect on the protocol but the
  default of BNDPRESERVE, which MpxGuard has.
* `CommonArgs.cpp`: command line options to arguments of the compiler and the
  linker; which runtimes are linked is taken as done.
* `X86RegisterInfo.cpp`: register tables and frame index arithmetic. Its one
  changed line, r15 reserved, is an assumption of MinimalStack and MirrorStack
  (`Clobbers` are the functions compiled without it).
* In `X86MCInstLower.cpp`: operands to symbols and fixups, the comments on
  shuffle constants, the printing of SEH directives. They move no byte.
* The FreeBSD branches, the example programs, the pkey system call wrappers, the
  scripts.
