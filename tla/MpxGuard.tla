------------------------------ MODULE MpxGuard ------------------------------
(***************************************************************************)
(* SHADOW_STACK_MPX: the runtime makes bnd0 once, in mpxrt_prepare(), and  *)
(* the pass puts a check against it before the stores of the program.      *)
(* getpage() then places every mapping at SHADOW_STACK_PTR, so that under  *)
(* REG the page gs points to (the clave) and the shadow stack are one.     *)
(*                                                                         *)
(* The program modelled is a correct one: it stays off the shadow stack.   *)
(* One unit of address is one pointer; a shadow stack entry takes two.     *)
(***************************************************************************)
EXTENDS Integers

CONSTANTS
  Schemes,    \* of "REG", "MEM" and "SEG", whose runtime calls mpxrt_prepare()
  Space,      \* number of addresses
  Ptr,        \* SHADOW_STACK_PTR
  Practical,  \* PRACTICAL_STACK_SIZE
  Sizes,      \* stack sizes the thread library may report
  MaxDepth    \* bound: calls nested in one constructor or main

ASSUME SpaceAssumption == Space \in Nat /\ Ptr \in Nat /\ Practical \in Nat \ {0}
ASSUME SizeAssumption ==
  /\ Sizes \subseteq Nat
  /\ \A s \in Sizes : s > 4 /\ Practical + s <= Ptr /\ Ptr + s < Space
ASSUME MpxAssumption == Schemes \subseteq {"REG", "MEM", "SEG"} /\ MaxDepth \in Nat \ {0}

VARIABLES
  scheme, size,  \* how the program is built and run
  cpu,           \* "none": the MPX registers are not enabled; "hardware": they are, but
                 \* the kernel manages no bound directory; "kernel": it does
  pc,            \* where the process is, or how it ended
  enabled,       \* BNDCFGU.enable
  bnd0,          \* upper bound; the lower one is always 0
  l1,            \* the bound directory: "none", "mapped", "failed", "unmapped"
  executed,      \* the flag of that name
  word,          \* the words of the shadow stack's mapping
  r15,           \* REG: the pointer
  depth,         \* instrumented calls in progress
  high           \* history: how many entries the shadow stack has had at most

vars == <<scheme, size, cpu, pc, enabled, bnd0, l1, executed, word, r15, depth, high>>

build == <<scheme, size, cpu>>
guard == <<enabled, bnd0, l1, executed>>
stack == <<word, r15, depth, high>>

Unbounded == Space - 1   \* what a flushed bound register holds

\* Words that are not an offset into the shadow stack.
RetAddr == -1
StackPtr == -2
Unset == -3

-----------------------------------------------------------------------------
(* The bound. *)

\* Mutant: 2^64 for 2^64 - 1.
RotationOffByOne == (Space - Ptr + Practical) % Space
\* ROTATION_OFFSET
Rotation == (Space - 1 - Ptr + Practical) % Space

\* bndmk
Upper(s) == Space - 1 - s

\* lea, movabs, lea, bndcu
Refuses(upper, a) == (a + Rotation) % Space > upper

\* Mutant: MPX_RT_BNDPRESERVE_DEFAULT, which nothing reads.
PreserveDefault == TRUE
\* The static variable nothing sets.
bndpreserve == FALSE
\* bnd0 is INIT again after a call, return or jump without the bnd prefix.
Flushed == IF enabled /\ ~bndpreserve THEN Unbounded ELSE bnd0

\* The opcodes, by the case of the switch that lists them (0: none), the
\* operand at which LLVM keeps their memory reference, and mayStore().  The
\* first case has the forms whose first operand is in memory, also those that
\* only read it; the second has loads, and TEST8mr and its like; of the third,
\* loads into a tied register, only XCHG64rm and LXADD store.
MemoryFirst == [case : {1}, mem : {0}, mayStore : BOOLEAN]
PlainLoads == [case : {2}, mem : {0, 1}, mayStore : {FALSE}]
TiedLoads == [case : {3}, mem : {2}, mayStore : BOOLEAN]
Unlisted == [case : {0}, mem : 0 .. 2, mayStore : BOOLEAN]
Opcodes == MemoryFirst \cup PlainLoads \cup TiedLoads \cup Unlisted

\* The first of the five address operands the inserted lea takes over.
AddressAt(op) == op.case - 1

Checked(op) == op.mayStore /\ op.case # 0

-----------------------------------------------------------------------------
(* The runtime's constructor. *)

\* Mutant: clave[2] points past the five words of the clave.
LayoutApart == <<Unset, 5, 5, Unset, 0>>
\* clave[0] .. clave[4]; clave[1] and clave[2] hold the shadow stack's
\* address, which is the clave's own.
Layout == <<Unset, 0, 0, Unset, 0>>

Empty(s) == [i \in 0 .. s - 1 |-> Unset]
\* MEM and SEG write their header before mpxrt_prepare().
Header(s) == CASE scheme = "MEM" -> [Empty(s) EXCEPT ![0] = 1]
               [] scheme = "SEG" -> [Empty(s) EXCEPT ![0] = 2, ![1] = 0]
               [] OTHER -> Empty(s)

Init ==
  /\ scheme \in Schemes /\ size \in Sizes
  /\ cpu \in {"none", "hardware", "kernel"}
  /\ pc = "l1" /\ enabled = FALSE /\ bnd0 = Unbounded /\ l1 = "none" /\ executed = FALSE
  /\ word = Header(size) /\ r15 = Unset /\ depth = 0 /\ high = 0

\* Mutant: a directory that could not be mapped is used all the same.
MapL1Unchecked ==
  /\ pc = "l1"
  /\ pc' = "enable" /\ l1' \in {"mapped", "failed"}
  /\ UNCHANGED <<build, enabled, bnd0, executed, stack>>
MapL1 ==
  /\ pc = "l1"
  /\ \/ l1' = "mapped" /\ pc' = "enable"
     \/ l1' = "failed" /\ pc' = "exiting"
  /\ UNCHANGED <<build, enabled, bnd0, executed, stack>>

\* xrstor of a state component that is not enabled is a fault; the test for
\* it, check_mpx_support(), is commented out.
EnableMpx ==
  /\ pc = "enable"
  /\ IF cpu = "none" THEN pc' = "segv" /\ UNCHANGED enabled
                     ELSE pc' = "prctl" /\ enabled' = TRUE
  /\ bnd0' = Unbounded
  /\ UNCHANGED <<build, l1, executed, stack>>

\* prctl(43), and disable_mpx() when it fails.  mpxrt_prepare() ignores what
\* process_specific_init() returns.
Prctl ==
  /\ pc = "prctl"
  /\ pc' = "bndmk" /\ enabled' = (cpu = "kernel")
  /\ UNCHANGED <<build, bnd0, l1, executed, stack>>

BndMk ==
  /\ pc = "bndmk"
  /\ pc' = IF scheme = "REG" THEN "clave" ELSE "return"
  /\ bnd0' = IF enabled THEN Upper(size) ELSE bnd0
  /\ UNCHANGED <<build, enabled, l1, executed, stack>>

\* The stores to the clave.  They are checked when the runtime is compiled
\* with the pass, against bnd0 as made when mpxrt_prepare() is inlined.
StoreClave ==
  /\ pc = "clave"
  /\ \E inlined, checked \in BOOLEAN :
       LET b == IF inlined THEN bnd0 ELSE Flushed
       IN /\ bnd0' = b
          /\ IF checked /\ enabled /\ \E i \in 0 .. 4 : Refuses(b, Ptr + i)
               THEN pc' = "refused" /\ UNCHANGED word
               ELSE pc' = "return" /\ word' = [i \in DOMAIN word |-> IF i <= 4 THEN Layout[i + 1] ELSE word[i]]
  /\ UNCHANGED <<build, enabled, l1, executed, r15, depth, high>>

\* init_all() returns to the loader.
InitReturns ==
  /\ pc = "return"
  /\ pc' = "loader" /\ executed' = TRUE /\ bnd0' = Flushed
  /\ UNCHANGED <<build, enabled, l1, stack>>

-----------------------------------------------------------------------------
(* The program: constructors, then main. *)

\* The word of the clave r15 is loaded from.
LoadSlot == 2
\* The pointer an entry function starts from.
Loaded  == IF scheme = "REG" THEN word[LoadSlot] ELSE word[0]
Pointer == IF scheme = "REG" THEN r15 ELSE word[0]

\* The prolog: store the entry, move the pointer.
Push(p, next) ==
  IF p \in 0 .. size - 2
    THEN /\ word' = LET entry == [word EXCEPT ![p] = RetAddr, ![p + 1] = StackPtr]
                    IN IF scheme = "REG" THEN entry ELSE [entry EXCEPT ![0] = p + 2]
         /\ r15' = IF scheme = "REG" THEN p + 2 ELSE r15
         /\ depth' = depth + 1
         /\ high' = IF high > depth + 1 THEN high ELSE depth + 1
         /\ pc' = next
    ELSE /\ pc' = "segv"
         /\ r15' = IF scheme = "REG" THEN p ELSE r15
         /\ UNCHANGED <<word, depth, high>>

\* The epilog: take the pointer back.
Pop ==
  IF scheme = "REG" THEN r15' = r15 - 2 /\ UNCHANGED word
                    ELSE word' = [word EXCEPT ![0] = @ - 2] /\ UNCHANGED r15

\* The loader starts a constructor, or libc main.
Start ==
  /\ pc = "loader"
  /\ \E next \in {"ctor", "main"} : Push(Loaded, next)
  /\ bnd0' = Flushed
  /\ UNCHANGED <<build, enabled, l1, executed>>

Running == pc \in {"ctor", "main"}

Call ==
  /\ Running /\ depth < MaxDepth
  /\ Push(Pointer, pc)
  /\ bnd0' = Flushed
  /\ UNCHANGED <<build, enabled, l1, executed>>

\* A constructor has no epilog under REG.
Return ==
  /\ Running
  /\ IF pc = "ctor" /\ depth = 1 /\ scheme = "REG" THEN UNCHANGED <<word, r15>> ELSE Pop
  /\ depth' = depth - 1
  /\ pc' = IF depth > 1 THEN pc ELSE IF pc = "ctor" THEN "loader" ELSE "exiting"
  /\ bnd0' = Flushed
  /\ UNCHANGED <<build, enabled, l1, executed, high>>

\* An instruction of the program that accesses memory outside the shadow
\* stack.  Operands taken from the wrong position make any address.
OffShadow == 0 .. Space - 1 \ (Ptr .. Ptr + size - 1)
Access ==
  /\ Running
  /\ \E op \in Opcodes, a \in OffShadow :
       \E seen \in IF AddressAt(op) = op.mem THEN {a} ELSE 0 .. Space - 1 :
         pc' = IF enabled /\ Checked(op) /\ Refuses(bnd0, seen) THEN "refused" ELSE pc
  /\ UNCHANGED <<build, guard, stack>>

Exit ==
  /\ Running
  /\ pc' = "exiting"
  /\ UNCHANGED <<build, guard, stack>>

\* mpxrt_cleanup(): prctl(44), and munmap() unless it failed.
Cleanup ==
  /\ pc = "exiting"
  /\ pc' = "done" /\ executed' = FALSE
  /\ l1' = IF executed /\ cpu = "kernel" THEN "unmapped" ELSE l1
  /\ UNCHANGED <<build, enabled, bnd0, stack>>

Next == \/ MapL1 \/ EnableMpx \/ Prctl \/ BndMk \/ StoreClave \/ InitReturns
        \/ Start \/ Call \/ Return \/ Access \/ Exit \/ Cleanup

Spec == Init /\ [][Next]_vars

-----------------------------------------------------------------------------
(* Properties. *)

TypeOK ==
  /\ scheme \in Schemes /\ size \in Sizes /\ cpu \in {"none", "hardware", "kernel"}
  /\ pc \in {"l1", "enable", "prctl", "bndmk", "clave", "return", "loader", "ctor", "main",
             "exiting", "done", "segv", "refused"}
  /\ enabled \in BOOLEAN /\ executed \in BOOLEAN
  /\ bnd0 \in 0 .. Space - 1
  /\ l1 \in {"none", "mapped", "failed", "unmapped"}
  /\ word \in [0 .. size - 1 -> Unset .. size]
  /\ r15 \in Unset .. size
  /\ depth \in 0 .. MaxDepth /\ high \in 0 .. MaxDepth

\* A bound made by the runtime refuses `size` addresses, none of them in the
\* shadow stack: they end PRACTICAL_STACK_SIZE below SHADOW_STACK_PTR.
RangeExact ==
  bnd0 # Unbounded =>
    \A a \in 0 .. Space - 1 :
      Refuses(bnd0, a) <=> Ptr - Practical - size < a /\ a <= Ptr - Practical

\* A program that stays off its shadow stack, and the runtime that sets it
\* up, are never stopped by a bounds check.  It holds because the bound is
\* flushed before the program runs; a preserved one would refuse the range of
\* RangeExact, which is the program's to use.
NeverRefused == pc # "refused"

\* Code runs with MPX enabled only over a bound directory that is mapped.
DirectoryMapped == enabled /\ (Running \/ pc \in {"clave", "return", "loader"}) => l1 = "mapped"

\* Under REG, entries and clave share their memory: the word r15 is loaded
\* from is intact exactly as long as no constructor, and no function it
\* calls, has stored a second entry.  The process faults only in a set-up where
\* MPX is not enabled, or in the prolog of a constructor or of main that starts
\* after such a second entry.
ClaveExact ==
  /\ scheme = "REG" /\ (pc = "loader" \/ Running) => (word[2] = Layout[3] <=> high < 2)
  /\ pc = "segv" => cpu = "none" \/ (scheme = "REG" /\ high >= 2 /\ depth = 0)

\* "BNDPRESERVE = 1 do NOT flush bounds [default: 1]" (mpxrt-utils.c): while
\* the program runs with MPX enabled, bnd0 is as mpxrt_prepare() made it.
BoundsKept == enabled /\ Running => bnd0 = Upper(size)
=============================================================================
