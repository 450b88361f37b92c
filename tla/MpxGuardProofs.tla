--------------------------- MODULE MpxGuardProofs ---------------------------
(***************************************************************************)
(* For every address space, stack size and placement of the shadow stack:  *)
(* the range a bound refuses, that no check ever stops the program, that   *)
(* MPX never runs over a missing directory, and how long the clave that    *)
(* shares the shadow stack's memory stays intact.                          *)
(***************************************************************************)
EXTENDS MpxGuard, TLAPS

\* Reduction modulo Space of the sums a check forms.
LEMMA ModuloFacts ==
  ASSUME NEW n \in Nat, n > 0, NEW x \in Nat, x < 2 * n
  PROVE  /\ x < n => x % n = x
         /\ x >= n => x % n = x - n
  OBVIOUS

LEMMA SizeFacts ==
  ASSUME NEW s \in Sizes
  PROVE  /\ s \in Nat /\ s > 4 /\ Practical + s <= Ptr /\ Ptr + s < Space
         /\ Space \in Nat /\ Ptr \in Nat /\ Practical \in Nat /\ Practical > 0
  BY SpaceAssumption, SizeAssumption

\* Nothing wraps in the rotation itself.
LEMMA RotationValue ==
  ASSUME NEW s \in Sizes
  PROVE  Rotation = Space - 1 - Ptr + Practical
<1> DEFINE x == Space - 1 - Ptr + Practical
<1>1. x \in Nat /\ x < Space /\ Space \in Nat /\ Space > 0 /\ x < 2 * Space
  BY SizeFacts
<1> HIDE DEF x
<1>2. x % Space = x
  BY <1>1, ModuloFacts
<1> QED
  BY <1>2 DEF Rotation, x

\* An address, rotated.
LEMMA RotatedValue ==
  ASSUME NEW s \in Sizes, NEW a \in 0 .. Space - 1
  PROVE  (a + Rotation) % Space =
           IF a <= Ptr - Practical THEN a + Space - 1 - Ptr + Practical ELSE a - 1 - Ptr + Practical
<1> DEFINE x == a + Rotation
<1>1. x = a + Space - 1 - Ptr + Practical
  BY RotationValue, SizeFacts
<1>2. x \in Nat /\ Space \in Nat /\ Space > 0 /\ x < 2 * Space
  BY <1>1, SizeFacts
<1> HIDE DEF x
<1>3. /\ x < Space => x % Space = x
      /\ x >= Space => x % Space = x - Space
  BY <1>2, ModuloFacts
<1>4. x % Space = IF a <= Ptr - Practical THEN a + Space - 1 - Ptr + Practical ELSE a - 1 - Ptr + Practical
  BY <1>1, <1>2, <1>3, SizeFacts
<1> QED
  BY <1>4 DEF x

\* The range the bound made for a stack of s refuses.
LEMMA RefusedRange ==
  ASSUME NEW s \in Sizes, NEW a \in 0 .. Space - 1
  PROVE  Refuses(Upper(s), a) <=> Ptr - Practical - s < a /\ a <= Ptr - Practical
  BY RotatedValue, SizeFacts DEF Refuses, Upper

\* A flushed bound refuses nothing.
LEMMA UnboundedRefusesNone ==
  ASSUME NEW s \in Sizes, NEW a \in 0 .. Space - 1
  PROVE  ~Refuses(Unbounded, a)
  BY RotatedValue, SizeFacts DEF Refuses, Unbounded

\* bnd0 is flushed or as made, and flushed wherever program code runs with
\* MPX enabled; no check has ever failed.
GInv ==
  /\ size \in Sizes
  /\ bnd0 = Unbounded \/ bnd0 = Upper(size)
  /\ enabled /\ (Running \/ pc = "loader") => bnd0 = Unbounded
  /\ NeverRefused

LEMMA FlushedFacts ==
  ASSUME GInv
  PROVE  /\ Flushed = Unbounded \/ Flushed = Upper(size)
         /\ enabled => Flushed = Unbounded
  BY DEF GInv, Flushed, bndpreserve

LEMMA GInvInit == Init => GInv
  BY DEF Init, GInv, Running, NeverRefused

\* The clave is outside the range any bound refuses.
LEMMA ClaveAllowed ==
  ASSUME GInv, NEW b, b = bnd0 \/ b = Flushed, NEW i \in 0 .. 4
  PROVE  ~Refuses(b, Ptr + i)
<1>1. size \in Sizes /\ (b = Unbounded \/ b = Upper(size))
  BY FlushedFacts DEF GInv
<1> DEFINE a == Ptr + i
<1>2. a \in 0 .. Space - 1 /\ a > Ptr - Practical
  BY <1>1, SizeFacts
<1> HIDE DEF a
<1>3. ~Refuses(b, a)
  BY <1>1, <1>2, SizeFacts, RefusedRange, UnboundedRefusesNone
<1> QED
  BY <1>3 DEF a

\* A check the program executes passes.
LEMMA AccessAllowed ==
  ASSUME GInv, Access
  PROVE  pc' = pc
<1>1. size \in Sizes /\ Running /\ (enabled => bnd0 = Unbounded)
  BY DEF GInv, Access
<1>2. PICK op \in Opcodes, a \in OffShadow :
        \E seen \in IF AddressAt(op) = op.mem THEN {a} ELSE 0 .. Space - 1 :
          pc' = IF enabled /\ Checked(op) /\ Refuses(bnd0, seen) THEN "refused" ELSE pc
  BY DEF Access
<1>3. a \in 0 .. Space - 1
  BY DEF OffShadow
<1>4. PICK seen \in 0 .. Space - 1 :
        pc' = IF enabled /\ Checked(op) /\ Refuses(bnd0, seen) THEN "refused" ELSE pc
  BY <1>2, <1>3
<1>5. enabled => ~Refuses(bnd0, seen)
  BY <1>1, UnboundedRefusesNone
<1> QED
  BY <1>4, <1>5

LEMMA GInvStep == GInv /\ [Next]_vars => GInv'
<1> SUFFICES ASSUME GInv, [Next]_vars PROVE GInv'
  OBVIOUS
<1>0. /\ Flushed = Unbounded \/ Flushed = Upper(size)
      /\ enabled => Flushed = Unbounded
  BY FlushedFacts
<1> USE <1>0 DEF GInv, Running, NeverRefused, Upper, Unbounded
<1>1. CASE MapL1
  BY <1>1 DEF MapL1, build
<1>2. CASE EnableMpx
  BY <1>2 DEF EnableMpx, build
<1>3. CASE Prctl
  BY <1>3 DEF Prctl, build
<1>4. CASE BndMk
  BY <1>4 DEF BndMk, build
<1>5. CASE StoreClave
  <2>1. PICK inlined \in BOOLEAN, checked \in BOOLEAN :
          LET b == IF inlined THEN bnd0 ELSE Flushed
          IN /\ bnd0' = b
             /\ IF checked /\ enabled /\ \E i \in 0 .. 4 : Refuses(b, Ptr + i)
                  THEN pc' = "refused" /\ UNCHANGED word
                  ELSE pc' = "return" /\ word' = [i \in DOMAIN word |-> IF i <= 4 THEN Layout[i + 1] ELSE word[i]]
    BY <1>5 DEF StoreClave
  <2>2. \A i \in 0 .. 4 : ~Refuses(bnd0, Ptr + i) /\ ~Refuses(Flushed, Ptr + i)
    BY ClaveAllowed
  <2>3. pc' = "return" /\ (bnd0' = bnd0 \/ bnd0' = Flushed) /\ size' = size
    BY <1>5, <2>1, <2>2 DEF StoreClave, build
  <2> QED
    BY <2>3
<1>6. CASE InitReturns
  BY <1>6 DEF InitReturns, build
<1>7. CASE Start
  <2>1. pc' = "ctor" \/ pc' = "main" \/ pc' = "segv"
    BY <1>7 DEF Start, Push
  <2> QED
    BY <1>7, <2>1 DEF Start, build
<1>8. CASE Call
  <2>1. pc' = pc \/ pc' = "segv"
    BY <1>8 DEF Call, Push
  <2> QED
    BY <1>8, <2>1 DEF Call, build
<1>9. CASE Return
  BY <1>9 DEF Return, build
<1>10. CASE Access
  BY <1>10, AccessAllowed DEF Access, build, guard
<1>11. CASE Exit
  BY <1>11 DEF Exit, build, guard
<1>12. CASE Cleanup
  BY <1>12 DEF Cleanup, build
<1>13. CASE UNCHANGED vars
  BY <1>13 DEF vars
<1> QED
  BY <1>1, <1>2, <1>3, <1>4, <1>5, <1>6, <1>7, <1>8, <1>9, <1>10, <1>11, <1>12, <1>13 DEF Next

\* No program that stays off its shadow stack, and no runtime compiled with
\* the pass, is stopped by a bounds check.
THEOREM NeverRefusedHolds == Spec => []NeverRefused
<1>1. GInv => NeverRefused
  BY DEF GInv
<1> QED
  BY <1>1, GInvInit, GInvStep, PTL DEF Spec

\* Whenever bnd0 holds a bound, the addresses it refuses are the `size` ones
\* that end PRACTICAL_STACK_SIZE below SHADOW_STACK_PTR.
THEOREM RangeExactHolds == Spec => []RangeExact
<1>1. GInv => RangeExact
  BY RefusedRange DEF GInv, RangeExact
<1> QED
  BY <1>1, GInvInit, GInvStep, PTL DEF Spec
-----------------------------------------------------------------------------
(* What the runtime set up. *)

\* The directory is there from the moment MPX may be enabled to the end of main.
DInv == Running \/ pc \in {"enable", "prctl", "bndmk", "clave", "return", "loader"} => l1 = "mapped"

LEMMA DInvStep == DInv /\ [Next]_vars => DInv'
<1> SUFFICES ASSUME DInv, [Next]_vars PROVE DInv'
  OBVIOUS
<1> USE DEF DInv, Running
<1>1. CASE MapL1 \/ EnableMpx \/ Prctl \/ BndMk
  BY <1>1 DEF MapL1, EnableMpx, Prctl, BndMk
<1>2. CASE StoreClave
  BY <1>2 DEF StoreClave
<1>3. CASE InitReturns \/ Start
  BY <1>3 DEF InitReturns, Start
<1>4. CASE Call \/ Return \/ Access \/ Exit
  BY <1>4 DEF Call, Return, Access, Exit, guard
<1>5. CASE Cleanup
  BY <1>5 DEF Cleanup
<1>6. CASE UNCHANGED vars
  BY <1>6 DEF vars
<1> QED
  BY <1>1, <1>2, <1>3, <1>4, <1>5, <1>6 DEF Next

\* No code runs with MPX enabled over a directory that mmap() refused or that
\* was unmapped again.
THEOREM DirectoryMappedHolds == Spec => []DirectoryMapped
<1>1. Init => DInv
  BY DEF Init, DInv, Running
<1>2. DInv => DirectoryMapped
  BY DEF DInv, DirectoryMapped
<1> QED
  BY <1>1, <1>2, DInvStep, PTL DEF Spec

\* The calls of the program fit its shadow stack, header included.
Roomy == \A s \in Sizes : 2 * MaxDepth + 2 <= s

\* Where the next entry goes while `depth` calls are in progress.
NextEntry(d) == CASE scheme = "REG" -> 2 * d
                  [] scheme = "MEM" -> 2 * d + 1
                  [] scheme = "SEG" -> 2 * d + 2

Setup == {"l1", "enable", "prctl", "bndmk", "clave", "return"}

\* The pointer counts the calls in progress, and the word r15 is loaded from
\* is the layout's or a return address.
CInv ==
  /\ scheme \in {"REG", "MEM", "SEG"} /\ size \in Sizes
  /\ depth \in 0 .. MaxDepth /\ high \in Nat /\ depth <= high
  /\ word \in [0 .. size - 1 -> Int] /\ r15 \in Int
  /\ pc \in Setup => depth = 0 /\ high = 0
  /\ pc = "clave" => scheme = "REG"
  /\ pc = "loader" => depth = 0
  /\ Running => depth > 0
  /\ scheme = "REG" /\ Running => r15 = NextEntry(depth)
  /\ scheme = "REG" /\ (Running \/ pc \in {"return", "loader"}) =>
       word[2] = IF high < 2 THEN 0 ELSE RetAddr
  /\ scheme # "REG" /\ (Running \/ pc \in Setup \cup {"loader"}) => word[0] = NextEntry(depth)
  /\ pc = "segv" => cpu = "none" \/ (scheme = "REG" /\ high >= 2 /\ depth = 0)

LEMMA CInvInit == Init => CInv
<1> SUFFICES ASSUME Init PROVE CInv
  OBVIOUS
<1>1. scheme \in {"REG", "MEM", "SEG"} /\ size \in Sizes /\ size \in Nat /\ size > 4 /\ MaxDepth \in Nat
  BY SizeFacts, MpxAssumption DEF Init
<1>2. word \in [0 .. size - 1 -> Int] /\ (scheme # "REG" => word[0] = NextEntry(0))
  BY <1>1 DEF Init, Header, Empty, NextEntry, Unset
<1> QED
  BY <1>1, <1>2 DEF Init, CInv, Running, Unset, Setup

\* A prolog that finds the pointer where the calls in progress put it.
LEMMA PushKeeps ==
  ASSUME Roomy, CInv, NEW next \in {"ctor", "main"}, Push(NextEntry(depth), next),
         pc = "loader" \/ Running, depth < MaxDepth, UNCHANGED build
  PROVE  CInv'
<1> DEFINE p == NextEntry(depth)
<1>1. /\ size \in Nat /\ MaxDepth \in Nat /\ 2 * MaxDepth + 2 <= size /\ depth \in Nat /\ high \in Nat
      /\ depth <= high /\ scheme \in {"REG", "MEM", "SEG"}
  BY SizeFacts, MpxAssumption DEF CInv, Roomy
<1>2. p \in 0 .. size - 2 /\ (scheme # "REG" => p > 0) /\ NextEntry(depth + 1) = p + 2
  BY <1>1 DEF NextEntry
<1>3. scheme = "REG" => p = 2 * depth
  BY DEF NextEntry
<1> HIDE DEF p
<1>4. /\ word' = LET entry == [word EXCEPT ![p] = RetAddr, ![p + 1] = StackPtr]
                 IN IF scheme = "REG" THEN entry ELSE [entry EXCEPT ![0] = p + 2]
      /\ r15' = (IF scheme = "REG" THEN p + 2 ELSE r15) /\ depth' = depth + 1
      /\ high' = (IF high > depth + 1 THEN high ELSE depth + 1) /\ pc' = next
  BY <1>2 DEF Push, p
<1>5. word' \in [0 .. size - 1 -> Int] /\ (scheme # "REG" => word'[0] = p + 2)
  <2> DEFINE entry == [word EXCEPT ![p] = RetAddr, ![p + 1] = StackPtr]
  <2>1. entry \in [0 .. size - 1 -> Int]
    BY <1>1, <1>2 DEF CInv, RetAddr, StackPtr
  <2>2. word' = IF scheme = "REG" THEN entry ELSE [entry EXCEPT ![0] = p + 2]
    BY <1>4
  <2>3. p + 2 \in Int /\ 0 \in 0 .. size - 1
    BY <1>1, <1>2
  <2> HIDE DEF entry
  <2> QED
    BY <2>1, <2>2, <2>3
<1>6. scheme = "REG" => word'[2] = IF high' < 2 THEN 0 ELSE RetAddr
  <2> SUFFICES ASSUME scheme = "REG" PROVE word'[2] = IF high' < 2 THEN 0 ELSE RetAddr
    OBVIOUS
  <2>1. word[2] = (IF high < 2 THEN 0 ELSE RetAddr) /\ p = 2 * depth
    BY <1>3 DEF CInv
  <2>2. word'[2] = IF p = 2 THEN RetAddr ELSE word[2]
    BY <1>1, <1>2, <1>4, <2>1 DEF CInv
  <2>3. high' < 2 <=> (depth = 0 /\ high < 2)
    BY <1>1, <1>4
  <2> QED
    BY <1>1, <2>1, <2>2, <2>3
<1>7. NextEntry(depth)' = p + 2
  BY <1>2, <1>4 DEF NextEntry, build
<1>8. Running' /\ pc' \notin Setup \cup {"loader", "segv"} /\ scheme' = scheme /\ size' = size
  BY <1>4 DEF Running, Setup, build
<1>9. depth' \in 0 .. MaxDepth /\ high' \in Nat /\ depth' <= high' /\ depth' > 0
  BY <1>1, <1>4
<1>10. r15' \in Int /\ (scheme = "REG" => r15' = p + 2)
  BY <1>2, <1>4 DEF CInv
<1>11. size \in Sizes
  BY DEF CInv
<1> QED
  BY <1>1, <1>5, <1>6, <1>7, <1>8, <1>9, <1>10, <1>11 DEF CInv, Setup

LEMMA CInvStep == ASSUME Roomy PROVE CInv /\ [Next]_vars => CInv'
<1> SUFFICES ASSUME CInv, [Next]_vars PROVE CInv'
  OBVIOUS
<1>0. /\ scheme \in {"REG", "MEM", "SEG"} /\ size \in Sizes /\ size \in Nat /\ size > 4
      /\ MaxDepth \in Nat /\ MaxDepth > 0 /\ depth \in Nat /\ high \in Nat
  BY SizeFacts, MpxAssumption DEF CInv
<1>1. CASE MapL1 \/ EnableMpx \/ Prctl \/ BndMk
  BY <1>1 DEF MapL1, EnableMpx, Prctl, BndMk, build, stack, CInv, Running, Setup, NextEntry
<1>2. CASE StoreClave
  <2>1. /\ pc = "clave" /\ UNCHANGED <<build, r15, depth, high>>
        /\ \/ pc' = "refused" /\ UNCHANGED word
           \/ pc' = "return" /\ word' = [i \in DOMAIN word |-> IF i <= 4 THEN Layout[i + 1] ELSE word[i]]
    BY <1>2 DEF StoreClave
  <2>2. word' \in [0 .. size - 1 -> Int]
    <3>1. \A i \in 0 .. 4 : Layout[i + 1] \in Int
      BY DEF Layout, Unset
    <3>2. DOMAIN word = 0 .. size - 1 /\ \A i \in 0 .. size - 1 : word[i] \in Int
      BY DEF CInv
    <3>3. \A i \in 0 .. size - 1 : i <= 4 => i \in 0 .. 4
      BY <1>0
    <3>4. CASE word' = word
      BY <3>4 DEF CInv
    <3>5. CASE word' = [i \in DOMAIN word |-> IF i <= 4 THEN Layout[i + 1] ELSE word[i]]
      <4>1. word' = [i \in 0 .. size - 1 |-> IF i <= 4 THEN Layout[i + 1] ELSE word[i]]
        BY <3>2, <3>5
      <4>2. \A i \in 0 .. size - 1 : (IF i <= 4 THEN Layout[i + 1] ELSE word[i]) \in Int
        BY <3>1, <3>2, <3>3
      <4> QED
        BY <4>1, <4>2
    <3> QED
      BY <2>1, <3>4, <3>5
  <2>3. pc' = "return" => word'[2] = 0
    BY <1>0, <2>1 DEF CInv, Layout
  <2> QED
    BY <1>0, <2>1, <2>2, <2>3 DEF CInv, Running, Setup, build
<1>3. CASE InitReturns
  BY <1>3 DEF InitReturns, build, stack, CInv, Running, Setup, NextEntry
<1>4. CASE Start
  <2>1. PICK next \in {"ctor", "main"} : Push(Loaded, next)
    BY <1>4 DEF Start
  <2>2. pc = "loader" /\ depth = 0 /\ UNCHANGED build
    BY <1>4 DEF Start, CInv
  <2>3. CASE scheme = "REG" /\ high >= 2
    <3>1. Loaded = RetAddr
      BY <1>0, <2>2, <2>3 DEF CInv, Loaded, LoadSlot
    <3>2. pc' = "segv" /\ r15' = RetAddr /\ UNCHANGED <<word, depth, high>>
      BY <1>0, <2>1, <2>3, <3>1 DEF Push, RetAddr
    <3> QED
      BY <1>0, <2>2, <2>3, <3>2 DEF CInv, Running, Setup, build, RetAddr
  <2>4. CASE ~(scheme = "REG" /\ high >= 2)
    <3>1. Loaded = NextEntry(depth)
      BY <1>0, <2>2, <2>4 DEF CInv, Loaded, LoadSlot, NextEntry
    <3> QED
      BY <1>0, <2>1, <2>2, <3>1, PushKeeps
  <2> QED
    BY <2>3, <2>4
<1>5. CASE Call
  <2>1. Running /\ depth < MaxDepth /\ Push(Pointer, pc) /\ UNCHANGED build
    BY <1>5 DEF Call
  <2>2. Pointer = NextEntry(depth) /\ pc \in {"ctor", "main"}
    BY <2>1 DEF CInv, Pointer, Running
  <2> QED
    BY <2>1, <2>2, PushKeeps
<1>6. CASE Return
  <2>1. /\ Running /\ depth > 0 /\ depth' = depth - 1 /\ UNCHANGED <<build, high>>
        /\ pc' = IF depth > 1 THEN pc ELSE IF pc = "ctor" THEN "loader" ELSE "exiting"
    BY <1>6 DEF Return, CInv
  <2>2. /\ word' \in [0 .. size - 1 -> Int] /\ r15' \in Int
        /\ scheme = "REG" => word' = word /\ (depth > 1 => r15' = r15 - 2)
        /\ scheme # "REG" => word'[0] = word[0] - 2
    <3>1. CASE scheme = "REG"
      BY <1>0, <1>6, <3>1 DEF Return, Pop, CInv
    <3>2. CASE scheme # "REG"
      <4>1. word' = [word EXCEPT ![0] = @ - 2] /\ r15' = r15
        BY <1>6, <3>2 DEF Return, Pop
      <4>2. 0 \in 0 .. size - 1 /\ word[0] \in Int
        BY <1>0 DEF CInv
      <4> QED
        BY <3>2, <4>1, <4>2 DEF CInv
    <3> QED
      BY <3>1, <3>2
  <2>3. NextEntry(depth)' = NextEntry(depth) - 2
    BY <1>0, <2>1 DEF NextEntry, build
  <2> QED
    BY <1>0, <2>1, <2>2, <2>3 DEF CInv, Running, Setup, build
<1>7. CASE Access \/ Exit
  <2>1. Running /\ pc' \in {pc, "refused", "exiting"} /\ UNCHANGED <<build, stack>>
    BY <1>7 DEF Access, Exit
  <2> QED
    BY <2>1 DEF build, stack, CInv, Running, Setup, NextEntry
<1>8. CASE Cleanup
  BY <1>8 DEF Cleanup, build, stack, CInv, Running, Setup, NextEntry
<1>9. CASE UNCHANGED vars
  BY <1>9 DEF vars, CInv, Running, Setup, NextEntry
<1> QED
  BY <1>1, <1>2, <1>3, <1>4, <1>5, <1>6, <1>7, <1>8, <1>9 DEF Next

\* When the clave that shares the shadow stack's memory is intact, and what
\* the process can fault on, for every program whose calls fit its stack.
THEOREM ClaveExactHolds == ASSUME Roomy PROVE Spec => []ClaveExact
<1>1. CInv => ClaveExact
  BY DEF CInv, ClaveExact, Layout, RetAddr
<1>2. CInv /\ [Next]_vars => CInv'
  BY CInvStep
<1> QED
  BY <1>1, <1>2, CInvInit, PTL DEF Spec
=============================================================================
