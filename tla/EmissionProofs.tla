--------------------------- MODULE EmissionProofs ---------------------------
(***************************************************************************)
(* Proofs about Emission, for functions of any length, stack maps and      *)
(* patch points of any size and operands in any registers:                 *)
(*  - what is promised to whoever patches the code at run time, from an    *)
(*    invariant about how far the shadow reaches; every lowering is first  *)
(*    shown to be a step of one shape, Moves;                              *)
(*  - that Lower() keeps the meaning of every well formed instruction;     *)
(*  - what an event sled does to the registers.                            *)
(***************************************************************************)
EXTENDS Emission, WellFoundedInduction, TLAPS

-------------------------------------------------------------------------------
(* Induction over the naturals, and recursive functions.                   *)

\* A non-empty set of naturals has a least element, from the library's
\* well-foundedness of <.
LEMMA LeastNat ==
  ASSUME NEW T, T \subseteq Nat, T # {}
  PROVE  \E m \in T : \A k \in T : m <= k
<1>1. PICK m \in T : \A k \in T : ~ (<<k, m>> \in OpToRel(<, Nat))
  BY WFMin, NatLessThanWellFounded, Zenon
<1>2. \A k \in T : ~ (k < m)
  BY <1>1, Zenon DEF OpToRel
<1>3. \A k \in T : k \in Nat /\ m \in Nat
  OBVIOUS
<1> QED  BY <1>2, <1>3

\* Induction over the naturals, with the induction hypothesis as a set: the
\* library's theorem takes an operator, which the provers cannot instantiate.
LEMMA NatSet ==
  ASSUME NEW T, 0 \in T, \A k \in Nat : k \in T => k + 1 \in T
  PROVE  \A k \in Nat : k \in T
<1> SUFFICES ASSUME NEW k \in Nat, k \notin T PROVE FALSE
  OBVIOUS
<1> DEFINE U == {j \in Nat : j \notin T}
<1>1. U \subseteq Nat /\ U # {}
  OBVIOUS
<1> HIDE DEF U
<1>2. PICK m \in U : \A j \in U : m <= j
  BY <1>1, LeastNat
<1>3. m \in Nat /\ m # 0 /\ m \notin T
  BY <1>2 DEF U
<1>4. m - 1 \in Nat /\ m - 1 \notin U
  BY <1>2, <1>3
<1>5. m - 1 \in T
  BY <1>4 DEF U
<1>6. m = (m - 1) + 1
  BY <1>3
<1> QED  BY <1>3, <1>4, <1>5, <1>6

\* A value that is changed by one function after another has a history: what
\* turns the recursive functions of Emission, a CHOOSE each, into their steps.
LEMMA Iterates ==
  ASSUME NEW S, NEW a \in S, NEW m \in Nat, NEW F \in [1 .. m -> [S -> S]]
  PROVE  \E g \in [0 .. m -> S] : g[0] = a /\ \A k \in 1 .. m : g[k] = F[k][g[k - 1]]
<1> DEFINE Good(j) == \E g \in [0 .. j -> S] : g[0] = a /\ \A k \in 1 .. j : g[k] = F[k][g[k - 1]]
           T == {j \in Nat : j <= m => Good(j)}
<1>1. 0 \in T
  <2> DEFINE g == [k \in 0 .. 0 |-> a]
  <2>1. g[0] = a /\ \A k \in 1 .. 0 : g[k] = F[k][g[k - 1]]
    OBVIOUS
  <2>2. g \in [0 .. 0 -> S]
    OBVIOUS
  <2> QED  BY <2>1, <2>2
<1>2. ASSUME NEW j \in Nat, j \in T PROVE j + 1 \in T
  <2> SUFFICES ASSUME j + 1 <= m PROVE Good(j + 1)
    OBVIOUS
  <2>1. PICK g \in [0 .. j -> S] : g[0] = a /\ \A k \in 1 .. j : g[k] = F[k][g[k - 1]]
    BY <1>2
  <2> DEFINE h == [k \in 0 .. j + 1 |-> IF k = j + 1 THEN F[j + 1][g[j]] ELSE g[k]]
  <2>2. F[j + 1] \in [S -> S]
    OBVIOUS
  <2>3. h \in [0 .. j + 1 -> S]
    BY <2>1, <2>2
  <2>4. ASSUME NEW k \in 1 .. j + 1
        PROVE  h[k] = F[k][h[k - 1]]
    <3>1. CASE k = j + 1
      <4>1. h[k - 1] = g[j]
        BY <3>1
      <4> QED  BY <4>1, <3>1
    <3>2. CASE k # j + 1
      <4>1. h[k - 1] = g[k - 1] /\ h[k] = g[k]
        BY <3>2
      <4>2. g[k] = F[k][g[k - 1]]
        BY <2>1, <3>2
      <4> QED  BY <4>1, <4>2, <3>2
    <3> QED  BY <3>1, <3>2
  <2>5. h[0] = a
    BY <2>1
  <2> HIDE DEF h
  <2> QED  BY <2>3, <2>4, <2>5
<1> HIDE DEF T
<1>3. m \in T
  BY <1>1, <1>2, NatSet
<1> QED  BY <1>3 DEF T

\* EmitNop() always emits something, and never more than it was asked for.
LEMMA NopSizes ==
  ASSUME NEW b \in Nat, b # 0
  PROVE  NopSize(b) \in 1 .. b
BY DEF NopSize

\* EmitNops() emits exactly the bytes it was asked for, however many: its loop
\* stops, and the last nop does not overshoot.
LEMMA NopsFill ==
  ASSUME NEW b \in Nat
  PROVE  EmitNops(b) = b
<1> DEFINE Eq(f) == f = [k \in 0 .. b |-> IF k = 0 THEN 0 ELSE NopSize(k) + f[k - NopSize(k)]]
           id == [k \in 0 .. b |-> k]
           left == CHOOSE f : Eq(f)
<1>1. \A k \in 0 .. b : k # 0 => NopSize(k) \in 1 .. k
  BY NopSizes
<1>2. Eq(id)
  <2>1. ASSUME NEW k \in 0 .. b
        PROVE  k = IF k = 0 THEN 0 ELSE NopSize(k) + id[k - NopSize(k)]
    <3>1. CASE k = 0
      BY <3>1
    <3>2. CASE k # 0
      <4>1. NopSize(k) \in 1 .. k
        BY <1>1, <3>2
      <4> QED  BY <4>1, <3>2
    <3> QED  BY <3>1, <3>2
  <2> QED  BY <2>1
<1>3. Eq(left)
  <2> HIDE DEF Eq, id
  <2> QED  BY <1>2
<1>4. \A k \in 0 .. b : left[k] = k
  <2> HIDE DEF left
  <2> DEFINE T == {j \in 0 .. b : left[j] # j}
  <2> SUFFICES T = {}
    OBVIOUS
  <2> SUFFICES ASSUME T # {} PROVE FALSE
    OBVIOUS
  <2>1. T \subseteq Nat
    OBVIOUS
  <2> HIDE DEF T
  <2>2. PICK j \in T : \A i \in T : j <= i
    BY <2>1, LeastNat
  <2>3. j \in 0 .. b /\ left[j] # j
    BY <2>2 DEF T
  <2>4. j # 0
    BY <1>3, <2>3
  <2>5. NopSize(j) \in 1 .. j
    BY <1>1, <2>3, <2>4
  <2>6. j - NopSize(j) \in 0 .. b /\ j - NopSize(j) < j
    BY <2>3, <2>5
  <2>7. left[j - NopSize(j)] = j - NopSize(j)
    <3>1. j - NopSize(j) \notin T
      BY <2>2, <2>3, <2>5, <2>6
    <3> QED  BY <3>1, <2>6 DEF T
  <2>8. left[j] = NopSize(j) + left[j - NopSize(j)]
    BY <1>3, <2>3, <2>4
  <2> QED  BY <2>3, <2>5, <2>7, <2>8
<1>5. EmitNops(b) = left[b]
  BY DEF EmitNops
<1> QED  BY <1>4, <1>5
-------------------------------------------------------------------------------
(* The tracker.                                                            *)

\* The tracker between two instructions: it never counts past what it needs
\* without leaving the shadow.
Trackers == {o \in [pos : Nat, inShadow : BOOLEAN, required : Nat, current : Nat] :
                o.inShadow => o.current <= o.required}

\* Where the shadow will end at the latest: the place itself, and what is still
\* missing if one is open.
Room(o) == IF o.inShadow THEN o.pos + (o.required - o.current) ELSE o.pos

\* What every step of the tracker does: the place and the end of the shadow
\* only move forward.
Grows(o, next) == next \in Trackers /\ o.pos <= next.pos /\ Room(o) <= Room(next)

\* Two such steps are one.
LEMMA GrowsTwice ==
  ASSUME NEW o \in Trackers, NEW p, Grows(o, p), NEW q, Grows(p, q)
  PROVE  Grows(o, q)
<1>1. Room(o) \in Nat /\ Room(p) \in Nat /\ Room(q) \in Nat
  BY DEF Room, Trackers, Grows
<1> QED  BY <1>1 DEF Grows, Trackers

\* EmitInstruction() without count().
LEMMA SilentGrows ==
  ASSUME NEW o \in Trackers, NEW s \in Nat
  PROVE  Grows(o, Silent(o, s)) /\ Silent(o, s).pos = o.pos + s
<1> DEFINE p == Silent(o, s)
<1>1. o \in [pos : Nat, inShadow : BOOLEAN, required : Nat, current : Nat]
  BY DEF Trackers
<1>2. /\ p \in [pos : Nat, inShadow : BOOLEAN, required : Nat, current : Nat]
      /\ p.pos = o.pos + s /\ p.inShadow = o.inShadow /\ p.required = o.required /\ p.current = o.current
  BY <1>1 DEF Silent
<1> HIDE DEF p
<1>3. Grows(o, p)
  BY <1>1, <1>2 DEF Grows, Trackers, Room
<1> QED  BY <1>2, <1>3 DEF p

\* count() takes no more from the shadow than the bytes it counts.
LEMMA CountShrinks ==
  ASSUME NEW o \in Trackers, NEW s \in Nat
  PROVE  /\ Count(o, s) \in Trackers
         /\ Count(o, s).pos = o.pos
         /\ Room(o) <= Room(Count(o, s)) + s
<1> DEFINE p == Count(o, s)
           longer == o.current + s
<1>1. o \in [pos : Nat, inShadow : BOOLEAN, required : Nat, current : Nat] /\ longer \in Nat
  BY DEF Trackers
<1>2. CASE o.inShadow /\ longer < o.required
  <2>1. p = [o EXCEPT !.current = longer, !.inShadow = TRUE]
    BY <1>2 DEF Count
  <2> HIDE DEF longer
  <2>2. /\ p \in [pos : Nat, inShadow : BOOLEAN, required : Nat, current : Nat]
        /\ p.pos = o.pos /\ p.inShadow = TRUE
        /\ p.required = o.required /\ p.current = longer
    BY <1>1, <2>1
  <2> HIDE DEF p
  <2>3. p \in Trackers /\ Room(o) <= Room(p) + s
    BY <1>1, <1>2, <2>2 DEF Trackers, Room, longer
  <2> QED  BY <2>2, <2>3 DEF p
<1>3. CASE o.inShadow /\ ~ (longer < o.required)
  <2>a. (o.current + s < o.required) = FALSE
    BY <1>3
  <2>b. o.inShadow
    BY <1>3
  <2>1. p = [o EXCEPT !.current = longer, !.inShadow = FALSE]
    BY <2>a, <2>b DEF Count
  <2> HIDE DEF longer
  <2>2. /\ p \in [pos : Nat, inShadow : BOOLEAN, required : Nat, current : Nat]
        /\ p.pos = o.pos /\ p.inShadow = FALSE
        /\ p.required = o.required /\ p.current = longer
    BY <1>1, <2>1
  <2> HIDE DEF p
  <2>3. p \in Trackers /\ Room(o) <= Room(p) + s
    BY <1>1, <1>3, <2>2 DEF Trackers, Room, longer
  <2> QED  BY <2>2, <2>3 DEF p
<1>4. CASE ~ o.inShadow
  BY <1>1, <1>4 DEF Count, Trackers, Room
<1> QED  BY <1>2, <1>3, <1>4

\* EmitAndCountInstruction(): the bytes counted are the bytes emitted.
LEMMA EmitGrows ==
  ASSUME NEW o \in Trackers, NEW s \in Nat
  PROVE  Grows(o, Emit(o, s)) /\ Emit(o, s).pos = o.pos + s
<1> DEFINE p == Silent(o, s)
           q == Count(p, s)
<1>1. /\ p.pos = o.pos + s /\ p.inShadow = o.inShadow /\ p.required = o.required /\ p.current = o.current
  BY DEF Silent, Trackers
<1>2. p \in Trackers
  BY SilentGrows DEF Grows
<1>3. Room(p) = Room(o) + s
  BY <1>1 DEF Room, Trackers
<1>4. q \in Trackers /\ q.pos = o.pos + s /\ Room(p) <= Room(q) + s
  BY <1>1, <1>2, CountShrinks
<1>5. Room(o) \in Nat /\ Room(p) \in Nat /\ Room(q) \in Nat
  BY <1>2, <1>4 DEF Room, Trackers
<1> QED  BY <1>3, <1>4, <1>5 DEF Emit, Grows, Trackers

\* emitShadowPadding() leaves no room: what was promised is there.
LEMMA PadGrows ==
  ASSUME NEW o \in Trackers
  PROVE  Grows(o, Pad(o)) /\ Pad(o).pos = Room(o) /\ Room(Pad(o)) = Room(o)
<1> DEFINE gap == o.required - o.current
           p == Pad(o)
<1>1. o \in [pos : Nat, inShadow : BOOLEAN, required : Nat, current : Nat]
  BY DEF Trackers
<1>2. CASE o.inShadow /\ o.current < o.required
  <2>1. gap \in Nat /\ EmitNops(gap) = gap
    BY <1>1, <1>2, NopsFill
  <2>2. p = [Silent(o, gap) EXCEPT !.inShadow = FALSE]
    BY <1>2, <2>1 DEF Pad
  <2>3. Silent(o, gap) = [o EXCEPT !.pos = o.pos + gap]
    BY DEF Silent
  <2> HIDE DEF gap, p
  <2>4. /\ p \in [pos : Nat, inShadow : BOOLEAN, required : Nat, current : Nat]
        /\ p.pos = o.pos + gap /\ p.inShadow = FALSE
    <3> DEFINE q == Silent(o, gap)
    <3>1. /\ q \in [pos : Nat, inShadow : BOOLEAN, required : Nat, current : Nat]
          /\ q.pos = o.pos + gap
      BY <1>1, <2>1, <2>3
    <3> HIDE DEF q
    <3>2. p = [q EXCEPT !.inShadow = FALSE]
      BY <2>2 DEF q
    <3> QED  BY <3>1, <3>2
  <2>5. Grows(o, p) /\ p.pos = Room(o) /\ Room(p) = Room(o)
    BY <1>1, <1>2, <2>1, <2>4 DEF Grows, Trackers, Room, gap
  <2> QED  BY <2>5 DEF p
<1>3. CASE ~ (o.inShadow /\ o.current < o.required)
  <2>1. Pad(o) = o
    BY <1>3 DEF Pad
  <2> QED  BY <1>1, <1>3, <2>1 DEF Grows, Trackers, Room
<1> QED  BY <1>2, <1>3

\* A call: its return address lies at or behind the end of the shadow.
LEMMA CalledGrows ==
  ASSUME NEW o \in Trackers, NEW s \in Nat
  PROVE  Grows(o, Called(o, s)) /\ o.pos + s <= Called(o, s).pos /\ Room(o) <= Called(o, s).pos
<1> DEFINE p == Count(o, s)
           q == Pad(p)
           r == Silent(q, s)
<1>1. p \in Trackers /\ p.pos = o.pos /\ Room(o) <= Room(p) + s
  BY CountShrinks
<1> HIDE DEF p
<1>2. Grows(p, q) /\ q.pos = Room(p) /\ Room(q) = Room(p)
  BY <1>1, PadGrows
<1> HIDE DEF q
<1>3. Grows(q, r) /\ r.pos = q.pos + s
  BY <1>2, SilentGrows DEF Grows
<1> HIDE DEF r
<1>4. Room(o) \in Nat /\ Room(p) \in Nat /\ Room(q) \in Nat /\ Room(r) \in Nat
  BY <1>1, <1>2, <1>3 DEF Room, Trackers, Grows
<1>5. o.pos \in Nat /\ p.pos \in Nat /\ q.pos \in Nat
  BY <1>1, <1>2 DEF Trackers, Grows
<1>6. r.pos <= Room(r)
  BY <1>3 DEF Room, Trackers, Grows
<1>7. Grows(o, r) /\ o.pos + s <= r.pos /\ Room(o) <= r.pos
  BY <1>1, <1>2, <1>3, <1>4, <1>5, <1>6 DEF Grows
<1> QED  BY <1>7 DEF Called, r, q, p

\* A new stack map after the padding: the shadow begins here.
LEMMA ResetGrows ==
  ASSUME NEW o \in Trackers, Room(o) = o.pos, NEW b \in Nat
  PROVE  Grows(o, Reset(o, b)) /\ Reset(o, b).pos = o.pos /\ Room(Reset(o, b)) = o.pos + b
<1> DEFINE p == Reset(o, b)
<1>1. o \in [pos : Nat, inShadow : BOOLEAN, required : Nat, current : Nat]
  BY DEF Trackers
<1>2. /\ p \in [pos : Nat, inShadow : BOOLEAN, required : Nat, current : Nat]
      /\ p.pos = o.pos /\ p.inShadow = TRUE /\ p.required = b /\ p.current = 0
  BY <1>1 DEF Reset
<1> HIDE DEF p
<1>3. Grows(o, p) /\ p.pos = o.pos /\ Room(p) = o.pos + b
  BY <1>1, <1>2 DEF Grows, Trackers, Room
<1> QED  BY <1>3 DEF p

\* EmitCodeAlignment(2): an even place, at most a byte further.
LEMMA AlignGrows ==
  ASSUME NEW o \in Trackers
  PROVE  Grows(o, Align2(o)) /\ Align2(o).pos % 2 = 0
<1> DEFINE odd == o.pos % 2
<1>1. odd \in Nat /\ (o.pos + odd) % 2 = 0
  BY DEF Trackers
<1>2. Align2(o) = Silent(o, odd)
  BY DEF Align2
<1> HIDE DEF odd
<1>3. Grows(o, Silent(o, odd)) /\ Silent(o, odd).pos = o.pos + odd
  BY <1>1, SilentGrows
<1> QED  BY <1>1, <1>2, <1>3

\* EmitAll one instruction at a time.
LEMMA EmitAllSteps ==
  ASSUME NEW o \in Trackers, NEW sizes \in Seq(Nat)
  PROVE  \E g \in [0 .. Len(sizes) -> Trackers] :
            /\ g[0] = o
            /\ \A k \in 1 .. Len(sizes) : g[k] = Emit(g[k - 1], sizes[k])
            /\ EmitAll(o, sizes) = g[Len(sizes)]
<1> DEFINE m == Len(sizes)
           F == [k \in 1 .. m |-> [p \in Trackers |-> Emit(p, sizes[k])]]
           Is(f) == f = [k \in 0 .. m |-> IF k = 0 THEN o ELSE Emit(f[k - 1], sizes[k])]
           upTo == CHOOSE f : Is(f)
<1>1. m \in Nat /\ \A k \in 1 .. m : sizes[k] \in Nat
  OBVIOUS
<1>2. F \in [1 .. m -> [Trackers -> Trackers]]
  <2>1. \A k \in 1 .. m, p \in Trackers : Emit(p, sizes[k]) \in Trackers
    BY <1>1, EmitGrows DEF Grows
  <2> QED  BY <2>1
<1> HIDE DEF F, m
<1>3. PICK g \in [0 .. m -> Trackers] : g[0] = o /\ \A k \in 1 .. m : g[k] = F[k][g[k - 1]]
  <2>1. m \in Nat
    BY <1>1
  <2> QED  BY <2>1, <1>2, Iterates
<1>4. \A k \in 1 .. m : F[k][g[k - 1]] = Emit(g[k - 1], sizes[k])
  <2> SUFFICES ASSUME NEW k \in 1 .. m PROVE F[k][g[k - 1]] = Emit(g[k - 1], sizes[k])
    OBVIOUS
  <2>1. g[k - 1] \in Trackers
    BY <1>1, <1>3
  <2> QED  BY <2>1 DEF F
<1>5. Is(g)
  <2>1. \A k \in 0 .. m : g[k] = IF k = 0 THEN o ELSE Emit(g[k - 1], sizes[k])
    BY <1>1, <1>3, <1>4
  <2>2. g = [k \in 0 .. m |-> g[k]]
    BY <1>3
  <2> QED  BY <2>1, <2>2
<1>6. Is(upTo)
  <2> HIDE DEF Is
  <2> QED  BY <1>5
<1>7. EmitAll(o, sizes) = upTo[m]
  BY DEF EmitAll, m
<1> HIDE DEF upTo
<1>8. upTo \in [0 .. m -> Trackers]
  <2> DEFINE T == {k \in Nat : k <= m => upTo[k] \in Trackers}
  <2>1. 0 \in T
    BY <1>1, <1>6
  <2>2. ASSUME NEW k \in Nat, k \in T PROVE k + 1 \in T
    <3> SUFFICES ASSUME k + 1 <= m PROVE upTo[k + 1] \in Trackers
      OBVIOUS
    <3>1. upTo[k] \in Trackers
      BY <1>1, <2>2
    <3>2. upTo[k + 1] = Emit(upTo[k], sizes[k + 1])
      BY <1>1, <1>6
    <3>3. sizes[k + 1] \in Nat
      BY <1>1
    <3> QED  BY <3>1, <3>2, <3>3, EmitGrows DEF Grows
  <2> HIDE DEF T
  <2>3. \A k \in Nat : k \in T
    BY <2>1, <2>2, NatSet
  <2>4. \A k \in 0 .. m : upTo[k] \in Trackers
    BY <1>1, <2>3 DEF T
  <2> QED  BY <1>6, <2>4
<1>9. upTo[0] = o /\ \A k \in 1 .. m : upTo[k] = Emit(upTo[k - 1], sizes[k])
  BY <1>1, <1>6
<1> QED  BY <1>7, <1>8, <1>9 DEF m
-------------------------------------------------------------------------------
(* Sequences of instructions.                                              *)

\* The history of one loop over the operands of an event sled.
EachStep(o, dest, src, size, nops, g) ==
  /\ g \in [0 .. Len(dest) -> Trackers]
  /\ g[0] = o
  /\ \A i \in 1 .. Len(dest) :
       g[i] = IF i \in UsedMask(dest, src) THEN Emit(g[i - 1], size) ELSE Silent(g[i - 1], nops)

\* PerOperand one operand at a time.
LEMMA PerOperandSteps ==
  ASSUME NEW o \in Trackers, NEW dest, Len(dest) \in Nat, NEW src, NEW size \in Nat, NEW nops \in Nat
  PROVE  \E g : EachStep(o, dest, src, size, nops, g) /\ PerOperand(o, dest, src, size, nops) = g[Len(dest)]
<1> DEFINE m == Len(dest)
           U == UsedMask(dest, src)
           F == [i \in 1 .. m |-> [p \in Trackers |-> IF i \in U THEN Emit(p, size) ELSE Silent(p, nops)]]
<1>1. m \in Nat
  OBVIOUS
<1>n. EmitNops(nops) = nops
  BY NopsFill
<1>2. F \in [1 .. m -> [Trackers -> Trackers]]
  <2>1. \A p \in Trackers : Emit(p, size) \in Trackers /\ Silent(p, nops) \in Trackers
    BY EmitGrows, SilentGrows DEF Grows
  <2> QED  BY <2>1
<1> HIDE DEF F, m, U
<1>3. PICK g \in [0 .. m -> Trackers] : g[0] = o /\ \A k \in 1 .. m : g[k] = F[k][g[k - 1]]
  <2>1. m \in Nat
    BY <1>1
  <2> QED  BY <2>1, <1>2, Iterates, SMTT(60)
<1>4. \A i \in 1 .. m : F[i][g[i - 1]] = IF i \in U THEN Emit(g[i - 1], size) ELSE Silent(g[i - 1], nops)
  <2> SUFFICES ASSUME NEW i \in 1 .. m
               PROVE  F[i][g[i - 1]] = IF i \in U THEN Emit(g[i - 1], size) ELSE Silent(g[i - 1], nops)
    OBVIOUS
  <2>1. g[i - 1] \in Trackers
    BY <1>1, <1>3
  <2> QED  BY <2>1 DEF F
<1> DEFINE Is(f) == f = [i \in 0 .. m |-> IF i = 0 THEN o
                                          ELSE IF i \in U THEN Emit(f[i - 1], size)
                                          ELSE Silent(f[i - 1], EmitNops(nops))]
           upTo == CHOOSE f : Is(f)
<1>5. Is(g)
  <2>1. \A i \in 0 .. m : g[i] = IF i = 0 THEN o ELSE IF i \in U THEN Emit(g[i - 1], size)
                                 ELSE Silent(g[i - 1], EmitNops(nops))
    BY <1>1, <1>3, <1>4, <1>n
  <2>2. g = [i \in 0 .. m |-> g[i]]
    BY <1>3
  <2> QED  BY <2>1, <2>2
<1>6. Is(upTo)
  <2> HIDE DEF Is
  <2> QED  BY <1>5
<1>7. PerOperand(o, dest, src, size, nops) = upTo[m]
  BY DEF PerOperand, m, U
<1> HIDE DEF upTo
<1>8. upTo \in [0 .. m -> Trackers]
  <2> DEFINE T == {k \in Nat : k <= m => upTo[k] \in Trackers}
  <2>1. 0 \in T
    BY <1>1, <1>6
  <2>2. ASSUME NEW k \in Nat, k \in T PROVE k + 1 \in T
    <3> SUFFICES ASSUME k + 1 <= m PROVE upTo[k + 1] \in Trackers
      OBVIOUS
    <3>1. upTo[k] \in Trackers
      BY <1>1, <2>2
    <3>2. upTo[k + 1] = IF k + 1 \in U THEN Emit(upTo[k], size) ELSE Silent(upTo[k], nops)
      BY <1>1, <1>6, <1>n
    <3> QED  BY <3>1, <3>2, EmitGrows, SilentGrows DEF Grows
  <2> HIDE DEF T
  <2>3. \A k \in Nat : k \in T
    BY <2>1, <2>2, NatSet
  <2>4. \A k \in 0 .. m : upTo[k] \in Trackers
    BY <1>1, <2>3 DEF T
  <2> QED  BY <1>6, <2>4
<1>9. upTo[0] = o /\ \A i \in 1 .. m : upTo[i] = IF i \in U THEN Emit(upTo[i - 1], size) ELSE Silent(upTo[i - 1], nops)
  BY <1>1, <1>6, <1>n
<1> QED  BY <1>7, <1>8, <1>9 DEF m, U, EachStep

\* Each of them moves the tracker forward by its cost.
LEMMA EachStepGrows ==
  ASSUME NEW o \in Trackers, NEW dest, NEW src, NEW size \in Nat, NEW nops \in Nat, NEW g,
         EachStep(o, dest, src, size, nops, g), NEW i \in 1 .. Len(dest), Len(dest) \in Nat
  PROVE  /\ Grows(g[i - 1], g[i])
         /\ g[i].pos = g[i - 1].pos + (IF i \in UsedMask(dest, src) THEN size ELSE nops)
<1>1. g[i - 1] \in Trackers
  BY DEF EachStep
<1>2. g[i] = IF i \in UsedMask(dest, src) THEN Emit(g[i - 1], size) ELSE Silent(g[i - 1], nops)
  BY DEF EachStep
<1> QED  BY <1>1, <1>2, EmitGrows, SilentGrows

\* What one operand costs, in place or not.
Cost(dest, src, i, size, nops) == IF i \in UsedMask(dest, src) THEN size ELSE nops

\* A loop over two or three operands: forward, by the sum of their costs.
LEMMA PerOperandPos ==
  ASSUME NEW o \in Trackers, NEW dest, NEW src, NEW size \in Nat, NEW nops \in Nat,
         Len(dest) \in {2, 3}
  PROVE  LET p == PerOperand(o, dest, src, size, nops)
         IN  /\ Grows(o, p)
             /\ p.pos = o.pos + Cost(dest, src, 1, size, nops) + Cost(dest, src, 2, size, nops)
                              + (IF Len(dest) = 3 THEN Cost(dest, src, 3, size, nops) ELSE 0)
<1> DEFINE p == PerOperand(o, dest, src, size, nops)
           C(i) == Cost(dest, src, i, size, nops)
<1>1. Len(dest) \in Nat /\ (Len(dest) = 2 \/ Len(dest) = 3)
  OBVIOUS
<1>2. PICK g : EachStep(o, dest, src, size, nops, g) /\ p = g[Len(dest)]
  BY <1>1, PerOperandSteps
<1> HIDE DEF p
<1>3. g[0] = o
  BY <1>2 DEF EachStep
<1>4. Grows(o, g[1]) /\ g[1].pos = o.pos + C(1)
  <2>1. 1 \in 1 .. Len(dest) /\ g[1 - 1] = o
    BY <1>1, <1>3
  <2> QED  BY <1>1, <1>2, <2>1, EachStepGrows DEF Cost
<1>5. Grows(g[1], g[2]) /\ g[2].pos = g[1].pos + C(2)
  <2>1. 2 \in 1 .. Len(dest) /\ g[2 - 1] = g[1]
    BY <1>1
  <2> QED  BY <1>1, <1>2, <2>1, EachStepGrows DEF Cost
<1>6. g[1] \in Trackers /\ g[2] \in Trackers
  BY <1>4, <1>5 DEF Grows
<1>7. Grows(o, g[2])
  BY <1>4, <1>5, <1>6, GrowsTwice
<1>8. C(1) \in Nat /\ C(2) \in Nat /\ C(3) \in Nat /\ o.pos \in Nat
  BY DEF Cost, Trackers
<1>t. CASE Len(dest) = 3
  <2>1. 3 \in 1 .. Len(dest) /\ g[3 - 1] = g[2]
    BY <1>t
  <2>2. Grows(g[2], g[3]) /\ g[3].pos = g[2].pos + C(3)
    <3>1. Grows(g[3 - 1], g[3]) /\ g[3].pos = g[3 - 1].pos + (IF 3 \in UsedMask(dest, src) THEN size ELSE nops)
      BY <1>1, <1>2, <2>1, EachStepGrows
    <3> QED  BY <2>1, <3>1 DEF Cost
  <2>3. Grows(o, g[3])
    BY <1>6, <1>7, <2>2, GrowsTwice
  <2> QED  BY <1>2, <1>4, <1>5, <1>8, <1>t, <2>2, <2>3 DEF p
<1> HIDE DEF C
<1>9. g[2].pos = o.pos + C(1) + C(2)
  BY <1>4, <1>5, <1>8
<1>10. CASE Len(dest) = 2
  BY <1>2, <1>7, <1>8, <1>9, <1>10 DEF p, C
<1> QED  BY <1>1, <1>10, <1>t DEF C

\* One instruction of EmitAll.
LEMMA EmitAllStep ==
  ASSUME NEW o \in Trackers, NEW sizes \in Seq(Nat), NEW g \in [0 .. Len(sizes) -> Trackers],
         \A k \in 1 .. Len(sizes) : g[k] = Emit(g[k - 1], sizes[k]),
         NEW k \in 1 .. Len(sizes)
  PROVE  Grows(g[k - 1], g[k]) /\ g[k].pos = g[k - 1].pos + sizes[k]
<1>1. Len(sizes) \in Nat
  OBVIOUS
<1>2. g[k - 1] \in Trackers /\ sizes[k] \in Nat
  BY <1>1
<1> QED  BY <1>2, EmitGrows

\* Any sequence of instructions moves the tracker forward.
LEMMA EmitAllGrows ==
  ASSUME NEW o \in Trackers, NEW sizes \in Seq(Nat)
  PROVE  Grows(o, EmitAll(o, sizes))
<1>1. PICK g \in [0 .. Len(sizes) -> Trackers] :
            /\ g[0] = o
            /\ \A k \in 1 .. Len(sizes) : g[k] = Emit(g[k - 1], sizes[k])
            /\ EmitAll(o, sizes) = g[Len(sizes)]
  BY EmitAllSteps
<1> DEFINE T == {k \in Nat : k <= Len(sizes) => Grows(o, g[k])}
<1>2. Len(sizes) \in Nat
  OBVIOUS
<1>3. 0 \in T
  BY <1>1 DEF Grows, Trackers, Room
<1>4. ASSUME NEW k \in Nat, k \in T PROVE k + 1 \in T
  <2> SUFFICES ASSUME k + 1 <= Len(sizes) PROVE Grows(o, g[k + 1])
    OBVIOUS
  <2>1. k + 1 \in 1 .. Len(sizes) /\ (k + 1) - 1 = k
    BY <1>2
  <2>2. Grows(g[k], g[k + 1])
    BY <1>1, <2>1, EmitAllStep
  <2>3. Grows(o, g[k])
    BY <1>2, <1>4
  <2> QED  BY <2>2, <2>3, GrowsTwice
<1> HIDE DEF T
<1>5. Len(sizes) \in T
  BY <1>2, <1>3, <1>4, NatSet
<1> QED  BY <1>1, <1>2, <1>5 DEF T

\* Two instructions are as long as they are together.
LEMMA EmitTwoPos ==
  ASSUME NEW o \in Trackers, NEW a \in Nat, NEW b \in Nat
  PROVE  /\ Grows(o, EmitAll(o, <<a, b>>))
         /\ EmitAll(o, <<a, b>>).pos = o.pos + a + b
<1> DEFINE sizes == <<a, b>>
<1>1. sizes \in Seq(Nat) /\ Len(sizes) = 2 /\ sizes[1] = a /\ sizes[2] = b
  OBVIOUS
<1> HIDE DEF sizes
<1>2. PICK g \in [0 .. Len(sizes) -> Trackers] :
            /\ g[0] = o
            /\ \A k \in 1 .. Len(sizes) : g[k] = Emit(g[k - 1], sizes[k])
            /\ EmitAll(o, sizes) = g[Len(sizes)]
  BY <1>1, EmitAllSteps
<1>3. g[1] = Emit(o, a) /\ g[2] = Emit(g[1], b) /\ EmitAll(o, sizes) = g[2]
  BY <1>1, <1>2
<1>4. Grows(o, g[1]) /\ g[1].pos = o.pos + a
  BY <1>3, EmitGrows
<1>5. Grows(g[1], g[2]) /\ g[2].pos = g[1].pos + b
  BY <1>3, <1>4, EmitGrows DEF Grows
<1>6. Grows(o, g[2])
  BY <1>4, <1>5, GrowsTwice
<1>7. EmitAll(o, sizes).pos = o.pos + a + b
  BY <1>3, <1>4, <1>5
<1> QED  BY <1>3, <1>6, <1>7 DEF sizes

\* The TLS sequences of LowerTlsAddr() have the length the linker expects.
LEMMA EmitTlsPos ==
  ASSUME NEW o \in Trackers
  PROVE  LET sizes == <<1, 7, 1, 1, 1, CallRel>>
         IN  /\ Grows(o, EmitAll(o, sizes))
             /\ EmitAll(o, sizes).pos = o.pos + 16
<1> DEFINE sizes == <<1, 7, 1, 1, 1, CallRel>>
<1>1. /\ sizes \in Seq(Nat) /\ Len(sizes) = 6
      /\ sizes[1] = 1 /\ sizes[2] = 7 /\ sizes[3] = 1 /\ sizes[4] = 1 /\ sizes[5] = 1 /\ sizes[6] = 5
  BY DEF CallRel
<1> HIDE DEF sizes
<1>2. PICK g \in [0 .. Len(sizes) -> Trackers] :
            /\ g[0] = o
            /\ \A k \in 1 .. Len(sizes) : g[k] = Emit(g[k - 1], sizes[k])
            /\ EmitAll(o, sizes) = g[Len(sizes)]
  BY <1>1, EmitAllSteps
<1>3. ASSUME NEW k \in 1 .. 6
      PROVE  g[k].pos = g[k - 1].pos + sizes[k]
  <2>1. g[k] = Emit(g[k - 1], sizes[k]) /\ g[k - 1] \in Trackers /\ sizes[k] \in Nat
    BY <1>1, <1>2
  <2> QED  BY <2>1, EmitGrows
<1>4. /\ g[1].pos = g[0].pos + 1 /\ g[2].pos = g[1].pos + 7 /\ g[3].pos = g[2].pos + 1
      /\ g[4].pos = g[3].pos + 1 /\ g[5].pos = g[4].pos + 1 /\ g[6].pos = g[5].pos + 5
  BY <1>1, <1>3
<1>5. g[0].pos = o.pos /\ o.pos \in Nat
  BY <1>2 DEF Trackers
<1>6. g[6].pos = o.pos + 16
  BY <1>4, <1>5
<1> QED  BY <1>1, <1>2, <1>6, EmitAllGrows DEF sizes

\* One instruction.
LEMMA EmitOnePos ==
  ASSUME NEW o \in Trackers, NEW a \in Nat
  PROVE  /\ Grows(o, EmitAll(o, <<a>>))
         /\ EmitAll(o, <<a>>).pos = o.pos + a
<1> DEFINE sizes == <<a>>
<1>1. sizes \in Seq(Nat) /\ Len(sizes) = 1 /\ sizes[1] = a
  OBVIOUS
<1> HIDE DEF sizes
<1>2. PICK g \in [0 .. Len(sizes) -> Trackers] :
            /\ g[0] = o
            /\ \A k \in 1 .. Len(sizes) : g[k] = Emit(g[k - 1], sizes[k])
            /\ EmitAll(o, sizes) = g[Len(sizes)]
  BY <1>1, EmitAllSteps
<1>3. EmitAll(o, sizes) = Emit(o, a)
  BY <1>1, <1>2
<1> QED  BY <1>3, EmitGrows DEF sizes

\* No instruction is empty.
LEMMA SizePositive == \A mi : Size(mi) \in 1 .. 6
BY DEF Size
-------------------------------------------------------------------------------
(* Every step Moves.                                                       *)

\* Who leaves a place where control may arrive, and the kinds of pieces.
Origins == {"call", "tls", "pc", "fentry", "statepoint", "patchpoint", "event", "hop", "block"}

\* The pieces that are rewritten as a whole.
Kinds == {"tls", "statepoint", "patchpoint", "enter", "op", "event", "ret", "tailcall"}

\* The origins ShadowBlame blames, and the ones an epilog may coincide with.
Excused == {"tls", "statepoint", "event", "hop"}

\* The origins that the nop in front of an epilog does not look at.
Behind == {"block", "hop", "statepoint", "patchpoint"}

\* One piece, as PiecesExact wants it.
Piece(w) ==
  /\ w \in [kind : Kinds, at : Nat, len : Nat, want : Nat]
  /\ w.len >= w.want
  /\ w.kind \notin {"ret", "op"} => w.len = w.want
  /\ w.kind \in {"enter", "ret", "tailcall", "event"} => w.at % 2 = 0

\* What every new place where control may arrive satisfies: if it is blamed on
\* nobody it is behind every open shadow, and if it is not exempt from the
\* epilog's nop it is behind the old end of the code and `called' is set.
Landing(l) ==
  /\ l \in [at : Nat, by : Origins]
  /\ l.by \in Excused \/ maps = {} \/ Room(out) <= l.at
  /\ l.by \in Excused \/ l.at <= out'.pos
  /\ l.by \in Behind \/ out.pos < l.at
  /\ l.by \in Behind \/ l.at <= out'.pos
  /\ l.by \in Behind \cup {"fentry"} \/ l.at # out'.pos \/ called'

\* What a step needs of the state before it.
Ready ==
  /\ is64 \in BOOLEAN /\ out \in Trackers /\ n \in Nat /\ called \in BOOLEAN
  /\ n = 0 \/ ~is64 => maps = {}

\* What every step does to the bytes, the places, the stack maps and the
\* pieces.  All the lowerings are shown to be Moves, and everything below about
\* the invariant uses Moves alone.
Moves ==
  /\ Grows(out, out')
  /\ is64' = is64 /\ n' \in Nat /\ n <= n' /\ called' \in BOOLEAN
  /\ called' \/ ~called \/ out.pos < out'.pos
  /\ \/ maps' = maps
     \/ /\ is64 /\ n < n' /\ lands' = lands
        /\ \E b \in ShadowSizes : /\ maps' = maps \cup {[at |-> out'.pos, len |-> b]}
                                  /\ Room(out') = out'.pos + b
  /\ \A l \in lands' : l \in lands \/ Landing(l)
  /\ \/ epilogs' = epilogs
     \/ /\ epilogs' = epilogs \cup {out'.pos} /\ lands' = lands /\ called' = called
        /\ called => out.pos < out'.pos
        /\ \A l \in lands : l.by = "fentry" => l.at < out.pos
  /\ done' => Room(out') = out'.pos
  /\ \A w \in whole' : w \in whole \/ Piece(w)

\* A step that lowers a machine instruction.
LEMMA OneMoreNat ==
  ASSUME Ready, OneMore
  PROVE  is64' = is64 /\ n' \in Nat /\ n < n' /\ n <= n' /\ ~ done'
BY DEF Ready, OneMore

\* A new place, from its parts.
LEMMA LandingAt ==
  ASSUME NEW at \in Nat, NEW by \in Origins,
         by \in Excused \/ maps = {} \/ Room(out) <= at,
         by \in Excused \/ at <= out'.pos,
         by \in Behind \/ out.pos < at,
         by \in Behind \/ at <= out'.pos,
         by \in Behind \cup {"fentry"} \/ at # out'.pos \/ called'
  PROVE  Landing([at |-> at, by |-> by])
<1> DEFINE l == [at |-> at, by |-> by]
<1>1. l \in [at : Nat, by : Origins] /\ l.at = at /\ l.by = by
  OBVIOUS
<1> HIDE DEF l
<1>2. Landing(l)
  BY <1>1 DEF Landing
<1> QED  BY <1>2 DEF l

\* A new piece, from its parts.
LEMMA PieceOf ==
  ASSUME NEW kind \in Kinds, NEW at \in Nat, NEW len \in Nat, NEW want \in Nat,
         len >= want, kind \notin {"ret", "op"} => len = want,
         kind \in {"enter", "ret", "tailcall", "event"} => at % 2 = 0
  PROVE  Piece([kind |-> kind, at |-> at, len |-> len, want |-> want])
BY DEF Piece

\* EmitInstruction(), the default case, calls among it.
LEMMA MovesInstruction ==
  ASSUME Ready, NEW mi \in Samples, EmitInstruction(mi)
  PROVE  Moves
<1> DEFINE s == Size(Lower(mi))
<1>1. s \in Nat /\ 1 <= s
  BY SizePositive
<1>2. out' = IF mi.op \in Calls THEN Called(out, s) ELSE Emit(out, s)
  BY DEF EmitInstruction
<1> HIDE DEF s
<1>3. out \in Trackers /\ out.pos \in Nat
  BY DEF Ready, Trackers
<1>4. Grows(out, out') /\ out.pos + s <= out'.pos /\ (mi.op \in Calls => Room(out) <= out'.pos)
  <2>1. CASE mi.op \in Calls
    BY <1>1, <1>2, <1>3, <2>1, CalledGrows
  <2>2. CASE mi.op \notin Calls
    BY <1>1, <1>2, <1>3, <2>2, EmitGrows
  <2> QED  BY <2>1, <2>2
<1>5. out'.pos \in Nat /\ out.pos < out'.pos
  BY <1>1, <1>3, <1>4 DEF Grows, Trackers
<1>6. OneMore /\ called' \in BOOLEAN /\ maps' = maps /\ epilogs' = epilogs /\ whole' = whole
  BY DEF EmitInstruction
<1>7. \A l \in lands' : l \in lands \/ Landing(l)
  <2>1. CASE mi.op = "call"
    <3>1. lands' = lands \cup {[at |-> out'.pos, by |-> "call"]}
      BY <2>1 DEF EmitInstruction, Land
    <3>2. mi.op \in Calls /\ called' = TRUE
      BY <2>1 DEF EmitInstruction, Calls
    <3>3. Landing([at |-> out'.pos, by |-> "call"])
      <4>1. "call" \in Origins
        BY DEF Origins
      <4> QED  BY <1>4, <1>5, <3>2, <4>1, LandingAt
    <3> QED  BY <3>1, <3>3
  <2>2. CASE mi.op # "call"
    BY <2>2 DEF EmitInstruction
  <2> QED  BY <2>1, <2>2
<1> QED  BY <1>4, <1>5, <1>6, <1>7, OneMoreNat DEF Moves

\* LowerTlsAddr().
LEMMA MovesTls ==
  ASSUME Ready, NEW general \in BOOLEAN, LowerTlsAddr(general)
  PROVE  Moves
<1> DEFINE sizes == IF is64 THEN IF general THEN <<1, 7, 1, 1, 1, CallRel>> ELSE <<7, CallRel>>
                            ELSE IF general THEN <<7, CallRel>> ELSE <<6, CallRel>>
           want == IF is64 THEN IF general THEN 16 ELSE 12 ELSE IF general THEN 12 ELSE 11
<1>1. out' = EmitAll(out, sizes)
  BY DEF LowerTlsAddr
<1>2. out \in Trackers /\ out.pos \in Nat
  BY DEF Ready, Trackers
<1>3. Grows(out, out') /\ out'.pos = out.pos + want
  <2>1. CASE is64 /\ general
    BY <1>1, <1>2, <2>1, EmitTlsPos
  <2>2. CASE (is64 /\ ~general) \/ (~is64 /\ general)
    <3>1. sizes = <<7, 5>> /\ want = 12
      BY <2>2 DEF CallRel
    <3> HIDE DEF sizes, want
    <3> QED  BY <1>1, <1>2, <3>1, EmitTwoPos
  <2>3. CASE ~is64 /\ ~general
    <3>1. sizes = <<6, 5>> /\ want = 11
      BY <2>3 DEF CallRel
    <3> HIDE DEF sizes, want
    <3> QED  BY <1>1, <1>2, <3>1, EmitTwoPos
  <2> QED  BY <2>1, <2>2, <2>3
<1>4. want \in Nat /\ want > 0
  OBVIOUS
<1>5. /\ lands' = lands \cup {[at |-> out'.pos, by |-> "tls"]}
      /\ whole' = whole \cup {[kind |-> "tls", at |-> out.pos, len |-> out'.pos - out.pos, want |-> want]}
      /\ OneMore /\ called' = TRUE /\ maps' = maps /\ epilogs' = epilogs
  BY DEF LowerTlsAddr, Land, Whole
<1> HIDE DEF want
<1>6. out'.pos \in Nat /\ out.pos < out'.pos /\ out'.pos - out.pos = want
  BY <1>2, <1>3, <1>4
<1>7. Landing([at |-> out'.pos, by |-> "tls"])
  <2>1. "tls" \in Excused /\ "tls" \in Origins
    BY DEF Excused, Origins
  <2> QED  BY <1>5, <1>6, <2>1, LandingAt
<1>8. Piece([kind |-> "tls", at |-> out.pos, len |-> out'.pos - out.pos, want |-> want])
  <2>1. "tls" \in Kinds
    BY DEF Kinds
  <2> QED  BY <1>2, <1>4, <1>6, <2>1, PieceOf
<1> QED  BY <1>3, <1>5, <1>6, <1>7, <1>8, OneMoreNat DEF Moves

\* MOVPC32r.
LEMMA MovesPC32r ==
  ASSUME Ready, LowerMOVPC32r
  PROVE  Moves
<1>1. out' = EmitAll(out, <<5, 1>>)
  BY DEF LowerMOVPC32r, CallRel, PushPop
<1>2. out \in Trackers /\ out.pos \in Nat /\ maps = {}
  BY DEF Ready, Trackers, LowerMOVPC32r
<1>3. Grows(out, out') /\ out'.pos = out.pos + 5 + 1
  BY <1>1, <1>2, EmitTwoPos
<1>4. /\ lands' = lands \cup {[at |-> out.pos + 5, by |-> "pc"]}
      /\ OneMore /\ called' = FALSE /\ maps' = maps /\ epilogs' = epilogs /\ whole' = whole
  BY DEF LowerMOVPC32r, Land, CallRel
<1>5. /\ out'.pos \in Nat /\ out.pos + 5 \in Nat /\ out.pos < out.pos + 5
      /\ out.pos + 5 < out'.pos /\ out.pos < out'.pos /\ out.pos + 5 <= out'.pos
  BY <1>2, <1>3
<1>6. Landing([at |-> out.pos + 5, by |-> "pc"])
  <2>1. "pc" \in Origins
    BY DEF Origins
  <2> QED  BY <1>2, <1>5, <2>1, LandingAt
<1> QED  BY <1>3, <1>4, <1>5, <1>6, OneMoreNat DEF Moves

\* MORESTACK_RET and MORESTACK_RET_RESTORE_R10.
LEMMA MovesMORESTACK ==
  ASSUME Ready, NEW restore \in BOOLEAN, LowerMORESTACK_RET(restore)
  PROVE  Moves
<1>1. out \in Trackers /\ out.pos \in Nat
  BY DEF Ready, Trackers
<1>2. Grows(out, out') /\ out.pos < out'.pos
  <2>1. CASE restore
    <3>1. out' = EmitAll(out, <<1, 3>>)
      BY <2>1 DEF LowerMORESTACK_RET, MovReg
    <3> QED  BY <1>1, <3>1, EmitTwoPos
  <2>2. CASE ~ restore
    <3>1. out' = EmitAll(out, <<1>>)
      BY <2>2 DEF LowerMORESTACK_RET
    <3> QED  BY <1>1, <3>1, EmitOnePos
  <2> QED  BY <2>1, <2>2
<1>3. OneMore /\ called' = FALSE /\ UNCHANGED <<lands, maps, whole, epilogs>>
  BY DEF LowerMORESTACK_RET
<1> QED  BY <1>2, <1>3, OneMoreNat DEF Moves

\* SEH_Epilogue.
LEMMA MovesEpilogue ==
  ASSUME Ready, LowerSEH_Epilogue
  PROVE  Moves
<1>1. out \in Trackers /\ out.pos \in Nat
  BY DEF Ready, Trackers
<1>2. Grows(out, out') /\ (called => out.pos < out'.pos)
  <2>1. CASE called
    BY <1>1, <2>1, EmitGrows DEF LowerSEH_Epilogue, BeforeEpilog
  <2>2. CASE ~ called
    <3>1. out' = out
      BY <2>2 DEF LowerSEH_Epilogue, BeforeEpilog
    <3> QED  BY <1>1, <2>2, <3>1 DEF Grows, Room, Trackers
  <2> QED  BY <2>1, <2>2
<1>3. /\ OneMore /\ UNCHANGED <<lands, maps, whole, called>>
      /\ epilogs' = epilogs \cup {out'.pos}
      /\ \A l \in lands : l.by = "fentry" => l.at < out.pos
  BY DEF LowerSEH_Epilogue
<1> QED  BY <1>2, <1>3, OneMoreNat DEF Moves, Ready

\* A pseudo instruction leaves `called' as it was.
LEMMA PseudoFacts ==
  ASSUME Ready, Pseudo
  PROVE  /\ is64' = is64 /\ n' \in Nat /\ n < n' /\ n <= n' /\ ~ done'
         /\ called' = called /\ called' \in BOOLEAN /\ epilogs' = epilogs
         /\ out \in Trackers /\ out.pos \in Nat /\ Room(out) \in Nat
BY OneMoreNat DEF Pseudo, Ready, Room, Trackers

\* LowerSTATEPOINT().
LEMMA MovesSTATEPOINT ==
  ASSUME Ready, NEW patch \in PatchSizes \cup {0}, NEW call \in {CallRel, 2}, LowerSTATEPOINT(patch, call)
  PROVE  Moves
<1> DEFINE s == IF patch > 0 THEN patch ELSE call
<1>1. patch \in Nat /\ call \in Nat /\ s \in Nat
  BY SizesAssumption DEF SizesAssumption, CallRel
<1>2. EmitNops(patch) = patch
  BY <1>1, NopsFill
<1>3. out' = Silent(out, s)
  BY <1>2 DEF LowerSTATEPOINT
<1>4. /\ lands' = lands \cup {[at |-> out'.pos, by |-> "statepoint"]}
      /\ whole' = whole \cup {[kind |-> "statepoint", at |-> out.pos, len |-> out'.pos - out.pos, want |-> s]}
      /\ maps' = maps /\ Pseudo
  BY DEF LowerSTATEPOINT, Land, Whole
<1> HIDE DEF s
<1>5. Grows(out, out') /\ out'.pos = out.pos + s
  BY <1>1, <1>3, <1>4, PseudoFacts, SilentGrows
<1>6. out'.pos \in Nat /\ out'.pos - out.pos = s /\ out.pos \in Nat
  BY <1>1, <1>4, <1>5, PseudoFacts
<1>7. Landing([at |-> out'.pos, by |-> "statepoint"])
  <2>1. "statepoint" \in Origins /\ "statepoint" \in Excused /\ "statepoint" \in Behind
    BY DEF Origins, Excused, Behind
  <2> QED  BY <1>6, <2>1, LandingAt
<1>8. Piece([kind |-> "statepoint", at |-> out.pos, len |-> out'.pos - out.pos, want |-> s])
  <2>1. "statepoint" \in Kinds
    BY DEF Kinds
  <2> QED  BY <1>1, <1>6, <2>1, PieceOf
<1> QED  BY <1>4, <1>5, <1>7, <1>8, PseudoFacts DEF Moves

\* LowerFAULTING_OP().
LEMMA MovesFAULTING ==
  ASSUME Ready, LowerFAULTING_OP
  PROVE  Moves
<1>1. out' = Silent(out, 3) /\ Pseudo /\ UNCHANGED <<lands, maps, whole>>
  BY DEF LowerFAULTING_OP
<1>2. Grows(out, out')
  BY <1>1, PseudoFacts, SilentGrows
<1> QED  BY <1>1, <1>2, PseudoFacts DEF Moves

\* LowerFENTRY_CALL(): nothing is promised yet at the entry.
LEMMA MovesFENTRY ==
  ASSUME Ready, LowerFENTRY_CALL
  PROVE  Moves
<1>1. /\ out' = Emit(out, 5) /\ Pseudo /\ UNCHANGED <<maps, whole>> /\ maps = {}
      /\ lands' = lands \cup {[at |-> out'.pos, by |-> "fentry"]}
  BY DEF LowerFENTRY_CALL, Land, CallRel, Ready
<1>2. Grows(out, out') /\ out'.pos = out.pos + 5
  BY <1>1, PseudoFacts, EmitGrows
<1>3. out'.pos \in Nat /\ out.pos < out'.pos
  BY <1>1, <1>2, PseudoFacts
<1>4. Landing([at |-> out'.pos, by |-> "fentry"])
  <2>1. "fentry" \in Origins
    BY DEF Origins
  <2> QED  BY <1>1, <1>3, <2>1, LandingAt
<1> QED  BY <1>1, <1>2, <1>4, PseudoFacts DEF Moves

\* LowerPATCHABLE_FUNCTION_ENTER().
LEMMA MovesENTER ==
  ASSUME Ready, LowerPATCHABLE_FUNCTION_ENTER
  PROVE  Moves
<1> DEFINE start == Align2(out)
<1>1. EmitNops(9) = 9
  BY NopsFill
<1>2. /\ out' = Silent(start, 11) /\ Pseudo /\ maps' = maps
      /\ lands' = lands \cup {[at |-> out'.pos, by |-> "hop"]}
      /\ whole' = whole \cup {[kind |-> "enter", at |-> start.pos, len |-> out'.pos - start.pos, want |-> 11]}
  BY <1>1 DEF LowerPATCHABLE_FUNCTION_ENTER, Land, Whole
<1>3. Grows(out, start) /\ start.pos % 2 = 0
  BY <1>2, PseudoFacts, AlignGrows
<1> HIDE DEF start
<1>4. start \in Trackers /\ start.pos \in Nat
  BY <1>3 DEF Grows, Trackers
<1>5. Grows(start, out') /\ out'.pos = start.pos + 11
  BY <1>2, <1>4, SilentGrows
<1>6. Grows(out, out')
  BY <1>2, <1>3, <1>5, GrowsTwice, PseudoFacts
<1>7. out'.pos \in Nat /\ out'.pos - start.pos = 11
  BY <1>4, <1>5
<1>8. Landing([at |-> out'.pos, by |-> "hop"])
  <2>1. "hop" \in Origins /\ "hop" \in Excused /\ "hop" \in Behind
    BY DEF Origins, Excused, Behind
  <2> QED  BY <1>7, <2>1, LandingAt
<1>9. Piece([kind |-> "enter", at |-> start.pos, len |-> out'.pos - start.pos, want |-> 11])
  <2>1. "enter" \in Kinds
    BY DEF Kinds
  <2> QED  BY <1>3, <1>4, <1>7, <2>1, PieceOf
<1> QED  BY <1>2, <1>6, <1>8, <1>9, PseudoFacts DEF Moves

\* LowerPATCHABLE_OP(): the first instruction is long enough in each case.
LEMMA MovesOP ==
  ASSUME Ready, NEW minSize \in {2, 5}, NEW size \in {1, 3}, NEW push \in BOOLEAN,
         LowerPATCHABLE_OP(minSize, size, push)
  PROVE  Moves
<1> DEFINE first == IF size >= minSize THEN size ELSE IF minSize = 2 /\ push THEN 2 ELSE NopSize(minSize)
           nop   == size < minSize /\ ~(minSize = 2 /\ push)
           s     == IF nop THEN first + size ELSE first
<1>1. NopSize(2) = 2 /\ NopSize(5) = 5
  BY DEF NopSize
<1>2. first \in Nat /\ s \in Nat /\ minSize \in Nat /\ first >= minSize
  BY <1>1
<1>3. /\ out' = Silent(out, s) /\ Pseudo /\ maps' = maps /\ lands' = lands
      /\ whole' = whole \cup {[kind |-> "op", at |-> out.pos, want |-> minSize, len |-> first]}
  BY DEF LowerPATCHABLE_OP
<1> HIDE DEF first, nop, s
<1>4. Grows(out, out')
  BY <1>2, <1>3, PseudoFacts, SilentGrows
<1>5. Piece([kind |-> "op", at |-> out.pos, len |-> first, want |-> minSize])
  <2>1. "op" \in Kinds
    BY DEF Kinds
  <2>2. out.pos \in Nat
    BY <1>3, PseudoFacts
  <2> QED  BY <1>2, <2>1, <2>2, PieceOf
<1>6. [kind |-> "op", at |-> out.pos, len |-> first, want |-> minSize] = [kind |-> "op", at |-> out.pos, want |-> minSize, len |-> first]
  OBVIOUS
<1> QED  BY <1>3, <1>4, <1>5, <1>6, PseudoFacts DEF Moves

\* LowerSTACKMAP().
LEMMA MovesSTACKMAP ==
  ASSUME Ready, NEW bytes \in ShadowSizes, LowerSTACKMAP(bytes)
  PROVE  Moves
<1> DEFINE p == Pad(out)
<1>1. /\ out' = Reset(p, bytes) /\ Pseudo /\ UNCHANGED <<lands, whole>> /\ is64
      /\ maps' = maps \cup {[at |-> out'.pos, len |-> bytes]}
  BY DEF LowerSTACKMAP
<1>2. bytes \in Nat
  BY SizesAssumption DEF SizesAssumption
<1>3. Grows(out, p) /\ p.pos = Room(out) /\ Room(p) = Room(out)
  BY <1>1, PseudoFacts, PadGrows
<1> HIDE DEF p
<1>4. p \in Trackers /\ Room(p) = p.pos
  BY <1>3 DEF Grows
<1>5. Grows(p, out') /\ out'.pos = p.pos /\ Room(out') = p.pos + bytes
  BY <1>1, <1>2, <1>4, ResetGrows
<1>6. Grows(out, out')
  BY <1>1, <1>3, <1>5, GrowsTwice, PseudoFacts
<1>7. Room(out') = out'.pos + bytes
  BY <1>5
<1> QED  BY <1>1, <1>6, <1>7, PseudoFacts DEF Moves

\* LowerPATCHPOINT(): call and nops together are what was asked for.
LEMMA MovesPATCHPOINT ==
  ASSUME Ready, NEW bytes \in PatchSizes, NEW null \in BOOLEAN, NEW reg \in Scratch,
         LowerPATCHPOINT(bytes, null, reg)
  PROVE  Moves
<1> DEFINE enc == IF null THEN 0 ELSE IF reg \in Extended THEN 13 ELSE 12
           p == Pad(out)
           call == IF null THEN p ELSE EmitAll(p, <<10, IF reg \in Extended THEN 3 ELSE 2>>)
           rest == bytes - enc
<1>1. /\ bytes >= enc /\ out' = Silent(call, EmitNops(rest)) /\ Pseudo /\ maps' = maps
      /\ IF null THEN UNCHANGED lands ELSE lands' = lands \cup {[at |-> call.pos, by |-> "patchpoint"]}
      /\ whole' = whole \cup {[kind |-> "patchpoint", at |-> p.pos, len |-> out'.pos - p.pos, want |-> bytes]}
  BY DEF LowerPATCHPOINT, Land, Whole
<1>2. bytes \in Nat /\ enc \in Nat /\ rest \in Nat
  BY <1>1, SizesAssumption DEF SizesAssumption
<1>3. EmitNops(rest) = rest
  BY <1>2, NopsFill
<1>4. Grows(out, p) /\ p.pos = Room(out) /\ p \in Trackers /\ p.pos \in Nat
  BY <1>1, PseudoFacts, PadGrows DEF Grows, Trackers
<1> HIDE DEF p
<1>5. Grows(p, call) /\ call.pos = p.pos + enc
  <2>1. CASE null
    BY <1>4, <2>1 DEF Grows, Trackers, Room
  <2>2. CASE ~ null
    <3> DEFINE b == IF reg \in Extended THEN 3 ELSE 2
    <3>1. b \in Nat /\ 10 + b = enc
      BY <2>2
    <3>2. call = EmitAll(p, <<10, b>>)
      BY <2>2
    <3> HIDE DEF b, call, enc
    <3>3. Grows(p, call) /\ call.pos = p.pos + 10 + b
      BY <1>4, <3>1, <3>2, EmitTwoPos
    <3> QED  BY <1>4, <3>1, <3>3
  <2> QED  BY <2>1, <2>2
<1>6. null \/ enc > 0
  OBVIOUS
<1> HIDE DEF call, rest
<1>7. Grows(call, out') /\ out'.pos = call.pos + rest
  BY <1>1, <1>2, <1>3, <1>5, SilentGrows DEF Grows
<1>8. Grows(out, out')
  <2>1. Grows(out, call)
    BY <1>1, <1>4, <1>5, GrowsTwice, PseudoFacts
  <2> QED  BY <1>1, <1>7, <2>1, GrowsTwice, PseudoFacts
<1>9. call.pos \in Nat /\ out'.pos \in Nat /\ call.pos <= out'.pos /\ out'.pos - p.pos = bytes /\ Room(out) <= call.pos
  BY <1>2, <1>4, <1>5, <1>7 DEF rest
<1>10. ASSUME ~ null PROVE Landing([at |-> call.pos, by |-> "patchpoint"])
  <2>1. "patchpoint" \in Origins /\ "patchpoint" \in Behind
    BY DEF Origins, Behind
  <2> QED  BY <1>9, <2>1, LandingAt
<1>11. Piece([kind |-> "patchpoint", at |-> p.pos, len |-> out'.pos - p.pos, want |-> bytes])
  <2>1. "patchpoint" \in Kinds
    BY DEF Kinds
  <2> QED  BY <1>2, <1>4, <1>9, <2>1, PieceOf
<1>12. \A l \in lands' : l \in lands \/ Landing(l)
  BY <1>1, <1>10
<1> QED  BY <1>1, <1>8, <1>11, <1>12, PseudoFacts DEF Moves

\* Both event sleds: whatever operands are in place already, the three loops
\* and the call fill what the first jump skips.
LEMMA MovesSled ==
  ASSUME Ready, NEW dest, dest = EventDest \/ dest = TypedDest, NEW src, EventSled(dest, src)
  PROVE  Moves
<1> DEFINE m == Len(dest)
           start == Align2(out)
           jump == Silent(start, 2)
           saved == PerOperand(jump, dest, src, PushPop, 4)
           moved == PerOperand(saved, dest, src, MovReg, 0)
           call == Emit(moved, CallRel)
           C(i, a, b) == Cost(dest, src, i, a, b)
<1>1. m \in {2, 3} /\ (m = 2 \/ m = 3) /\ Hop(dest) = 5 * m + 5
  <2>1. CASE dest = EventDest
    BY <2>1 DEF EventDest, Hop
  <2>2. CASE dest = TypedDest
    <3>1. Len(TypedDest) = 3 /\ Len(EventDest) = 2
      BY DEF TypedDest, EventDest
    <3>2. TypedDest # EventDest
      BY <3>1
    <3> QED  BY <2>2, <3>1, <3>2 DEF Hop
  <2> QED  BY <2>1, <2>2
<1>2. /\ Pseudo /\ maps' = maps
      /\ out' = PerOperand(call, dest, src, PushPop, 1)
      /\ lands' = lands \cup {[at |-> call.pos, by |-> "event"], [at |-> start.pos + 2 + Hop(dest), by |-> "hop"]}
      /\ whole' = whole \cup {[kind |-> "event", at |-> start.pos, len |-> out'.pos - start.pos, want |-> 2 + Hop(dest)]}
  BY DEF EventSled, Whole
<1>3. Grows(out, start) /\ start.pos % 2 = 0 /\ start \in Trackers /\ start.pos \in Nat
  BY <1>2, PseudoFacts, AlignGrows DEF Grows, Trackers
<1> HIDE DEF start
<1>4. Grows(start, jump) /\ jump.pos = start.pos + 2 /\ jump \in Trackers
  BY <1>3, SilentGrows DEF Grows
<1> HIDE DEF jump, m
<1>5. /\ Grows(jump, saved)
      /\ saved.pos = jump.pos + C(1, 1, 4) + C(2, 1, 4) + (IF m = 3 THEN C(3, 1, 4) ELSE 0)
  BY <1>1, <1>4, PerOperandPos DEF PushPop, m
<1> HIDE DEF saved
<1>6. /\ Grows(saved, moved)
      /\ moved.pos = saved.pos + C(1, 3, 0) + C(2, 3, 0) + (IF m = 3 THEN C(3, 3, 0) ELSE 0)
  BY <1>1, <1>5, PerOperandPos DEF MovReg, m, Grows
<1> HIDE DEF moved
<1>7. Grows(moved, call) /\ call.pos = moved.pos + 5
  BY <1>6, EmitGrows DEF CallRel, Grows
<1> HIDE DEF call
<1>8. /\ Grows(call, out')
      /\ out'.pos = call.pos + C(1, 1, 1) + C(2, 1, 1) + (IF m = 3 THEN C(3, 1, 1) ELSE 0)
  BY <1>1, <1>2, <1>7, PerOperandPos DEF PushPop, m, Grows
<1>9. ASSUME NEW i
      PROVE  /\ (C(i, 1, 4) = 1 /\ C(i, 3, 0) = 3) \/ (C(i, 1, 4) = 4 /\ C(i, 3, 0) = 0)
             /\ C(i, 1, 1) = 1
  BY DEF Cost
<1> HIDE DEF C
<1>10. saved \in Trackers /\ moved \in Trackers /\ call \in Trackers
  BY <1>5, <1>6, <1>7 DEF Grows
<1>11. call.pos \in Nat /\ call.pos = start.pos + 7 + 4 * m /\ out'.pos = call.pos + m
  <2>1. /\ (C(1, 1, 4) = 1 /\ C(1, 3, 0) = 3) \/ (C(1, 1, 4) = 4 /\ C(1, 3, 0) = 0)
        /\ (C(2, 1, 4) = 1 /\ C(2, 3, 0) = 3) \/ (C(2, 1, 4) = 4 /\ C(2, 3, 0) = 0)
        /\ (C(3, 1, 4) = 1 /\ C(3, 3, 0) = 3) \/ (C(3, 1, 4) = 4 /\ C(3, 3, 0) = 0)
        /\ C(1, 1, 1) = 1 /\ C(2, 1, 1) = 1 /\ C(3, 1, 1) = 1
    BY <1>9
  <2>2. CASE m = 2
    <3>1. saved.pos = jump.pos + C(1, 1, 4) + C(2, 1, 4) /\ moved.pos = saved.pos + C(1, 3, 0) + C(2, 3, 0)
      <4>1. jump.pos \in Nat /\ saved.pos \in Nat
        BY <1>4, <1>10 DEF Trackers
      <4>2. jump.pos + C(1, 1, 4) + C(2, 1, 4) \in Nat /\ saved.pos + C(1, 3, 0) + C(2, 3, 0) \in Nat
        BY <2>1, <4>1
      <4>3. /\ saved.pos = jump.pos + C(1, 1, 4) + C(2, 1, 4) + 0
            /\ moved.pos = saved.pos + C(1, 3, 0) + C(2, 3, 0) + 0
        BY <1>5, <1>6, <2>2
      <4> QED  BY <4>2, <4>3
    <3>2. moved.pos = jump.pos + 8
      BY <2>1, <3>1, <1>4, <1>10 DEF Trackers
    <3> QED  BY <1>3, <1>4, <1>7, <1>8, <1>10, <2>1, <2>2, <3>2 DEF Trackers
  <2>3. CASE m = 3
    <3>1. saved.pos = jump.pos + C(1, 1, 4) + C(2, 1, 4) + C(3, 1, 4) /\ moved.pos = saved.pos + C(1, 3, 0) + C(2, 3, 0) + C(3, 3, 0)
      BY <1>5, <1>6, <2>3
    <3>2. moved.pos = jump.pos + 12
      BY <2>1, <3>1, <1>4, <1>10 DEF Trackers
    <3> QED  BY <1>3, <1>4, <1>7, <1>8, <1>10, <2>1, <2>3, <3>2 DEF Trackers
  <2> QED  BY <1>1, <2>2, <2>3
<1>12. Grows(out, out')
  <2>1. Grows(out, jump)
    BY <1>2, <1>3, <1>4, GrowsTwice, PseudoFacts
  <2>2. Grows(out, saved)
    BY <1>2, <2>1, <1>5, GrowsTwice, PseudoFacts
  <2>3. Grows(out, moved)
    BY <1>2, <2>2, <1>6, GrowsTwice, PseudoFacts
  <2>4. Grows(out, call)
    BY <1>2, <2>3, <1>7, GrowsTwice, PseudoFacts
  <2> QED  BY <1>2, <2>4, <1>8, GrowsTwice, PseudoFacts
<1>13. /\ out.pos \in Nat /\ out.pos < call.pos /\ call.pos < out'.pos /\ call.pos <= out'.pos /\ out'.pos \in Nat
       /\ out'.pos - start.pos = 2 + Hop(dest) /\ 2 + Hop(dest) \in Nat
       /\ start.pos + 2 + Hop(dest) \in Nat
  <2>1. out.pos \in Nat /\ out.pos <= start.pos
    BY <1>2, <1>3, PseudoFacts DEF Grows
  <2> QED  BY <1>1, <1>3, <1>11, <2>1
<1>14. Landing([at |-> call.pos, by |-> "event"]) /\ Landing([at |-> start.pos + 2 + Hop(dest), by |-> "hop"])
  <2>1. "event" \in Origins /\ "hop" \in Origins /\ "event" \in Excused /\ "hop" \in Excused /\ "hop" \in Behind
    BY DEF Origins, Excused, Behind
  <2>2. Landing([at |-> call.pos, by |-> "event"])
    BY <1>11, <1>13, <2>1, LandingAt
  <2>3. Landing([at |-> start.pos + 2 + Hop(dest), by |-> "hop"])
    BY <1>13, <2>1, LandingAt
  <2> QED  BY <2>2, <2>3
<1>15. Piece([kind |-> "event", at |-> start.pos, len |-> out'.pos - start.pos, want |-> 2 + Hop(dest)])
  <2>1. "event" \in Kinds
    BY DEF Kinds
  <2> QED  BY <1>3, <1>13, <2>1, PieceOf
<1> QED  BY <1>2, <1>12, <1>14, <1>15, PseudoFacts DEF Moves

\* LowerPATCHABLE_RET().
LEMMA MovesRET ==
  ASSUME Ready, NEW size \in {1, 3}, LowerPATCHABLE_RET(size)
  PROVE  Moves
<1> DEFINE start == Align2(out)
<1>1. EmitNops(10) = 10 /\ size + 10 \in Nat /\ size + 10 >= 11
  BY NopsFill
<1>2. /\ out' = Silent(start, size + 10) /\ Pseudo /\ UNCHANGED <<lands, maps>>
      /\ whole' = whole \cup {[kind |-> "ret", at |-> start.pos, len |-> out'.pos - start.pos, want |-> 11]}
  BY <1>1 DEF LowerPATCHABLE_RET, Whole
<1>3. Grows(out, start) /\ start.pos % 2 = 0 /\ start \in Trackers /\ start.pos \in Nat
  BY <1>2, PseudoFacts, AlignGrows DEF Grows, Trackers
<1> HIDE DEF start
<1>4. Grows(start, out') /\ out'.pos = start.pos + (size + 10)
  BY <1>1, <1>2, <1>3, SilentGrows
<1>5. Grows(out, out')
  BY <1>2, <1>3, <1>4, GrowsTwice, PseudoFacts
<1>6. Piece([kind |-> "ret", at |-> start.pos, len |-> out'.pos - start.pos, want |-> 11])
  <2>1. "ret" \in Kinds
    BY DEF Kinds
  <2>2. out'.pos - start.pos \in Nat /\ out'.pos - start.pos >= 11
    BY <1>1, <1>3, <1>4
  <2> QED  BY <1>3, <2>1, <2>2, PieceOf
<1> QED  BY <1>2, <1>5, <1>6, PseudoFacts DEF Moves

\* LowerPATCHABLE_TAIL_CALL().
LEMMA MovesTAIL ==
  ASSUME Ready, LowerPATCHABLE_TAIL_CALL
  PROVE  Moves
<1> DEFINE start == Align2(out)
           sled == Silent(start, 11)
<1>1. EmitNops(9) = 9
  BY NopsFill
<1>2. /\ out' = Silent(sled, 5) /\ Pseudo /\ UNCHANGED maps
      /\ lands' = lands \cup {[at |-> sled.pos, by |-> "hop"]}
      /\ whole' = whole \cup {[kind |-> "tailcall", at |-> start.pos, want |-> 11, len |-> sled.pos - start.pos]}
  BY <1>1 DEF LowerPATCHABLE_TAIL_CALL, Land
<1>3. Grows(out, start) /\ start.pos % 2 = 0 /\ start \in Trackers /\ start.pos \in Nat
  BY <1>2, PseudoFacts, AlignGrows DEF Grows, Trackers
<1> HIDE DEF start
<1>4. Grows(start, sled) /\ sled.pos = start.pos + 11
  BY <1>3, SilentGrows
<1> HIDE DEF sled
<1>5. Grows(sled, out') /\ sled \in Trackers
  BY <1>2, <1>4, SilentGrows DEF Grows
<1>6. Grows(out, out')
  <2>1. Grows(out, sled)
    BY <1>2, <1>3, <1>4, GrowsTwice, PseudoFacts
  <2> QED  BY <1>2, <1>5, <2>1, GrowsTwice, PseudoFacts
<1>7. sled.pos \in Nat /\ sled.pos - start.pos = 11
  BY <1>3, <1>4
<1>8. Landing([at |-> sled.pos, by |-> "hop"])
  <2>1. "hop" \in Origins /\ "hop" \in Excused /\ "hop" \in Behind
    BY DEF Origins, Excused, Behind
  <2> QED  BY <1>7, <2>1, LandingAt
<1>9. Piece([kind |-> "tailcall", at |-> start.pos, len |-> sled.pos - start.pos, want |-> 11])
  <2>1. "tailcall" \in Kinds
    BY DEF Kinds
  <2> QED  BY <1>3, <1>7, <2>1, PieceOf
<1>10. [kind |-> "tailcall", at |-> start.pos, len |-> sled.pos - start.pos, want |-> 11]
         = [kind |-> "tailcall", at |-> start.pos, want |-> 11, len |-> sled.pos - start.pos]
  OBVIOUS
<1> QED  BY <1>2, <1>6, <1>8, <1>9, <1>10, PseudoFacts DEF Moves

\* EmitBasicBlockEnd().
LEMMA MovesBlockEnd ==
  ASSUME Ready, BlockEnd
  PROVE  Moves
<1>1. out \in Trackers /\ out' = Pad(out) /\ ~ done'
  BY DEF Ready, BlockEnd
<1>2. Grows(out, out') /\ out'.pos = Room(out)
  BY <1>1, PadGrows
<1>3. lands' = lands \cup {[at |-> out'.pos, by |-> "block"]}
  BY DEF BlockEnd, Land
<1>4. Landing([at |-> out'.pos, by |-> "block"])
  <2>1. "block" \in Origins /\ "block" \in Behind
    BY DEF Origins, Behind
  <2>2. out'.pos \in Nat /\ Room(out) <= out'.pos /\ out'.pos <= out'.pos
    BY <1>2 DEF Grows, Trackers
  <2> QED  BY <2>1, <2>2, LandingAt
<1>5. UNCHANGED <<is64, maps, whole, epilogs, called, n>>
  BY DEF BlockEnd
<1> QED  BY <1>1, <1>2, <1>3, <1>4, <1>5 DEF Moves, Ready

\* The end of the last block.
LEMMA MovesFunctionEnd ==
  ASSUME Ready, FunctionEnd
  PROVE  Moves
<1>1. out \in Trackers /\ out' = Pad(out)
  BY DEF Ready, FunctionEnd
<1>2. Grows(out, out') /\ Room(out') = out'.pos
  BY <1>1, PadGrows
<1>3. UNCHANGED <<is64, lands, maps, whole, epilogs, called, n>>
  BY DEF FunctionEnd
<1> QED  BY <1>1, <1>2, <1>3 DEF Moves, Ready

\* Every step is one of these.
LEMMA NextMoves ==
  ASSUME Ready, Next
  PROVE  Moves
<1>1. ASSUME NEW mi \in Samples, EmitInstruction(mi) PROVE Moves
  BY <1>1, MovesInstruction
<1>2. ASSUME NEW general \in BOOLEAN, LowerTlsAddr(general) PROVE Moves
  BY <1>2, MovesTls
<1>3. ASSUME NEW restore \in BOOLEAN, LowerMORESTACK_RET(restore) PROVE Moves
  BY <1>3, MovesMORESTACK
<1>4. CASE LowerMOVPC32r
  BY <1>4, MovesPC32r
<1>5. CASE LowerSEH_Epilogue
  BY <1>5, MovesEpilogue
<1>6. ASSUME NEW patch \in PatchSizes \cup {0}, NEW call \in {CallRel, 2}, LowerSTATEPOINT(patch, call)
      PROVE  Moves
  BY <1>6, MovesSTATEPOINT
<1>7. CASE LowerFAULTING_OP
  BY <1>7, MovesFAULTING
<1>8. CASE LowerFENTRY_CALL
  BY <1>8, MovesFENTRY
<1>9. CASE LowerPATCHABLE_FUNCTION_ENTER
  BY <1>9, MovesENTER
<1>10. ASSUME NEW minSize \in {2, 5}, NEW size \in {1, 3}, NEW push \in BOOLEAN,
              LowerPATCHABLE_OP(minSize, size, push)
       PROVE  Moves
  BY <1>10, MovesOP
<1>11. ASSUME NEW bytes \in ShadowSizes, LowerSTACKMAP(bytes) PROVE Moves
  BY <1>11, MovesSTACKMAP
<1>12. ASSUME NEW bytes \in PatchSizes, NEW null \in BOOLEAN, NEW reg \in Scratch,
              LowerPATCHPOINT(bytes, null, reg)
       PROVE  Moves
  BY <1>12, MovesPATCHPOINT
<1>13. ASSUME NEW src \in [1 .. 2 -> SrcRegs], LowerPATCHABLE_EVENT_CALL(src) PROVE Moves
  BY <1>13, MovesSled DEF LowerPATCHABLE_EVENT_CALL
<1>14. ASSUME NEW src \in [1 .. 3 -> SrcRegs], LowerPATCHABLE_TYPED_EVENT_CALL(src) PROVE Moves
  BY <1>14, MovesSled DEF LowerPATCHABLE_TYPED_EVENT_CALL
<1>15. ASSUME NEW size \in {1, 3}, LowerPATCHABLE_RET(size) PROVE Moves
  BY <1>15, MovesRET
<1>16. CASE LowerPATCHABLE_TAIL_CALL
  BY <1>16, MovesTAIL
<1>17. CASE BlockEnd
  BY <1>17, MovesBlockEnd
<1>18. CASE FunctionEnd
  BY <1>18, MovesFunctionEnd
<1> QED  BY <1>1, <1>2, <1>3, <1>4, <1>5, <1>6, <1>7, <1>8, <1>9, <1>10, <1>11, <1>12,
            <1>13, <1>14, <1>15, <1>16, <1>17, <1>18 DEF Next
-------------------------------------------------------------------------------
(* The invariant.                                                          *)

\* The types, and that nothing is promised before the first instruction or
\* outside 64-bit mode, where no stack map is lowered.
TypeOK ==
  /\ Ready
  /\ lands \subseteq [at : Nat, by : Origins]
  /\ maps \subseteq [at : Nat, len : Nat]
  /\ whole \subseteq [kind : Kinds, at : Nat, len : Nat, want : Nat]
  /\ epilogs \subseteq Nat

\* Every stack map's bytes end inside the code or the room that is still owed.
MapsFit == \A m \in maps : m.at <= out.pos /\ m.at + m.len <= Room(out)

\* Nothing is owed when the function ends.
Padded == done => Room(out) = out.pos

\* Places blamed on nobody are not ahead of the code; only a hop or a sled's
\* target could be.
Passed == \A l \in lands : l.by \in Excused \/ l.at <= out.pos

\* A place at the very end of the code that an epilog must avoid is one that
\* `called' knows of, or the entry.
Ahead == \A l \in lands : \/ l.by \in Behind
                          \/ l.at <= out.pos /\ (l.at = out.pos => called \/ l.by = "fentry")

\* Epilogs begin inside the code.
EpilogsPassed == \A e \in epilogs : e <= out.pos

\* The inductive invariant.
EInv ==
  /\ TypeOK /\ MapsFit /\ Padded /\ Passed /\ Ahead /\ EpilogsPassed
  /\ ShadowBlame /\ PiecesExact /\ EpilogBlame

\* It holds initially.
LEMMA InitEInv == Init => EInv
<1> SUFFICES ASSUME Init PROVE EInv
  OBVIOUS
<1>1. out \in Trackers /\ Room(out) = out.pos
  BY DEF Init, Trackers, Room
<1>2. lands = {} /\ maps = {} /\ whole = {} /\ epilogs = {} /\ n = 0 /\ is64 \in BOOLEAN /\ called = FALSE
  BY DEF Init
<1>3. TypeOK
  BY <1>1, <1>2 DEF TypeOK, Ready
<1> QED  BY <1>1, <1>2, <1>3 DEF EInv, MapsFit, Padded, Passed, Ahead, EpilogsPassed,
                                 ShadowBlame, PiecesExact, EpilogBlame

\* Types are kept; Moves follows from them.
LEMMA NextTypeOK ==
  ASSUME TypeOK, Next
  PROVE  Moves /\ TypeOK'
<1>1. Ready
  BY DEF TypeOK
<1>2. Moves
  BY <1>1, NextMoves
<1>3. Ready'
  <2>1. out' \in Trackers /\ is64' \in BOOLEAN /\ n' \in Nat /\ called' \in BOOLEAN
    BY <1>1, <1>2 DEF Moves, Grows, Ready
  <2>2. n' = 0 \/ ~ is64' => maps' = {}
    BY <1>1, <1>2 DEF Moves, Ready
  <2> QED  BY <2>1, <2>2 DEF Ready
<1>4. lands' \subseteq [at : Nat, by : Origins]
  BY <1>2 DEF Moves, Landing, TypeOK
<1>5. out'.pos \in Nat
  BY <1>3 DEF Ready, Trackers
<1>6. maps' \subseteq [at : Nat, len : Nat]
  <2>1. ASSUME NEW b \in ShadowSizes PROVE [at |-> out'.pos, len |-> b] \in [at : Nat, len : Nat]
    BY <1>5, SizesAssumption DEF SizesAssumption
  <2> QED  BY <1>2, <2>1 DEF Moves, TypeOK
<1>7. whole' \subseteq [kind : Kinds, at : Nat, len : Nat, want : Nat]
  BY <1>2 DEF Moves, Piece, TypeOK
<1>8. epilogs' \subseteq Nat
  BY <1>2, <1>5 DEF Moves, TypeOK
<1> QED  BY <1>2, <1>3, <1>4, <1>6, <1>7, <1>8 DEF TypeOK

\* The naturals the arithmetic below is about.
LEMMA Positions ==
  ASSUME TypeOK, Moves
  PROVE  /\ out.pos \in Nat /\ out'.pos \in Nat /\ Room(out) \in Nat /\ Room(out') \in Nat
         /\ out.pos <= out'.pos /\ Room(out) <= Room(out') /\ out.pos <= Room(out)
BY DEF TypeOK, Ready, Moves, Grows, Trackers, Room

\* An old map's room only grows, and a new map gets its own.
LEMMA NextMapsFit ==
  ASSUME TypeOK, MapsFit, Moves
  PROVE  MapsFit'
<1> SUFFICES ASSUME NEW m \in maps' PROVE m.at <= out'.pos /\ m.at + m.len <= Room(out')
  BY DEF MapsFit
<1>1. CASE m \in maps
  <2>1. m.at \in Nat /\ m.len \in Nat /\ m.at <= out.pos /\ m.at + m.len <= Room(out)
    BY <1>1 DEF TypeOK, MapsFit
  <2> QED  BY <2>1, Positions
<1>2. CASE m \notin maps
  <2>1. PICK b \in ShadowSizes : m = [at |-> out'.pos, len |-> b] /\ Room(out') = out'.pos + b
    BY <1>2 DEF Moves
  <2>2. m.at = out'.pos /\ m.len = b
    BY <2>1
  <2> QED  BY <2>1, <2>2, Positions
<1> QED  BY <1>1, <1>2

\* The code only moves forward.
LEMMA NextPassed ==
  ASSUME TypeOK, Passed, Moves
  PROVE  Passed'
<1> SUFFICES ASSUME NEW l \in lands' PROVE l.by \in Excused \/ l.at <= out'.pos
  BY DEF Passed
<1>1. CASE l \in lands
  <2>1. l.at \in Nat /\ (l.by \in Excused \/ l.at <= out.pos)
    BY <1>1 DEF Passed, TypeOK
  <2> QED  BY <2>1, Positions
<1>2. CASE l \notin lands
  BY <1>2 DEF Moves, Landing
<1> QED  BY <1>1, <1>2

\* Whoever clears `called' has emitted something.
LEMMA NextAhead ==
  ASSUME TypeOK, Ahead, Moves
  PROVE  Ahead'
<1> SUFFICES ASSUME NEW l \in lands', l.by \notin Behind
             PROVE  l.at <= out'.pos /\ (l.at = out'.pos => called' \/ l.by = "fentry")
  BY DEF Ahead
<1>1. CASE l \in lands
  <2>1. l.at \in Nat /\ l.at <= out.pos /\ (l.at = out.pos => called \/ l.by = "fentry")
    BY <1>1 DEF Ahead, TypeOK
  <2>2. called' \/ ~ called \/ out.pos < out'.pos
    BY DEF Moves
  <2> QED  BY <2>1, <2>2, Positions
<1>2. CASE l \notin lands
  <2>1. Landing(l)
    BY <1>2 DEF Moves
  <2> QED  BY <2>1 DEF Landing
<1> QED  BY <1>1, <1>2

\* The code only moves forward.
LEMMA NextEpilogsPassed ==
  ASSUME TypeOK, EpilogsPassed, Moves
  PROVE  EpilogsPassed'
<1> SUFFICES ASSUME NEW e \in epilogs' PROVE e <= out'.pos
  BY DEF EpilogsPassed
<1>1. CASE e \in epilogs
  <2>1. e \in Nat /\ e <= out.pos
    BY <1>1 DEF EpilogsPassed, TypeOK
  <2> QED  BY <2>1, Positions
<1>2. CASE e = out'.pos
  BY <1>2, Positions
<1> QED  BY <1>1, <1>2 DEF Moves

\* A new place is behind the old shadows; a new shadow is behind the old places.
LEMMA NextShadowBlame ==
  ASSUME TypeOK, MapsFit, Passed, ShadowBlame, Moves, TypeOK'
  PROVE  ShadowBlame'
<1> SUFFICES ASSUME NEW m \in maps', NEW l \in lands', l.by \notin Excused,
                    m.at < l.at, l.at < m.at + m.len
             PROVE  FALSE
  BY DEF ShadowBlame, Excused
<1>1. m.at \in Nat /\ m.len \in Nat /\ l.at \in Nat
  BY DEF TypeOK
<1>2. CASE m \in maps /\ l \in lands
  BY <1>2 DEF ShadowBlame, Excused
<1>3. CASE m \in maps /\ l \notin lands
  <2>1. Landing(l) /\ maps # {} /\ m.at + m.len <= Room(out)
    BY <1>3 DEF Moves, MapsFit
  <2>2. Room(out) <= l.at
    BY <2>1 DEF Landing
  <2> QED  BY <1>1, <2>1, <2>2, Positions
<1>4. CASE m \notin maps
  <2>1. m.at = out'.pos /\ lands' = lands
    BY <1>4 DEF Moves
  <2>2. l.at <= out.pos
    BY <2>1 DEF Passed
  <2> QED  BY <1>1, <2>1, <2>2, Positions
<1> QED  BY <1>2, <1>3, <1>4

\* New pieces are as long as expected, old ones are not touched.
LEMMA NextPiecesExact ==
  ASSUME PiecesExact, Moves
  PROVE  PiecesExact'
BY DEF PiecesExact, Moves, Piece

\* A new epilog is not where a call returned to, a new place is not at an old
\* epilog.
LEMMA NextEpilogBlame ==
  ASSUME TypeOK, Ahead, EpilogsPassed, EpilogBlame, Moves, TypeOK'
  PROVE  EpilogBlame'
<1> SUFFICES ASSUME NEW l \in lands', l.at \in epilogs', l.by \notin Behind PROVE FALSE
  BY DEF EpilogBlame, Behind
<1>1. l.at \in Nat
  BY DEF TypeOK
<1>2. CASE l \in lands /\ l.at \in epilogs
  BY <1>2 DEF EpilogBlame, Behind
<1>3. CASE l \notin lands /\ l.at \in epilogs
  <2>1. out.pos < l.at /\ l.at <= out.pos
    BY <1>3 DEF Moves, Landing, EpilogsPassed
  <2> QED  BY <1>1, <2>1, Positions
<1>4. CASE l.at \notin epilogs
  <2>1. /\ l.at = out'.pos /\ l \in lands
        /\ called => out.pos < out'.pos
        /\ \A k \in lands : k.by = "fentry" => k.at < out.pos
    BY <1>4 DEF Moves
  <2>2. l.at <= out.pos /\ (l.at = out.pos => called \/ l.by = "fentry")
    BY <2>1 DEF Ahead
  <2> QED  BY <1>1, <2>1, <2>2, Positions
<1> QED  BY <1>2, <1>3, <1>4

\* Every step keeps the invariant.
LEMMA NextEInv == EInv /\ [Next]_vars => EInv'
<1> SUFFICES ASSUME EInv, [Next]_vars PROVE EInv'
  OBVIOUS
<1>1. CASE Next
  <2>1. TypeOK /\ MapsFit /\ Passed /\ Ahead /\ EpilogsPassed /\ ShadowBlame /\ PiecesExact /\ EpilogBlame
    BY DEF EInv
  <2>2. Moves /\ TypeOK'
    BY <1>1, <2>1, NextTypeOK
  <2>3. MapsFit' /\ Passed' /\ Ahead' /\ EpilogsPassed'
    BY <2>1, <2>2, NextMapsFit, NextPassed, NextAhead, NextEpilogsPassed
  <2>4. ShadowBlame' /\ PiecesExact' /\ EpilogBlame'
    BY <2>1, <2>2, NextShadowBlame, NextPiecesExact, NextEpilogBlame
  <2>5. Padded'
    BY <2>2 DEF Moves, Padded
  <2> QED  BY <2>2, <2>3, <2>4, <2>5 DEF EInv
<1>2. CASE UNCHANGED vars
  BY <1>2 DEF vars, EInv, TypeOK, Ready, MapsFit, Padded, Passed, Ahead, EpilogsPassed,
              ShadowBlame, PiecesExact, EpilogBlame
<1> QED  BY <1>1, <1>2

\* The invariant holds of every function, of any length, whatever its stack
\* maps promise and its patch points ask for.
THEOREM EInvHolds == Spec => []EInv
<1> QED  BY InitEInv, NextEInv, PTL DEF Spec

\* Control arrives inside a stack map's bytes only behind the lowerings that
\* do not fill the shadow first.
THEOREM ShadowBlameHolds == Spec => []ShadowBlame
<1>1. EInv => ShadowBlame
  BY DEF EInv
<1> QED  BY <1>1, EInvHolds, PTL

\* What a stack map promises is inside the function when it ends.
THEOREM ShadowRoomHolds == Spec => []ShadowRoom
<1>1. EInv => ShadowRoom
  BY DEF EInv, ShadowRoom, MapsFit, Padded
<1> QED  BY <1>1, EInvHolds, PTL

\* Sleds, patch points and TLS sequences have the length and the alignment
\* that whoever rewrites them takes for granted.
THEOREM PiecesExactHolds == Spec => []PiecesExact
<1>1. EInv => PiecesExact
  BY DEF EInv
<1> QED  BY <1>1, EInvHolds, PTL

\* Only a STATEPOINT or a PATCHPOINT can leave a return address at the first
\* byte of a Windows epilog.
THEOREM EpilogBlameHolds == Spec => []EpilogBlame
<1>1. EInv => EpilogBlame
  BY DEF EInv
<1> QED  BY <1>1, EInvHolds, PTL
-------------------------------------------------------------------------------
(* Lower().                                                                *)

\* What LowerFaithful says of an instruction and its replacement.
Faithful(before, after) ==
  Verb(after) = Verb(before) /\ Operands(after) = Operands(before) /\ Size(after) <= Size(before)

\* The part of WellFormed the simplifications share.
Instruction(mi) ==
  /\ mi = [op |-> mi.op, form |-> mi.form, width |-> mi.width, args |-> mi.args]
  /\ mi.width \in {0, 8, 16, 32, 64} /\ mi.args \in Seq(STRING)

\* An instruction that is left alone.
LEMMA SameFaithful == \A mi : Faithful(mi, mi)
BY SizePositive DEF Faithful

\* An instruction in another form,
LEMMA FormChanged ==
  ASSUME NEW mi, Instruction(mi), NEW form
  PROVE  LET mc == [mi EXCEPT !.form = form]
         IN  mc.op = mi.op /\ mc.form = form /\ mc.width = mi.width /\ mc.args = mi.args
BY DEF Instruction

\* and with other operands.
LEMMA FormArgsChanged ==
  ASSUME NEW mi, Instruction(mi), NEW form, NEW args
  PROVE  LET mc == [mi EXCEPT !.form = form, !.args = args]
         IN  mc.op = mi.op /\ mc.form = form /\ mc.width = mi.width /\ mc.args = args
BY DEF Instruction

\* The VEX moves: the reversed form is a byte shorter and moves the same way.
LEMMA CommutedFaithful ==
  ASSUME NEW mi, Instruction(mi), mi.form = "rr", mi.op \in VexMoves \cup {"vmovsd"}
  PROVE  Faithful(mi, Commuted(mi))
<1>1. CASE mi.args[1] \notin Extended /\ mi.args[Len(mi.args)] \in Extended
  <2> DEFINE mc == [mi EXCEPT !.form = "rev"]
  <2>1. Commuted(mi) = mc
    BY <1>1 DEF Commuted
  <2>2. mc.op = mi.op /\ mc.form = "rev" /\ mc.width = mi.width /\ mc.args = mi.args
    BY FormChanged
  <2> HIDE DEF mc
  <2>3. Verb(mc) = Verb(mi)
    BY <2>2 DEF Verb, VexMoves
  <2>4. Operands(mc) = Operands(mi)
    BY <2>2 DEF Operands, Calls, Conditions, VexMoves
  <2>5. Size(mc) = 4 /\ Size(mi) = 5
    BY <1>1, <2>2 DEF Size, VexMoves
  <2> QED  BY <2>1, <2>3, <2>4, <2>5 DEF Faithful
<1>2. CASE ~ (mi.args[1] \notin Extended /\ mi.args[Len(mi.args)] \in Extended)
  BY <1>2, SameFaithful DEF Commuted
<1> QED  BY <1>1, <1>2

\* Calls and tail jumps through a register.
LEMMA CalleeFaithful ==
  ASSUME NEW mi, Instruction(mi), mi.form = "r", mi.op \in {"call", "tailjmp_r64"}
  PROVE  Faithful(mi, Callee(mi))
<1> DEFINE mc == Callee(mi)
<1>1. mc.op = mi.op /\ mc.form = mi.form /\ mc.width = mi.width /\ mc.args = <<mi.args[1]>>
  BY DEF Callee, Instruction
<1> HIDE DEF mc
<1>2. Verb(mc) = Verb(mi)
  BY <1>1 DEF Verb
<1>3. mc.args[1] = mi.args[1]
  BY <1>1
<1>4. Operands(mc) = Operands(mi)
  BY <1>1, <1>3 DEF Operands, Calls
<1>5. Size(mc) = 2 /\ Size(mi) = 2
  BY <1>1 DEF Size, VexMoves
<1> QED  BY <1>2, <1>4, <1>5 DEF Faithful, mc

\* EH_RETURN, CLEANUPRET and CATCHRET.
LEMMA ReturnFaithful ==
  ASSUME NEW mi, Instruction(mi), mi.op \in {"eh_return", "cleanupret", "catchret"},
         mi.form \notin {"acc", "abs_mr", "abs_rm", "short"}
  PROVE  Faithful(mi, Return(mi))
<1> DEFINE mc == Return(mi)
<1>1. /\ mc.op = "ret" /\ mc.form = "" /\ mc.width = 0
      /\ mc.args = IF mi.op = "catchret" THEN <<"rax">> ELSE <<>>
  BY DEF Return
<1> HIDE DEF mc
<1>2. Verb(mc) = Verb(mi)
  BY <1>1 DEF Verb
<1>3. Operands(mc) = mc.args
  BY <1>1 DEF Operands, Calls, Conditions
<1>4. Operands(mi) = IF mi.op = "catchret" THEN <<"rax">> ELSE <<>>
  BY DEF Operands, Calls, Conditions
<1>5. Size(mc) = 1
  BY <1>1 DEF Size, VexMoves
<1>6. Size(mi) \in 1 .. 6
  BY SizePositive
<1>7. Operands(mc) = Operands(mi)
  BY <1>1, <1>3, <1>4
<1>8. Size(mc) <= Size(mi)
  BY <1>5, <1>6
<1> QED  BY <1>2, <1>7, <1>8 DEF Faithful, mc

\* TAILJMPd and TAILJMPd_CC.
LEMMA TailJumpFaithful ==
  ASSUME NEW mi, Instruction(mi), mi.op \in {"tailjmp", "tailjmp_cc"},
         mi.op = "tailjmp_cc" => mi.args[2] \in Conditions,
         mi.form \notin {"acc", "abs_mr", "abs_rm", "short", "rev"}
  PROVE  Faithful(mi, TailJump(mi))
<1> DEFINE mc == TailJump(mi)
           op == IF mi.op = "tailjmp_cc" THEN mi.args[2] ELSE "jmp"
<1>1. mc.op = op /\ mc.form = mi.form /\ mc.width = mi.width /\ mc.args = <<mi.args[1]>>
  BY DEF TailJump, Instruction
<1> HIDE DEF mc
<1>2. op \in {"jmp"} \cup Conditions
  OBVIOUS
<1>3. Verb(mi) = op
  BY DEF Verb
<1> HIDE DEF op
<1>4. Verb(mc) = op
  BY <1>1, <1>2 DEF Verb, Conditions
<1>5. mc.args[1] = mi.args[1]
  BY <1>1
<1>6. Operands(mc) = Operands(mi)
  <2>1. Operands(mi) = <<mi.args[1]>>
    BY DEF Operands, Calls
  <2>2. Operands(mc) = <<mc.args[1]>>
    BY <1>1, <1>2 DEF Operands, Conditions, Calls
  <2> QED  BY <2>1, <2>2, <1>5
<1>7. Size(mc) = Size(mi)
  BY <1>1, <1>2 DEF Size, Conditions, VexMoves
<1> QED  BY <1>3, <1>4, <1>6, <1>7, SizePositive DEF Faithful, mc

\* The one byte increment.
LEMMA IncDecFaithful ==
  ASSUME NEW mi, Instruction(mi), mi.op = "inc", mi.form = "r"
  PROVE  Faithful(mi, IncDec(mi))
<1>1. CASE is64
  BY <1>1, SameFaithful DEF IncDec
<1>2. CASE ~ is64
  <2> DEFINE mc == [mi EXCEPT !.form = "short"]
  <2>1. IncDec(mi) = mc
    BY <1>2 DEF IncDec
  <2>2. mc.op = mi.op /\ mc.form = "short" /\ mc.width = mi.width /\ mc.args = mi.args
    BY FormChanged
  <2> HIDE DEF mc
  <2>3. Verb(mc) = Verb(mi)
    BY <2>2 DEF Verb
  <2>4. Operands(mc) = Operands(mi)
    BY <2>2 DEF Operands, Calls, Conditions
  <2>5. Size(mc) = 1
    BY <2>2 DEF Size, VexMoves
  <2> QED  BY <2>1, <2>3, <2>4, <2>5, SizePositive DEF Faithful
<1> QED  BY <1>1, <1>2

\* SimplifyShortMoveForm(): the dropped operands are the accumulator of the
\* instruction's width and no base.
LEMMA ShortMoveFaithful ==
  ASSUME NEW mi, Instruction(mi), mi.op = "mov", mi.form \in MoveForms,
         Len(mi.args) = 3, mi.args[3] = "tlvp" => mi.args[2] = "none",
         mi.args[1] \in Accumulator => mi.args[1] = Acc(mi.width)
  PROVE  Faithful(mi, ShortMove(mi))
<1> DEFINE long == \/ is64 \/ mi.args[1] \notin Accumulator
                   \/ mi.args[3] # "tlvp" /\ mi.args[2] # "none"
<1>1. CASE long
  BY <1>1, SameFaithful DEF ShortMove
<1>2. CASE ~ long
  <2> DEFINE form == IF mi.form = "mr" THEN "abs_mr" ELSE "abs_rm"
             mc == [mi EXCEPT !.form = form, !.args = <<mi.args[3]>>]
  <2>1. ShortMove(mi) = mc
    BY <1>2 DEF ShortMove, Instruction
  <2>2. mc.op = mi.op /\ mc.form = form /\ mc.width = mi.width /\ mc.args = <<mi.args[3]>>
    BY FormArgsChanged
  <2>3. form \in {"abs_mr", "abs_rm"}
    OBVIOUS
  <2> HIDE DEF mc, form
  <2>4. Verb(mc) = Verb(mi)
    BY <2>2 DEF Verb
  <2>5. Operands(mi) = mi.args
    BY DEF Operands, Calls, Conditions, MoveForms
  <2>6. Operands(mc) = <<Acc(mi.width), "none", mi.args[3]>>
    BY <2>2, <2>3 DEF Operands, Calls, Conditions
  <2>7. mi.args = <<Acc(mi.width), "none", mi.args[3]>>
    <3>1. mi.args \in Seq(STRING)
      BY DEF Instruction
    <3>2. mi.args[1] = Acc(mi.width) /\ mi.args[2] = "none"
      BY <1>2
    <3> QED  BY <3>1, <3>2
  <2>8. Size(mc) = 5 /\ Size(mi) = 6
    BY <2>2, <2>3 DEF Size, MoveForms, VexMoves
  <2> QED  BY <2>1, <2>4, <2>5, <2>6, <2>7, <2>8 DEF Faithful
<1> QED  BY <1>1, <1>2

\* SimplifyShortImmForm().
LEMMA ShortImmFaithful ==
  ASSUME NEW mi, Instruction(mi), mi.op \in ArithOps, mi.form = "ri", Len(mi.args) = 2,
         mi.args[1] \in Accumulator => mi.args[1] = Acc(mi.width)
  PROVE  Faithful(mi, ShortImm(mi))
<1>1. CASE mi.args[1] \notin Accumulator
  BY <1>1, SameFaithful DEF ShortImm
<1>2. CASE mi.args[1] \in Accumulator
  <2> DEFINE mc == [mi EXCEPT !.form = "acc", !.args = <<mi.args[2]>>]
  <2>1. ShortImm(mi) = mc
    BY <1>2 DEF ShortImm
  <2>2. mc.op = mi.op /\ mc.form = "acc" /\ mc.width = mi.width /\ mc.args = <<mi.args[2]>>
    BY FormArgsChanged
  <2> HIDE DEF mc
  <2>3. Verb(mc) = Verb(mi)
    BY <2>2 DEF Verb, ArithOps
  <2>4. Operands(mi) = mi.args
    BY DEF Operands, Calls, Conditions, ArithOps
  <2>5. Operands(mc) = <<Acc(mi.width), mi.args[2]>>
    <3>1. mc.args[1] = mi.args[2]
      BY <2>2
    <3> QED  BY <2>2, <3>1 DEF Operands, Calls, Conditions, ArithOps
  <2>6. mi.args = <<Acc(mi.width), mi.args[2]>>
    <3>1. mi.args \in Seq(STRING)
      BY DEF Instruction
    <3> QED  BY <1>2, <3>1
  <2>7. Size(mc) = 5 /\ Size(mi) = 6
    BY <2>2 DEF Size, VexMoves, ArithOps
  <2> QED  BY <2>1, <2>3, <2>4, <2>5, <2>6, <2>7 DEF Faithful
<1> QED  BY <1>1, <1>2

\* SimplifyMOVSX(): the two accumulators are each other's halves.
LEMMA ShortSextFaithful ==
  ASSUME NEW mi, Instruction(mi), mi.op = "movsx", mi.form = "rr",
         mi.args[1] \in Accumulator => mi.width # 0 /\ mi.args[1] = Acc(mi.width)
  PROVE  Faithful(mi, ShortSext(mi))
<1> DEFINE pairs == {<<"ax", "al">>, <<"eax", "ax">>, <<"rax", "eax">>}
<1>1. CASE mi.args \notin pairs
  BY <1>1, SameFaithful DEF ShortSext
<1>2. CASE mi.args \in pairs
  <2> DEFINE mc == [mi EXCEPT !.form = "short", !.args = <<>>]
  <2>1. ShortSext(mi) = mc
    BY <1>2 DEF ShortSext
  <2>2. mc.op = mi.op /\ mc.form = "short" /\ mc.width = mi.width /\ mc.args = <<>>
    BY FormArgsChanged
  <2> HIDE DEF mc
  <2>3. Verb(mc) = Verb(mi)
    BY <2>2 DEF Verb
  <2>4. Operands(mi) = mi.args
    BY DEF Operands, Calls, Conditions
  <2>5. Operands(mc) = <<Acc(mi.width), Acc(mi.width \div 2)>>
    BY <2>2 DEF Operands, Calls, Conditions
  <2>6. mi.args[1] \in Accumulator /\ mi.width \in {8, 16, 32, 64}
    BY <1>2 DEF Accumulator, Instruction
  <2>7. mi.args[1] = Acc(mi.width)
    BY <2>6
  <2>8. mi.args = <<Acc(mi.width), Acc(mi.width \div 2)>>
    <3>1. CASE mi.args = <<"ax", "al">>
      <4>1. mi.width = 16
        BY <2>6, <2>7, <3>1 DEF Acc
      <4>2. Acc(16) = "ax" /\ Acc(8) = "al" /\ 16 \div 2 = 8
        BY DEF Acc
      <4> QED  BY <3>1, <4>1, <4>2
    <3>2. CASE mi.args = <<"eax", "ax">>
      <4>1. mi.width = 32
        BY <2>6, <2>7, <3>2 DEF Acc
      <4>2. Acc(32) = "eax" /\ Acc(16) = "ax" /\ 32 \div 2 = 16
        BY DEF Acc
      <4> QED  BY <3>2, <4>1, <4>2
    <3>3. CASE mi.args = <<"rax", "eax">>
      <4>1. mi.width = 64
        BY <2>6, <2>7, <3>3 DEF Acc
      <4>2. Acc(64) = "rax" /\ Acc(32) = "eax" /\ 64 \div 2 = 32
        BY DEF Acc
      <4> QED  BY <3>3, <4>1, <4>2
    <3> QED  BY <1>2, <3>1, <3>2, <3>3
  <2>9. Size(mc) = 1
    BY <2>2 DEF Size, VexMoves
  <2> QED  BY <2>1, <2>3, <2>4, <2>5, <2>8, <2>9, SizePositive DEF Faithful
<1> QED  BY <1>1, <1>2

\* Whatever applies.
LEMMA SimplifiedFaithful ==
  ASSUME NEW mi, WellFormed(mi)
  PROVE  Faithful(mi, Simplified(mi))
<1>1. Instruction(mi) /\ mi.form \notin {"rev", "acc", "abs_mr", "abs_rm", "short"}
  BY DEF WellFormed, Instruction
<1>2. CASE mi.form = "rr" /\ mi.op \in VexMoves \cup {"vmovsd"}
  <2>1. Simplified(mi) = Commuted(mi)
    BY <1>2 DEF Simplified, VexMoves, MoveForms, ArithOps
  <2> QED  BY <1>1, <1>2, <2>1, CommutedFaithful
<1>3. CASE mi.form = "r" /\ mi.op \in {"call", "tailjmp_r64"}
  <2>1. Simplified(mi) = Callee(mi)
    BY <1>3 DEF Simplified, VexMoves, MoveForms, ArithOps
  <2> QED  BY <1>1, <1>3, <2>1, CalleeFaithful
<1>4. CASE mi.op \in {"eh_return", "cleanupret", "catchret"}
  <2>1. Simplified(mi) = Return(mi)
    BY <1>4 DEF Simplified, VexMoves, MoveForms, ArithOps
  <2> QED  BY <1>1, <1>4, <2>1, ReturnFaithful
<1>5. CASE mi.op \in {"tailjmp", "tailjmp_cc"}
  <2>1. Simplified(mi) = TailJump(mi)
    BY <1>5 DEF Simplified, VexMoves, MoveForms, ArithOps
  <2>2. mi.op = "tailjmp_cc" => mi.args[2] \in Conditions
    BY DEF WellFormed
  <2> QED  BY <1>1, <1>5, <2>1, <2>2, TailJumpFaithful
<1>6. CASE mi.op = "inc" /\ mi.form = "r"
  <2>1. Simplified(mi) = IncDec(mi)
    BY <1>6 DEF Simplified, VexMoves, MoveForms, ArithOps
  <2> QED  BY <1>1, <1>6, <2>1, IncDecFaithful
<1>7. CASE mi.op = "mov" /\ mi.form \in MoveForms
  <2>1. Simplified(mi) = ShortMove(mi)
    BY <1>7 DEF Simplified, VexMoves, MoveForms, ArithOps
  <2>2. /\ Len(mi.args) = 3 /\ (mi.args[3] = "tlvp" => mi.args[2] = "none")
        /\ mi.args[1] \in Accumulator => mi.args[1] = Acc(mi.width)
    BY <1>7 DEF WellFormed
  <2> QED  BY <1>1, <1>7, <2>1, <2>2, ShortMoveFaithful
<1>8. CASE mi.op \in ArithOps /\ mi.form = "ri"
  <2>1. Simplified(mi) = ShortImm(mi)
    BY <1>8 DEF Simplified, VexMoves, MoveForms, ArithOps
  <2>2. Len(mi.args) = 2 /\ (mi.args[1] \in Accumulator => mi.args[1] = Acc(mi.width))
    BY <1>8 DEF WellFormed
  <2> QED  BY <1>1, <1>8, <2>1, <2>2, ShortImmFaithful
<1>9. CASE mi.op = "movsx"
  <2>1. Simplified(mi) = ShortSext(mi)
    BY <1>9 DEF Simplified, VexMoves, MoveForms, ArithOps
  <2>2. mi.form = "rr" /\ (mi.args[1] \in Accumulator => mi.width # 0 /\ mi.args[1] = Acc(mi.width))
    BY <1>9 DEF WellFormed
  <2> QED  BY <1>1, <1>9, <2>1, <2>2, ShortSextFaithful
<1>10. CASE /\ ~ (mi.form = "rr" /\ mi.op \in VexMoves \cup {"vmovsd"})
            /\ ~ (mi.form = "r" /\ mi.op \in {"call", "tailjmp_r64"})
            /\ mi.op \notin {"eh_return", "cleanupret", "catchret"}
            /\ mi.op \notin {"tailjmp", "tailjmp_cc"}
            /\ ~ (mi.op = "inc" /\ mi.form = "r")
            /\ ~ (mi.op = "mov" /\ mi.form \in MoveForms)
            /\ ~ (mi.op \in ArithOps /\ mi.form = "ri")
            /\ mi.op # "movsx"
  <2>1. Simplified(mi) = mi
    BY <1>10 DEF Simplified
  <2> QED  BY <2>1, SameFaithful
<1> QED  BY <1>2, <1>3, <1>4, <1>5, <1>6, <1>7, <1>8, <1>9, <1>10

\* ADD of disjoint bits, ACQUIRE_ and RELEASE_ become ordinary and well formed.
LEMMA PlainFaithful ==
  ASSUME NEW mi, WellFormed(mi), mi.op \in DOMAIN Plain
  PROVE  LET mc == [mi EXCEPT !.op = Plain[mi.op]]
         IN  WellFormed(mc) /\ Faithful(mi, mc)
<1> DEFINE op == Plain[mi.op]
           mc == [mi EXCEPT !.op = op]
<1>1. Instruction(mi) /\ mi.form \notin {"rev", "acc", "abs_mr", "abs_rm", "short"}
  BY DEF WellFormed, Instruction
<1>2. mi.op \in {"add_db", "acquire_mov", "release_mov", "release_add", "release_xor", "release_inc"}
  BY DEF Plain
<1>3. op \in {"or", "mov", "add", "xor", "inc"}
  BY <1>2 DEF Plain
<1>4. op = Verb(mi)
  BY <1>2 DEF Plain, Verb
<1> HIDE DEF op
<1>5. mc.op = op /\ mc.form = mi.form /\ mc.width = mi.width /\ mc.args = mi.args
  BY <1>1 DEF Instruction
<1>6. Instruction(mc)
  BY <1>1, <1>3 DEF Instruction
<1> HIDE DEF mc
<1>7. WellFormed(mc)
  <2>1. /\ mc = [op |-> mc.op, form |-> mc.form, width |-> mc.width, args |-> mc.args]
        /\ mc.width \in {0, 8, 16, 32, 64} /\ mc.args \in Seq(STRING)
    BY <1>6 DEF Instruction
  <2>2. mc.op \notin {"tailjmp", "tailjmp_cc", "movsx"}
    BY <1>3, <1>5
  <2>3. mc.form \in MoveForms \cup {"ri"} => (mc.args[1] \in Accumulator => mc.width # 0 /\ mc.args[1] = Acc(mc.width))
    BY <1>5 DEF WellFormed
  <2> QED  BY <2>1, <2>2, <2>3, <1>5 DEF WellFormed
<1>8. Verb(mc) = op
  BY <1>3, <1>5 DEF Verb
<1>9. Operands(mc) = mi.args
  BY <1>1, <1>3, <1>5 DEF Operands, Calls, Conditions
<1>10. Operands(mi) = mi.args
  BY <1>1, <1>2 DEF Operands, Calls, Conditions
<1>11. Size(mc) = Size(mi)
  BY <1>1, <1>2, <1>3, <1>5 DEF Size, VexMoves
<1>12. Size(mc) \in 1 .. 6
  BY SizePositive
<1>13. Faithful(mi, mc)
  BY <1>4, <1>8, <1>9, <1>10, <1>11, <1>12 DEF Faithful
<1> QED  BY <1>7, <1>13 DEF mc, op

\* Lower() keeps the verb and the operands of every well formed machine
\* instruction, in both modes, and never makes it longer.
THEOREM LowerKeepsMeaning ==
  ASSUME NEW mi, WellFormed(mi)
  PROVE  Faithful(mi, Lower(mi))
<1>1. CASE mi.op \in DOMAIN Plain
  <2> DEFINE mc == [mi EXCEPT !.op = Plain[mi.op]]
  <2>1. WellFormed(mc) /\ Faithful(mi, mc)
    BY <1>1, PlainFaithful
  <2>2. Lower(mi) = Simplified(mc)
    BY <1>1 DEF Lower
  <2> HIDE DEF mc
  <2>3. Faithful(mc, Simplified(mc))
    BY <2>1, SimplifiedFaithful
  <2>4. Size(mi) \in 1 .. 6 /\ Size(mc) \in 1 .. 6 /\ Size(Simplified(mc)) \in 1 .. 6
    BY SizePositive
  <2> QED  BY <2>1, <2>2, <2>3, <2>4 DEF Faithful
<1>2. CASE mi.op \notin DOMAIN Plain
  BY <1>2, SimplifiedFaithful DEF Lower
<1> QED  BY <1>1, <1>2

\* Only EmitInstruction() lowers an instruction this way.
LEMMA OtherSteps ==
  ASSUME Next, \A mi \in Samples : ~ EmitInstruction(mi)
  PROVE  last'.kind # "lower"
<1> DEFINE Kept == last' = Nothing \/ last'.kind = "sled"
<1>1. Kept => last'.kind # "lower"
  BY DEF Nothing
<1>2. ASSUME NEW general \in BOOLEAN, LowerTlsAddr(general) PROVE Kept
  BY <1>2 DEF LowerTlsAddr
<1>3. ASSUME NEW restore \in BOOLEAN, LowerMORESTACK_RET(restore) PROVE Kept
  BY <1>3 DEF LowerMORESTACK_RET
<1>4a. ASSUME LowerMOVPC32r PROVE Kept
  BY <1>4a DEF LowerMOVPC32r
<1>4b. ASSUME LowerSEH_Epilogue PROVE Kept
  BY <1>4b DEF LowerSEH_Epilogue
<1>5. ASSUME NEW patch \in PatchSizes \cup {0}, NEW call \in {CallRel, 2}, LowerSTATEPOINT(patch, call)
      PROVE  Kept
  BY <1>5 DEF LowerSTATEPOINT
<1>6a. ASSUME LowerFAULTING_OP PROVE Kept
  BY <1>6a DEF LowerFAULTING_OP
<1>6b. ASSUME LowerFENTRY_CALL PROVE Kept
  BY <1>6b DEF LowerFENTRY_CALL
<1>6c. ASSUME LowerPATCHABLE_FUNCTION_ENTER PROVE Kept
  BY <1>6c DEF LowerPATCHABLE_FUNCTION_ENTER
<1>7. ASSUME NEW minSize \in {2, 5}, NEW size \in {1, 3}, NEW push \in BOOLEAN,
             LowerPATCHABLE_OP(minSize, size, push)
      PROVE  Kept
  BY <1>7 DEF LowerPATCHABLE_OP
<1>8. ASSUME NEW bytes \in ShadowSizes, LowerSTACKMAP(bytes) PROVE Kept
  BY <1>8 DEF LowerSTACKMAP
<1>9. ASSUME NEW bytes \in PatchSizes, NEW null \in BOOLEAN, NEW reg \in Scratch,
             LowerPATCHPOINT(bytes, null, reg)
      PROVE  Kept
  BY <1>9 DEF LowerPATCHPOINT
<1>10. ASSUME NEW dest, NEW src, EventSled(dest, src) PROVE Kept
  BY <1>10 DEF EventSled
<1>11. ASSUME NEW size \in {1, 3}, LowerPATCHABLE_RET(size) PROVE Kept
  BY <1>11 DEF LowerPATCHABLE_RET
<1>12a. ASSUME LowerPATCHABLE_TAIL_CALL PROVE Kept
  BY <1>12a DEF LowerPATCHABLE_TAIL_CALL
<1>12b. ASSUME BlockEnd PROVE Kept
  BY <1>12b DEF BlockEnd
<1>12c. ASSUME FunctionEnd PROVE Kept
  BY <1>12c DEF FunctionEnd
<1> HIDE DEF Kept
<1> QED  BY <1>1, <1>2, <1>3, <1>4a, <1>4b, <1>5, <1>6a, <1>6b, <1>6c, <1>7, <1>8, <1>9, <1>10, <1>11,
         <1>12a, <1>12b, <1>12c
         DEF Next, LowerPATCHABLE_EVENT_CALL, LowerPATCHABLE_TYPED_EVENT_CALL

\* Lower() is faithful in every function.
THEOREM LowerFaithfulHolds == Spec => []LowerFaithful
<1>1. Init => LowerFaithful
  BY DEF Init, Nothing, LowerFaithful
<1>2. LowerFaithful /\ [Next]_vars => LowerFaithful'
  <2> SUFFICES ASSUME LowerFaithful, [Next]_vars PROVE LowerFaithful'
    OBVIOUS
  <2>1. ASSUME NEW mi \in Samples, EmitInstruction(mi) PROVE LowerFaithful'
    <3>1. Faithful(mi, Lower(mi))
      BY SamplesAssumption, LowerKeepsMeaning DEF SamplesAssumption
    <3>2. last' = [kind |-> "lower", before |-> mi, after |-> Lower(mi)]
      BY <2>1 DEF EmitInstruction
    <3>3. last'.before = mi /\ last'.after = Lower(mi)
      BY <3>2
    <3> QED  BY <3>1, <3>3 DEF LowerFaithful, Faithful
  <2>2. CASE last'.kind # "lower"
    BY <2>2 DEF LowerFaithful
  <2>3. CASE UNCHANGED vars
    BY <2>3 DEF vars, LowerFaithful, Verb, Operands, Size
  <2>4. ASSUME Next, \A mi \in Samples : ~ EmitInstruction(mi)
        PROVE  last'.kind # "lower"
    BY <2>4, OtherSteps
  <2> QED  BY <2>1, <2>2, <2>3, <2>4
<1> QED  BY <1>1, <1>2, PTL DEF Spec
-------------------------------------------------------------------------------
(* The event sleds.                                                        *)

\* The operands of an event sled, in registers R.
SledRegs(dest, src, R) ==
  /\ Len(dest) \in Nat
  /\ dest \in [1 .. Len(dest) -> R]
  /\ src \in [1 .. Len(dest) -> R]
  /\ R = ToSet(dest) \cup ToSet(src)

\* The history of the moves.
MoveEach(dest, src, R, g) ==
  /\ g \in [0 .. Len(dest) -> [R -> R]]
  /\ g[0] = [r \in R |-> r]
  /\ \A i \in 1 .. Len(dest) :
       /\ g[i][dest[i]] = g[i - 1][src[i]]
       /\ \A r \in R : r # dest[i] \/ src[i] = dest[i] => g[i][r] = g[i - 1][r]

\* Moved one move at a time.
LEMMA MovedSteps ==
  ASSUME NEW dest, NEW src, NEW R, SledRegs(dest, src, R)
  PROVE  \E g : MoveEach(dest, src, R, g) /\ Moved(dest, src) = g[Len(dest)]
<1> DEFINE m == Len(dest)
           U == UsedMask(dest, src)
           F == [i \in 1 .. m |-> [p \in [R -> R] |->
                   IF i \in U THEN [p EXCEPT ![dest[i]] = p[src[i]]] ELSE p]]
           id == [r \in R |-> r]
<1>1. m \in Nat
  BY DEF SledRegs
<1>u. U = {i \in 1 .. m : src[i] # dest[i]}
  BY DEF UsedMask, SledRegs
<1>2. F \in [1 .. m -> [[R -> R] -> [R -> R]]]
  <2> SUFFICES ASSUME NEW i \in 1 .. m, NEW p \in [R -> R]
               PROVE  (IF i \in U THEN [p EXCEPT ![dest[i]] = p[src[i]]] ELSE p) \in [R -> R]
    OBVIOUS
  <2>1. src[i] \in R
    BY DEF SledRegs
  <2> QED  BY <2>1
<1>i. id \in [R -> R]
  OBVIOUS
<1>b. Before(dest, src) = id
  BY DEF Before, SledRegs
<1>d. \A i \in 1 .. m : dest[i] \in R /\ src[i] \in R
  BY DEF SledRegs
<1> HIDE DEF F, m, U, id
<1>3. PICK g \in [0 .. m -> [R -> R]] : g[0] = id /\ \A k \in 1 .. m : g[k] = F[k][g[k - 1]]
  <2> DEFINE S == [R -> R]
  <2>1. m \in Nat /\ F \in [1 .. m -> [S -> S]] /\ id \in S
    BY <1>1, <1>2, <1>i
  <2> HIDE DEF S
  <2>2. \E g \in [0 .. m -> S] : g[0] = id /\ \A k \in 1 .. m : g[k] = F[k][g[k - 1]]
    BY <2>1, Iterates, SMTT(60)
  <2> QED  BY <2>2 DEF S
<1>4. \A i \in 1 .. m : g[i] = IF i \in U THEN [g[i - 1] EXCEPT ![dest[i]] = g[i - 1][src[i]]] ELSE g[i - 1]
  <2> SUFFICES ASSUME NEW i \in 1 .. m
               PROVE  F[i][g[i - 1]] = IF i \in U THEN [g[i - 1] EXCEPT ![dest[i]] = g[i - 1][src[i]]] ELSE g[i - 1]
    BY <1>3
  <2>1. g[i - 1] \in [R -> R]
    BY <1>1, <1>3
  <2> QED  BY <2>1 DEF F
<1> DEFINE Is(f) == f = [i \in 0 .. m |-> IF i = 0 THEN id
                                          ELSE IF i \in U THEN [f[i - 1] EXCEPT ![dest[i]] = f[i - 1][src[i]]]
                                          ELSE f[i - 1]]
           upTo == CHOOSE f : Is(f)
<1>5. Is(g)
  <2>1. \A i \in 0 .. m : g[i] = IF i = 0 THEN id ELSE
                                 IF i \in U THEN [g[i - 1] EXCEPT ![dest[i]] = g[i - 1][src[i]]] ELSE g[i - 1]
    <3> SUFFICES ASSUME NEW i \in 0 .. m
                 PROVE  g[i] = IF i = 0 THEN id ELSE
                               IF i \in U THEN [g[i - 1] EXCEPT ![dest[i]] = g[i - 1][src[i]]] ELSE g[i - 1]
      OBVIOUS
    <3>1. CASE i = 0
      BY <3>1, <1>3
    <3>2. CASE i \in 1 .. m
      <4>1. i # 0
        BY <3>2, <1>1
      <4> QED  BY <4>1, <3>2, <1>4
    <3> QED  BY <1>1, <3>1, <3>2
  <2>2. g = [i \in 0 .. m |-> g[i]]
    BY <1>3
  <2> QED  BY <2>1, <2>2
<1>6. Is(upTo)
  <2> HIDE DEF Is
  <2> QED  BY <1>5
<1>7. Moved(dest, src) = upTo[m]
  BY <1>b DEF Moved, m, U
<1> HIDE DEF upTo
<1>s. \A k \in Nat : k + 1 <= m => k + 1 \in 1 .. m /\ (k + 1) - 1 = k
  BY <1>1
<1>e. upTo[0] = id
  BY <1>1, <1>6
<1>8. ASSUME NEW i \in 1 .. m
      PROVE  upTo[i] = IF i \in U THEN [upTo[i - 1] EXCEPT ![dest[i]] = upTo[i - 1][src[i]]] ELSE upTo[i - 1]
  <2>1. i \in 0 .. m /\ i # 0
    BY <1>1
  <2> DEFINE new(j) == IF j = 0 THEN id
                       ELSE IF j \in U THEN [upTo[j - 1] EXCEPT ![dest[j]] = upTo[j - 1][src[j]]]
                       ELSE upTo[j - 1]
  <2>2. upTo = [j \in 0 .. m |-> new(j)]
    BY <1>6
  <2> HIDE DEF new
  <2>3. upTo[i] = new(i)
    BY <2>1, <2>2
  <2> QED  BY <2>1, <2>3 DEF new
<1>9. upTo \in [0 .. m -> [R -> R]]
  <2> DEFINE T == {k \in Nat : k <= m => upTo[k] \in [R -> R]}
  <2>1. 0 \in T
    BY <1>e, <1>i
  <2>2. ASSUME NEW k \in Nat, k \in T PROVE k + 1 \in T
    <3> SUFFICES ASSUME k + 1 <= m PROVE upTo[k + 1] \in [R -> R]
      OBVIOUS
    <3>1. upTo[k] \in [R -> R]
      BY <1>1, <2>2
    <3>2. k + 1 \in 1 .. m /\ (k + 1) - 1 = k
      BY <1>s
    <3>3. upTo[k + 1] = IF k + 1 \in U THEN [upTo[k] EXCEPT ![dest[k + 1]] = upTo[k][src[k + 1]]] ELSE upTo[k]
      BY <3>2, <1>8
    <3>4. src[k + 1] \in R
      BY <3>2, <1>d
    <3> QED  BY <3>1, <3>3, <3>4
  <2> HIDE DEF T
  <2>3. \A k \in Nat : k \in T
    BY <2>1, <2>2, NatSet
  <2>4. \A k \in 0 .. m : upTo[k] \in [R -> R]
    BY <1>1, <2>3 DEF T
  <2> QED  BY <1>6, <2>4
<1>10. ASSUME NEW i \in 1 .. m
       PROVE  /\ upTo[i][dest[i]] = upTo[i - 1][src[i]]
              /\ \A r \in R : r # dest[i] \/ src[i] = dest[i] => upTo[i][r] = upTo[i - 1][r]
  <2>1. upTo[i - 1] \in [R -> R]
    BY <1>1, <1>9
  <2>2. dest[i] \in R
    BY <1>d
  <2>3. CASE i \in U
    <3>1. upTo[i] = [upTo[i - 1] EXCEPT ![dest[i]] = upTo[i - 1][src[i]]]
      BY <2>3, <1>8
    <3>2. src[i] # dest[i]
      BY <2>3, <1>u DEF m
    <3> QED  BY <2>1, <2>2, <3>1, <3>2
  <2>4. CASE i \notin U
    <3>1. upTo[i] = upTo[i - 1]
      BY <2>4, <1>8
    <3>2. src[i] = dest[i]
      BY <2>4, <1>u DEF m
    <3> QED  BY <3>1, <3>2
  <2> QED  BY <2>3, <2>4
<1> QED  BY <1>7, <1>9, <1>e, <1>10 DEF MoveEach, m, id

\* A trampoline wants each operand in a register of its own.
Distinct(dest) == \A i, j \in DOMAIN dest : dest[i] = dest[j] => i = j

\* The moves change only registers that were pushed.
LEMMA MovedKeeps ==
  ASSUME NEW dest, NEW src, NEW R, SledRegs(dest, src, R)
  PROVE  /\ Moved(dest, src) \in [R -> R]
         /\ \A r \in R : (\A i \in UsedMask(dest, src) : r # dest[i]) => Moved(dest, src)[r] = r
<1>1. PICK g : MoveEach(dest, src, R, g) /\ Moved(dest, src) = g[Len(dest)]
  BY MovedSteps
<1> DEFINE m == Len(dest)
<1>2. m \in Nat /\ g \in [0 .. m -> [R -> R]] /\ g[0] = [r \in R |-> r]
  BY <1>1 DEF MoveEach, SledRegs
<1>3. \A i \in 1 .. m, r \in R : r # dest[i] \/ src[i] = dest[i] => g[i][r] = g[i - 1][r]
  BY <1>1 DEF MoveEach
<1>4. UsedMask(dest, src) = {i \in 1 .. m : src[i] # dest[i]}
  BY DEF UsedMask, SledRegs
<1> HIDE DEF m
<1>5. ASSUME NEW r \in R, \A i \in UsedMask(dest, src) : r # dest[i]
      PROVE  g[m][r] = r
  <2> DEFINE T == {k \in Nat : k <= m => g[k][r] = r}
  <2>1. 0 \in T
    BY <1>2
  <2>2. ASSUME NEW k \in Nat, k \in T PROVE k + 1 \in T
    <3> SUFFICES ASSUME k + 1 <= m PROVE g[k + 1][r] = r
      OBVIOUS
    <3>1. k + 1 \in 1 .. m /\ (k + 1) - 1 = k /\ g[k][r] = r
      BY <1>2, <2>2
    <3>2. r # dest[k + 1] \/ src[k + 1] = dest[k + 1]
      BY <3>1, <1>4, <1>5
    <3> QED  BY <3>1, <3>2, <1>3
  <2> HIDE DEF T
  <2>3. m \in T
    BY <1>2, <2>1, <2>2, NatSet
  <2> QED  BY <2>3, <1>2 DEF T
<1>6. g[m] \in [R -> R]
  BY <1>2
<1> QED  BY <1>1, <1>5, <1>6 DEF m

\* An earlier move fills the register a later operand is in.
Overtaken(dest, src) == \E i, j \in DOMAIN dest : i < j /\ src[j] = dest[i] /\ src[i] # dest[i]

\* The operands arrive intact exactly if none is overtaken.
LEMMA MovedIntact ==
  ASSUME NEW dest, NEW src, NEW R, SledRegs(dest, src, R), Distinct(dest), Len(dest) \in {2, 3}
  PROVE  (\A i \in DOMAIN dest : Moved(dest, src)[dest[i]] = src[i]) <=> ~ Overtaken(dest, src)
<1>1. PICK g : MoveEach(dest, src, R, g) /\ Moved(dest, src) = g[Len(dest)]
  BY MovedSteps
<1>2. DOMAIN dest = 1 .. Len(dest)
  BY DEF SledRegs
<1>3. /\ 1 \in 1 .. Len(dest) /\ 2 \in 1 .. Len(dest)
      /\ dest[1] \in R /\ dest[2] \in R /\ src[1] \in R /\ src[2] \in R
      /\ dest[1] # dest[2]
  BY <1>2 DEF SledRegs, Distinct
<1>4. g[0] = [r \in R |-> r]
  BY <1>1 DEF MoveEach
<1>5. /\ g[1][dest[1]] = src[1]
      /\ \A r \in R : r # dest[1] \/ src[1] = dest[1] => g[1][r] = r
  <2>1. /\ g[1][dest[1]] = g[1 - 1][src[1]]
        /\ \A r \in R : r # dest[1] \/ src[1] = dest[1] => g[1][r] = g[1 - 1][r]
    BY <1>1, <1>3 DEF MoveEach
  <2> QED  BY <2>1, <1>3, <1>4
<1>6. /\ g[2][dest[2]] = g[1][src[2]]
      /\ \A r \in R : r # dest[2] \/ src[2] = dest[2] => g[2][r] = g[1][r]
  <2>1. /\ g[2][dest[2]] = g[2 - 1][src[2]]
        /\ \A r \in R : r # dest[2] \/ src[2] = dest[2] => g[2][r] = g[2 - 1][r]
    BY <1>1, <1>3 DEF MoveEach
  <2> QED  BY <2>1
<1>7. CASE Len(dest) = 2
  <2>1. DOMAIN dest = {1, 2}
    BY <1>2, <1>7
  <2>2. Overtaken(dest, src) <=> src[2] = dest[1] /\ src[1] # dest[1]
    BY <2>1 DEF Overtaken
  <2>3. Moved(dest, src)[dest[1]] = src[1]
    BY <1>1, <1>3, <1>5, <1>6, <1>7
  <2>4. Moved(dest, src)[dest[2]] = g[1][src[2]]
    BY <1>1, <1>6, <1>7
  <2>5. g[1][src[2]] = src[2] <=> ~ (src[2] = dest[1] /\ src[1] # dest[1])
    BY <1>3, <1>5
  <2> QED  BY <2>1, <2>2, <2>3, <2>4, <2>5
<1>8. CASE Len(dest) = 3
  <2>1. DOMAIN dest = {1, 2, 3}
    BY <1>2, <1>8
  <2>2. Overtaken(dest, src) <=> \/ src[2] = dest[1] /\ src[1] # dest[1]
                                 \/ src[3] = dest[1] /\ src[1] # dest[1]
                                 \/ src[3] = dest[2] /\ src[2] # dest[2]
    BY <2>1 DEF Overtaken
  <2>3. 3 \in 1 .. Len(dest) /\ dest[3] \in R /\ src[3] \in R /\ dest[1] # dest[3] /\ dest[2] # dest[3]
    BY <1>2, <1>8 DEF SledRegs, Distinct
  <2>4. /\ g[3][dest[3]] = g[2][src[3]]
        /\ \A r \in R : r # dest[3] \/ src[3] = dest[3] => g[3][r] = g[2][r]
    <3>1. /\ g[3][dest[3]] = g[3 - 1][src[3]]
          /\ \A r \in R : r # dest[3] \/ src[3] = dest[3] => g[3][r] = g[3 - 1][r]
      BY <1>1, <2>3 DEF MoveEach
    <3> QED  BY <3>1
  <2>5. /\ g[3][dest[1]] = src[1]
        /\ g[3][dest[2]] = g[1][src[2]]
        /\ g[3][dest[3]] = g[2][src[3]]
    BY <1>3, <1>5, <1>6, <2>3, <2>4
  <2>6. g[1][src[2]] = src[2] <=> ~ (src[2] = dest[1] /\ src[1] # dest[1])
    BY <1>3, <1>5
  <2>7. CASE src[3] = dest[2]
    <3>1. g[2][src[3]] = g[1][src[2]]
      BY <2>7, <1>6
    <3> QED  BY <1>1, <1>8, <2>1, <2>2, <2>5, <2>6, <2>7, <3>1, <1>3
  <2>8. CASE src[3] # dest[2]
    <3>1. g[2][src[3]] = g[1][src[3]]
      BY <2>3, <2>8, <1>6
    <3>2. g[1][src[3]] = src[3] <=> ~ (src[3] = dest[1] /\ src[1] # dest[1])
      BY <1>5, <2>3
    <3> QED  BY <1>1, <1>8, <2>1, <2>2, <2>5, <2>6, <2>8, <3>1, <3>2
  <2> QED  BY <2>7, <2>8
<1> QED  BY <1>7, <1>8

\* Every register that a move fills is on the stack.
LEMMA PushedAll ==
  ASSUME NEW dest, NEW src, NEW R, SledRegs(dest, src, R)
  PROVE  /\ Pushed(dest, src) \in Seq(R)
         /\ \A i \in UsedMask(dest, src) : \E k \in 1 .. Len(Pushed(dest, src)) : dest[i] = Pushed(dest, src)[k]
<1> DEFINE m == Len(dest)
           U == UsedMask(dest, src)
           F == [i \in 1 .. m |-> [p \in Seq(R) |-> IF i \in U THEN Append(p, dest[i]) ELSE p]]
<1>1. m \in Nat /\ \A i \in 1 .. m : dest[i] \in R
  BY DEF SledRegs
<1>u. U \subseteq 1 .. m
  BY DEF UsedMask, SledRegs
<1>2. F \in [1 .. m -> [Seq(R) -> Seq(R)]]
  BY <1>1
<1> HIDE DEF F, m, U
<1>3. PICK g \in [0 .. m -> Seq(R)] : g[0] = <<>> /\ \A k \in 1 .. m : g[k] = F[k][g[k - 1]]
  <2> DEFINE S == Seq(R)
             none == <<>>
  <2>1. m \in Nat /\ F \in [1 .. m -> [S -> S]] /\ none \in S
    BY <1>1, <1>2
  <2> HIDE DEF S, none
  <2>2. \E g \in [0 .. m -> S] : g[0] = none /\ \A k \in 1 .. m : g[k] = F[k][g[k - 1]]
    BY <2>1, Iterates, SMTT(60)
  <2> QED  BY <2>2 DEF S, none
<1>4. ASSUME NEW i \in 1 .. m PROVE g[i] = IF i \in U THEN Append(g[i - 1], dest[i]) ELSE g[i - 1]
  <2>1. g[i - 1] \in Seq(R)
    BY <1>1, <1>3
  <2> QED  BY <2>1, <1>3 DEF F
<1> DEFINE new(f, i) == IF i = 0 THEN <<>> ELSE IF i \in U THEN Append(f[i - 1], dest[i]) ELSE f[i - 1]
           Is(f) == f = [i \in 0 .. m |-> new(f, i)]
           upTo == CHOOSE f : Is(f)
<1>5. Is(g)
  <2>1. ASSUME NEW i \in 0 .. m PROVE g[i] = new(g, i)
    <3>1. CASE i = 0
      BY <3>1, <1>3
    <3>2. CASE i \in 1 .. m
      <4>1. i # 0
        BY <3>2, <1>1
      <4> QED  BY <4>1, <3>2, <1>4
    <3> QED  BY <1>1, <3>1, <3>2
  <2>2. g = [i \in 0 .. m |-> g[i]]
    BY <1>3
  <2> HIDE DEF new
  <2> QED  BY <2>1, <2>2
<1>6. Is(upTo)
  <2> HIDE DEF Is
  <2> QED  BY <1>5
<1>7. Pushed(dest, src) = upTo[m]
  BY DEF Pushed, m, U
<1> HIDE DEF upTo
<1>n. \A i \in 0 .. m : upTo[i] = new(upTo, i)
  <2> DEFINE value(i) == new(upTo, i)
  <2>1. upTo = [i \in 0 .. m |-> value(i)]
    BY <1>6
  <2> HIDE DEF value
  <2>2. \A i \in 0 .. m : upTo[i] = value(i)
    BY <2>1
  <2> QED  BY <2>2 DEF value
<1>e. upTo[0] = <<>>
  BY <1>1, <1>n
<1>8. ASSUME NEW i \in 1 .. m PROVE upTo[i] = IF i \in U THEN Append(upTo[i - 1], dest[i]) ELSE upTo[i - 1]
  <2>1. i \in 0 .. m /\ i # 0
    BY <1>1
  <2> QED  BY <2>1, <1>n
<1> HIDE DEF Is
<1> DEFINE Holds(k, r) == \E j \in 1 .. Len(upTo[k]) : r = upTo[k][j]
           T == {k \in Nat : k <= m => upTo[k] \in Seq(R) /\ \A i \in U : i <= k => Holds(k, dest[i])}
<1>9. 0 \in T
  <2>1. upTo[0] \in Seq(R)
    BY <1>e
  <2>2. \A i \in U : ~ (i <= 0)
    BY <1>u, <1>1
  <2> QED  BY <2>1, <2>2
<1>10. ASSUME NEW k \in Nat, k \in T PROVE k + 1 \in T
  <2> SUFFICES ASSUME k + 1 <= m
               PROVE  upTo[k + 1] \in Seq(R) /\ \A i \in U : i <= k + 1 => Holds(k + 1, dest[i])
    OBVIOUS
  <2>1. k + 1 \in 1 .. m /\ (k + 1) - 1 = k
    BY <1>1
  <2>2. upTo[k] \in Seq(R) /\ \A i \in U : i <= k => Holds(k, dest[i])
    BY <1>1, <1>10
  <2>3. \A i \in U : i <= k + 1 => i <= k \/ i = k + 1
    BY <1>u, <1>1
  <2>4. CASE k + 1 \in U
    <3>1. upTo[k + 1] = Append(upTo[k], dest[k + 1])
      BY <2>1, <2>4, <1>8
    <3>2. dest[k + 1] \in R
      BY <1>1, <2>1
    <3>3. upTo[k + 1] \in Seq(R)
      BY <2>2, <3>1, <3>2
    <3> DEFINE p == upTo[k]
               l == Len(p)
    <3>4. p \in Seq(R) /\ l \in Nat /\ Len(upTo[k + 1]) = l + 1 /\ upTo[k + 1][l + 1] = dest[k + 1]
          /\ \A j \in 1 .. l : upTo[k + 1][j] = p[j]
      BY <2>2, <3>1, <3>2
    <3>5. ASSUME NEW r, Holds(k, r) PROVE Holds(k + 1, r)
      <4>1. PICK j \in 1 .. l : r = p[j]
        BY <3>5
      <4> HIDE DEF p, l
      <4>2. j \in 1 .. Len(upTo[k + 1]) /\ r = upTo[k + 1][j]
        BY <3>4, <4>1
      <4> QED  BY <4>2
    <3>6. Holds(k + 1, dest[k + 1])
      <4> HIDE DEF p, l
      <4>1. l + 1 \in 1 .. Len(upTo[k + 1]) /\ dest[k + 1] = upTo[k + 1][l + 1]
        BY <3>4
      <4> QED  BY <4>1
    <3> HIDE DEF Holds
    <3> QED  BY <2>2, <2>3, <3>3, <3>5, <3>6
  <2>5. CASE k + 1 \notin U
    <3>1. upTo[k + 1] = upTo[k]
      BY <2>1, <2>5, <1>8
    <3>2. \A r : Holds(k, r) => Holds(k + 1, r)
      BY <3>1
    <3>3. upTo[k + 1] \in Seq(R)
      BY <2>2, <3>1
    <3> HIDE DEF Holds
    <3> QED  BY <2>2, <2>3, <2>5, <3>2, <3>3
  <2> QED  BY <2>4, <2>5
<1> HIDE DEF T
<1>11. m \in T
  BY <1>1, <1>9, <1>10, NatSet
<1>12. upTo[m] \in Seq(R) /\ \A i \in U : i <= m => Holds(m, dest[i])
  BY <1>1, <1>11 DEF T
<1>13. \A i \in U : i <= m
  BY <1>u, <1>1
<1> QED  BY <1>7, <1>12, <1>13 DEF U

\* The pops put every register back.
LEMMA RestoredAll ==
  ASSUME NEW dest, NEW src, NEW R, SledRegs(dest, src, R)
  PROVE  Restored(dest, src) = Before(dest, src)
<1> DEFINE saved == Pushed(dest, src)
           m == Len(saved)
           moved == Moved(dest, src)
<1>1. /\ saved \in Seq(R) /\ m \in Nat
      /\ \A k \in 1 .. m : m + 1 - k \in 1 .. m /\ saved[m + 1 - k] \in R
      /\ \A k \in 1 .. m : saved[k] \in R
  <2>1. saved \in Seq(R) /\ m \in Nat
    BY PushedAll
  <2>2. \A k \in 1 .. m : saved[k] \in R
    BY <2>1
  <2>3. \A k \in 1 .. m : m + 1 - k \in 1 .. m
    BY <2>1
  <2> QED  BY <2>1, <2>2, <2>3
<1>2. moved \in [R -> R]
  BY MovedKeeps
<1>3. \A k \in 1 .. m : PopOrder(dest, src)[k] = saved[m + 1 - k]
  <2>1. \A k \in 1 .. m : PopOrder(dest, src)[k] = saved[(m - k) + 1]
    BY DEF PopOrder, Reverse
  <2>2. \A k \in 1 .. m : (m - k) + 1 = m + 1 - k
    BY <1>1
  <2> QED  BY <2>1, <2>2
<1>4. \A r \in R : moved[r] = r \/ \E k \in 1 .. m : r = saved[k]
  <2>1. \A i \in UsedMask(dest, src) : \E k \in 1 .. m : dest[i] = saved[k]
    BY PushedAll
  <2>2. \A r \in R : (\A i \in UsedMask(dest, src) : r # dest[i]) => moved[r] = r
    BY MovedKeeps
  <2> HIDE DEF saved, m, moved
  <2> QED  BY <2>1, <2>2
<1> HIDE DEF saved, m, moved
<1> DEFINE Put(p, k) == [p EXCEPT ![saved[m + 1 - k]] = saved[m + 1 - k]]
           F == [k \in 1 .. m |-> [p \in [R -> R] |-> Put(p, k)]]
<1>5. F \in [1 .. m -> [[R -> R] -> [R -> R]]]
  <2> SUFFICES ASSUME NEW k \in 1 .. m, NEW p \in [R -> R]
               PROVE  [p EXCEPT ![saved[m + 1 - k]] = saved[m + 1 - k]] \in [R -> R]
    OBVIOUS
  <2> QED  BY <1>1
<1>6. \A k \in 1 .. m, p \in [R -> R] : F[k][p] = Put(p, k)
  BY DEF F
<1> HIDE DEF F
<1>7. PICK g \in [0 .. m -> [R -> R]] : g[0] = moved /\ \A k \in 1 .. m : g[k] = F[k][g[k - 1]]
  <2> DEFINE S == [R -> R]
  <2>1. m \in Nat /\ F \in [1 .. m -> [S -> S]] /\ moved \in S
    BY <1>1, <1>2, <1>5
  <2> HIDE DEF S
  <2>2. \E g \in [0 .. m -> S] : g[0] = moved /\ \A k \in 1 .. m : g[k] = F[k][g[k - 1]]
    BY <2>1, Iterates, SMTT(60)
  <2> QED  BY <2>2 DEF S
<1>8. ASSUME NEW k \in 1 .. m PROVE g[k] = [g[k - 1] EXCEPT ![PopOrder(dest, src)[k]] = saved[m + 1 - k]]
  <2>1. g[k - 1] \in [R -> R]
    BY <1>1, <1>7
  <2> QED  BY <2>1, <1>3, <1>6, <1>7
<1> DEFINE new(f, k) == IF k = 0 THEN moved
                        ELSE [f[k - 1] EXCEPT ![PopOrder(dest, src)[k]] = saved[m + 1 - k]]
           Is(f) == f = [k \in 0 .. m |-> new(f, k)]
           upTo == CHOOSE f : Is(f)
<1>9. Is(g)
  <2>1. ASSUME NEW k \in 0 .. m PROVE g[k] = new(g, k)
    <3>1. CASE k = 0
      BY <3>1, <1>7
    <3>2. CASE k \in 1 .. m
      <4>1. k # 0
        BY <3>2, <1>1
      <4> QED  BY <4>1, <3>2, <1>8
    <3> QED  BY <1>1, <3>1, <3>2
  <2>2. g = [k \in 0 .. m |-> g[k]]
    BY <1>7
  <2> HIDE DEF new
  <2> QED  BY <2>1, <2>2
<1>10. Is(upTo)
  <2> HIDE DEF Is
  <2> QED  BY <1>9
<1>11. Restored(dest, src) = upTo[m]
  BY DEF Restored, saved, m, moved
<1> HIDE DEF upTo
<1>12. \A k \in 0 .. m : upTo[k] = new(upTo, k)
  <2> DEFINE value(k) == new(upTo, k)
  <2>1. upTo = [k \in 0 .. m |-> value(k)]
    BY <1>10
  <2> HIDE DEF value
  <2>2. \A k \in 0 .. m : upTo[k] = value(k)
    BY <2>1
  <2> QED  BY <2>2 DEF value
<1> HIDE DEF Is
<1>0. upTo[0] = moved
  <2>1. 0 \in 0 .. m
    BY <1>1
  <2>2. upTo[0] = new(upTo, 0)
    BY <2>1, <1>12, Zenon
  <2> QED  BY <2>2
<1> DEFINE Back(k) == /\ upTo[k] \in [R -> R]
                      /\ \A r \in R : upTo[k][r] = r \/ upTo[k][r] = moved[r]
                      /\ \A j \in 1 .. m : j >= m + 1 - k => upTo[k][saved[j]] = saved[j]
           T == {k \in Nat : k <= m => Back(k)}
<1>13. 0 \in T
  <2>1. \A j \in 1 .. m : ~ (j >= m + 1 - 0)
    BY <1>1
  <2> QED  BY <2>1, <1>0, <1>2
<1>14. ASSUME NEW k \in Nat, k \in T PROVE k + 1 \in T
  <2> SUFFICES ASSUME k + 1 <= m PROVE Back(k + 1)
    OBVIOUS
  <2> DEFINE r0 == saved[m + 1 - (k + 1)]
  <2>1. Back(k)
    BY <1>1, <1>14
  <2>2. k + 1 \in 1 .. m /\ k + 1 \in 0 .. m /\ (k + 1) - 1 = k /\ k + 1 # 0
    BY <1>1
  <2>3. upTo[k + 1] = [upTo[k] EXCEPT ![r0] = r0]
    BY <2>2, <1>3, <1>12
  <2>4. r0 \in R
    BY <2>2, <1>1
  <2>5. upTo[k] \in [R -> R]
    BY <2>1
  <2>6. upTo[k + 1] \in [R -> R] /\ \A r \in R : upTo[k + 1][r] = IF r = r0 THEN r ELSE upTo[k][r]
    BY <2>3, <2>4, <2>5
  <2>7. ASSUME NEW j \in 1 .. m, j >= m + 1 - (k + 1) PROVE upTo[k + 1][saved[j]] = saved[j]
    <3>1. saved[j] \in R
      BY <1>1
    <3>2. CASE j = m + 1 - (k + 1)
      <4>1. upTo[k + 1][r0] = r0
        BY <2>4, <2>6
      <4> QED  BY <3>2, <4>1
    <3>3. CASE j # m + 1 - (k + 1)
      <4>1. j >= m + 1 - k
        BY <3>3, <2>7, <1>1
      <4>2. upTo[k][saved[j]] = saved[j]
        BY <4>1, <2>1
      <4> QED  BY <4>2, <3>1, <2>6
    <3> QED  BY <3>2, <3>3
  <2>8. ASSUME NEW r \in R PROVE upTo[k + 1][r] = r \/ upTo[k + 1][r] = moved[r]
    <3>1. upTo[k][r] = r \/ upTo[k][r] = moved[r]
      BY <2>1
    <3> QED  BY <3>1, <2>6
  <2> QED  BY <2>6, <2>7, <2>8
<1> HIDE DEF T
<1>15. m \in T
  BY <1>1, <1>13, <1>14, NatSet
<1>16. Back(m)
  BY <1>1, <1>15 DEF T
<1>17. ASSUME NEW r \in R PROVE upTo[m][r] = r
  <2>1. CASE moved[r] = r
    BY <1>16, <2>1
  <2>2. ASSUME NEW j \in 1 .. m, r = saved[j] PROVE upTo[m][r] = r
    <3>1. j >= m + 1 - m
      BY <1>1
    <3> QED  BY <1>16, <2>2, <3>1
  <2> QED  BY <1>4, <2>1, <2>2
<1>18. Before(dest, src) = [r \in R |-> r]
  BY DEF Before, SledRegs
<1>19. upTo[m] = [r \in R |-> r]
  BY <1>16, <1>17
<1> QED  BY <1>11, <1>18, <1>19

\* An event sled, of either kind and with its operands anywhere, hands them
\* over exactly if none is overtaken, and leaves the registers as they were.
THEOREM SledExact ==
  ASSUME NEW dest \in {EventDest, TypedDest}, NEW src \in [1 .. Len(dest) -> SrcRegs]
  PROVE  /\ (\A i \in DOMAIN dest : Moved(dest, src)[dest[i]] = src[i]) <=> ~ Overtaken(dest, src)
         /\ Restored(dest, src) = Before(dest, src)
<1> DEFINE R == ToSet(dest) \cup ToSet(src)
<1>1. Len(dest) \in {2, 3} /\ DOMAIN dest = 1 .. Len(dest)
  BY DEF EventDest, TypedDest
<1>2. Distinct(dest)
  BY DEF EventDest, TypedDest, Distinct
<1>3. dest = [i \in 1 .. Len(dest) |-> dest[i]]
  BY DEF EventDest, TypedDest
<1>4. \A i \in 1 .. Len(dest) : dest[i] \in R /\ src[i] \in R
  BY <1>1 DEF ToSet
<1>5. dest \in [1 .. Len(dest) -> R] /\ src \in [1 .. Len(dest) -> R]
  <2> HIDE DEF R
  <2>1. src = [i \in 1 .. Len(dest) |-> src[i]]
    OBVIOUS
  <2> QED  BY <1>3, <1>4, <2>1
<1>6. SledRegs(dest, src, R)
  BY <1>1, <1>5 DEF SledRegs
<1> HIDE DEF R
<1> QED  BY <1>1, <1>2, <1>6, MovedIntact, RestoredAll

\* What the last step lowered, if it was a sled.
SledLast == last.kind = "sled" => /\ last.dest \in {EventDest, TypedDest}
                                  /\ last.src \in [1 .. Len(last.dest) -> SrcRegs]

\* Every step keeps that.
LEMMA SledLastStep ==
  ASSUME SledLast, [Next]_vars
  PROVE  SledLast'
<1> DEFINE Kept == SledLast'
           Other == last' = Nothing \/ last'.kind = "lower"
<1>1. Other => Kept
  BY DEF SledLast, Nothing
<1> HIDE DEF Kept
<1>0. ASSUME NEW mi, EmitInstruction(mi) PROVE Other
  BY <1>0 DEF EmitInstruction
<1>2. ASSUME NEW general \in BOOLEAN, LowerTlsAddr(general) PROVE Other
  BY <1>2 DEF LowerTlsAddr
<1>3. ASSUME NEW restore \in BOOLEAN, LowerMORESTACK_RET(restore) PROVE Other
  BY <1>3 DEF LowerMORESTACK_RET
<1>4a. ASSUME LowerMOVPC32r PROVE Other
  BY <1>4a DEF LowerMOVPC32r
<1>4b. ASSUME LowerSEH_Epilogue PROVE Other
  BY <1>4b DEF LowerSEH_Epilogue
<1>5. ASSUME NEW patch \in PatchSizes \cup {0}, NEW call \in {CallRel, 2}, LowerSTATEPOINT(patch, call)
      PROVE  Other
  BY <1>5 DEF LowerSTATEPOINT
<1>6a. ASSUME LowerFAULTING_OP PROVE Other
  BY <1>6a DEF LowerFAULTING_OP
<1>6b. ASSUME LowerFENTRY_CALL PROVE Other
  BY <1>6b DEF LowerFENTRY_CALL
<1>6c. ASSUME LowerPATCHABLE_FUNCTION_ENTER PROVE Other
  BY <1>6c DEF LowerPATCHABLE_FUNCTION_ENTER
<1>7. ASSUME NEW minSize \in {2, 5}, NEW size \in {1, 3}, NEW push \in BOOLEAN,
             LowerPATCHABLE_OP(minSize, size, push)
      PROVE  Other
  BY <1>7 DEF LowerPATCHABLE_OP
<1>8. ASSUME NEW bytes \in ShadowSizes, LowerSTACKMAP(bytes) PROVE Other
  BY <1>8 DEF LowerSTACKMAP
<1>9. ASSUME NEW bytes \in PatchSizes, NEW null \in BOOLEAN, NEW reg \in Scratch,
             LowerPATCHPOINT(bytes, null, reg)
      PROVE  Other
  BY <1>9 DEF LowerPATCHPOINT
<1>10. ASSUME NEW dest \in {EventDest, TypedDest}, NEW src \in [1 .. Len(dest) -> SrcRegs], EventSled(dest, src)
       PROVE  Kept
  <2>1. last' = [kind |-> "sled", src |-> src, dest |-> dest]
    BY <1>10 DEF EventSled
  <2>2. last'.dest = dest /\ last'.src = src
    BY <2>1
  <2> QED  BY <2>2 DEF Kept, SledLast, EventDest, TypedDest
<1>10a. ASSUME NEW src \in [1 .. 2 -> SrcRegs], LowerPATCHABLE_EVENT_CALL(src) PROVE Kept
  <2>1. Len(EventDest) = 2
    BY DEF EventDest
  <2>2. EventSled(EventDest, src)
    BY <1>10a DEF LowerPATCHABLE_EVENT_CALL
  <2>3. src \in [1 .. Len(EventDest) -> SrcRegs]
    BY <2>1
  <2> QED  BY <2>2, <2>3, <1>10
<1>10b. ASSUME NEW src \in [1 .. 3 -> SrcRegs], LowerPATCHABLE_TYPED_EVENT_CALL(src) PROVE Kept
  <2>1. Len(TypedDest) = 3
    BY DEF TypedDest
  <2>2. EventSled(TypedDest, src)
    BY <1>10b DEF LowerPATCHABLE_TYPED_EVENT_CALL
  <2>3. src \in [1 .. Len(TypedDest) -> SrcRegs]
    BY <2>1
  <2> QED  BY <2>2, <2>3, <1>10
<1>11. ASSUME NEW size \in {1, 3}, LowerPATCHABLE_RET(size) PROVE Other
  BY <1>11 DEF LowerPATCHABLE_RET
<1>12a. ASSUME LowerPATCHABLE_TAIL_CALL PROVE Other
  BY <1>12a DEF LowerPATCHABLE_TAIL_CALL
<1>12b. ASSUME BlockEnd PROVE Other
  BY <1>12b DEF BlockEnd
<1>12c. ASSUME FunctionEnd PROVE Other
  BY <1>12c DEF FunctionEnd
<1>13. ASSUME UNCHANGED vars PROVE Kept
  BY <1>13 DEF Kept, SledLast, vars, EventDest, TypedDest
<1> HIDE DEF Other
<1>14. ASSUME Next PROVE Kept
  BY <1>14, <1>0, <1>1, <1>2, <1>3, <1>4a, <1>4b, <1>5, <1>6a, <1>6b, <1>6c, <1>7, <1>8, <1>9,
     <1>10a, <1>10b, <1>11, <1>12a, <1>12b, <1>12c DEF Next
<1> QED  BY <1>13, <1>14 DEF Kept

\* Every sled of every function is like that.
THEOREM ArgsExactHolds == Spec => []ArgsExact
<1>1. Init => SledLast
  BY DEF Init, Nothing, SledLast
<1>2. SledLast /\ [Next]_vars => SledLast'
  BY SledLastStep
<1>3. SledLast => ArgsExact
  <2> SUFFICES ASSUME SledLast, last.kind = "sled" PROVE ArgsExact
    BY DEF ArgsExact
  <2> DEFINE dest == last.dest
             src == last.src
  <2>1. dest \in {EventDest, TypedDest} /\ src \in [1 .. Len(dest) -> SrcRegs]
    BY DEF SledLast
  <2> HIDE DEF dest, src
  <2>2. /\ (\A i \in DOMAIN dest : Moved(dest, src)[dest[i]] = src[i]) <=> ~ Overtaken(dest, src)
        /\ Restored(dest, src) = Before(dest, src)
    BY <2>1, SledExact
  <2> QED  BY <2>2 DEF ArgsExact, Overtaken, dest, src
<1> QED  BY <1>1, <1>2, <1>3, PTL DEF Spec
=============================================================================
