---------------------------- MODULE MirrorProofs ----------------------------
(***************************************************************************)
(* Proofs about MirrorStack, for every program, stack size and placement:  *)
(* every live instrumented frame's word is in its mirror, a sequence       *)
(* misses its mirror only for the reasons BlindBlame lists, and no jump    *)
(* gets anywhere.  One induction, over IInv; its parts about the frames    *)
(* are proved once for a prefix of the frames and once for a new frame.    *)
(***************************************************************************)
EXTENDS MirrorStack, TLAPS, SequenceTheorems

Regs == {"offset", "foreign"}

LEMMA ConstantFacts ==
  /\ StackWords \in Nat /\ StackWords % 2 = 0 /\ StackWords > 1
  /\ \A f \in Fns : Frame[f] \in Nat /\ Frame[f] % 2 = 1
  /\ Libc \in Fns /\ Libc \in Clobbers /\ Clobbers \cap Unsafe = {}
  /\ Clobbers \cap Reloads = {} /\ StackWords > Frame[Libc] /\ Null \notin Sites
BY ProgramAssumption

LEMMA FrameFacts ==
  ASSUME TypeOK, NEW i \in 1 .. Depth
  PROVE  /\ frames[i] \in Frames /\ frames[i].fn \in Fns /\ frames[i].slot \in Words
         /\ frames[i].slot \in Int /\ Frame[frames[i].fn] \in Nat
         /\ frames[i].reg \in Regs /\ frames[i].mem \in Sites \cup {Null}
         /\ frames[i].ra \in Sites \cup {Null}
<1>1. frames[i] \in Frames
  BY DEF TypeOK, Depth
<1> QED
  BY <1>1, ConstantFacts DEF Frames, Regs, Words

\* A prefix of the frames keeps what IInv says of all of them.  What r15 must be
\* for that is what the callee above the prefix was entered with.
LEMMA Prefix ==
  ASSUME IInv, NEW n \in 1 .. Depth, NEW reg \in Regs,
         scheme = "PARR" /\ n < Depth /\ frames[n + 1].reg = "offset" => reg = "offset",
         n = Depth => reg = r15
  PROVE  LET s == SubSeq(frames, 1, n)
         IN /\ s \in Seq(Frames) /\ Len(s) = n /\ \A i \in 1 .. n : s[i] = frames[i]
            /\ s[1].fn = Libc /\ Stacked(s) /\ Chained(s, reg) /\ Blamed(s)
            /\ status = "run" => Ready(s) /\ (mapped = "own" => Kept(s, mirror))
<1> DEFINE s == SubSeq(frames, 1, n)
<1>1. s \in Seq(Frames) /\ Len(s) = n /\ \A i \in 1 .. n : s[i] = frames[i]
  BY SubSeqProperties DEF IInv, TypeOK, Depth
<1> HIDE DEF s
<1>2. Depth \in Nat /\ n \in Nat /\ n <= Depth /\ n >= 1 /\ Depth = Len(frames)
  BY DEF IInv, TypeOK, Depth
<1>3. s[1].fn = Libc
  BY <1>1, <1>2 DEF IInv
<1>4. Stacked(s)
  BY <1>1, <1>2 DEF IInv, Stacked
<1>5. Chained(s, reg)
  <2> SUFFICES ASSUME scheme = "PARR", NEW i \in 2 .. n,
                      s[i].fn \notin Clobbers, s[i].reg = "offset"
               PROVE  IF i < n THEN s[i + 1].reg = "offset" ELSE reg = "offset"
    BY <1>1 DEF Chained
  <2>1. i \in 2 .. Depth /\ i \in 1 .. n /\ s[i] = frames[i]
    BY <1>1, <1>2
  <2>2. IF i < Depth THEN frames[i + 1].reg = "offset" ELSE r15 = "offset"
    BY <1>2, <2>1 DEF IInv, Chained
  <2>3. CASE i < n
    BY <1>1, <1>2, <2>2, <2>3
  <2>4. CASE i = n
    BY <1>2, <2>2, <2>4
  <2> QED
    BY <1>2, <2>3, <2>4
<1>6. Blamed(s)
  <2> SUFFICES ASSUME scheme = "PARR", NEW i \in 2 .. n, s[i].reg = "foreign" PROVE ToBlame(s, i)
    BY <1>1 DEF Blamed
  <2>1. ToBlame(frames, i)
    BY <1>1, <1>2 DEF IInv, Blamed
  <2> QED
    BY <1>1, <1>2, <2>1 DEF ToBlame
<1>7. status = "run" => Ready(s) /\ (mapped = "own" => Kept(s, mirror))
  BY <1>1, <1>2 DEF IInv, Ready, Kept
<1> QED
  BY <1>1, <1>3, <1>4, <1>5, <1>6, <1>7 DEF s

\* What a new frame needs to keep the invariant.
Fitting(callers, f, slot, reg) ==
  /\ callers \in Seq(Frames) /\ Len(callers) >= 1 /\ callers[1].fn = Libc
  /\ Stacked(callers) /\ Chained(callers, Loaded(f, reg)) /\ Blamed(callers)
  /\ Ready(callers) /\ (mapped = "own" => Kept(callers, mirror))
  /\ f \in Fns /\ slot \in Words /\ reg \in Regs
  /\ Frame[f] <= slot /\ slot % 2 = 1
  /\ \A i \in 1 .. Len(callers) : slot < callers[i].slot - Frame[callers[i].fn]
  /\ scheme = "PARR" /\ Loaded(f, reg) = "foreign" =>
       \E k \in 1 .. Len(callers) :
          callers[k].fn \in Clobbers /\ \A j \in k + 1 .. Len(callers) : callers[j].fn \notin Reloads

LEMMA EnterInv ==
  ASSUME IInv, status = "run", UNCHANGED build, env' \in [depth : Nat, rsp : Words, r15 : Regs],
         NEW callers, NEW f, NEW slot, NEW ra \in Sites \cup {Null}, NEW reg,
         Fitting(callers, f, slot, reg), Enter(callers, f, slot, ra, reg)
  PROVE  IInv'
<1> DEFINE x == [fn |-> f, slot |-> slot, ra |-> ra, mem |-> ra, reg |-> Loaded(f, reg)]
           n == Len(callers)
<1>1. x \in Frames /\ Loaded(f, reg) \in Regs
  BY DEF Fitting, Frames, Loaded, Regs
<1>2. frames' = Append(callers, x)
  BY DEF Enter
<1>3. /\ frames' \in Seq(Frames) /\ Len(frames') = n + 1 /\ n \in Nat /\ n >= 1
      /\ \A i \in 1 .. n : frames'[i] = callers[i]
      /\ frames'[n + 1] = x
  BY <1>1, <1>2, AppendProperties DEF Fitting
<1>4. /\ x.fn = f /\ x.slot = slot /\ x.ra = ra /\ x.reg = Loaded(f, reg)
      /\ f \in Fns /\ slot \in Words /\ slot \in Int /\ Frame[f] <= slot /\ slot % 2 = 1
  BY ConstantFacts DEF Fitting, Words
<1> HIDE DEF x, n
<1>5. r15' = Loaded(f, reg) /\ scheme' = scheme /\ mapped' = mapped /\ thread' = thread
  BY DEF Enter, build
<1>6. \/ /\ Prolog(f) => Reaches(x.reg)
         /\ mirror' = IF Prolog(f) THEN [mirror EXCEPT ![slot] = ra] ELSE mirror
         /\ status' = "run"
      \/ /\ Prolog(f) /\ ~Reaches(x.reg)
         /\ mirror' = mirror /\ status' = "wildstore"
  BY <1>4 DEF Enter, Stored
<1>7. mirror' \in [Words -> Sites \cup {Null}]
  BY <1>4, <1>6 DEF IInv, TypeOK
<1>8. TypeOK'
  BY <1>1, <1>3, <1>5, <1>6, <1>7 DEF IInv, TypeOK, Depth, Regs
<1>9. frames'[1].fn = Libc
  BY <1>3 DEF Fitting
<1>10. Stacked(frames')
  <2> SUFFICES ASSUME NEW i \in 1 .. n + 1
               PROVE  /\ Frame[frames'[i].fn] <= frames'[i].slot /\ frames'[i].slot % 2 = 1
                      /\ \A j \in i + 1 .. n + 1 : frames'[j].slot < frames'[i].slot - Frame[frames'[i].fn]
    BY <1>3 DEF Stacked
  <2>1. CASE i = n + 1
    <3>1. frames'[i] = x
      BY <1>3, <2>1
    <3>2. \A j \in i + 1 .. n + 1 : FALSE
      BY <1>3, <2>1
    <3> QED
      BY <1>4, <3>1, <3>2
  <2>2. CASE i \in 1 .. n
    <3>1. frames'[i] = callers[i] /\ slot < callers[i].slot - Frame[callers[i].fn]
      BY <1>3, <2>2 DEF Fitting, n
    <3>2. /\ Frame[callers[i].fn] <= callers[i].slot /\ callers[i].slot % 2 = 1
          /\ \A j \in i + 1 .. n : callers[j].slot < callers[i].slot - Frame[callers[i].fn]
      BY <2>2 DEF Fitting, Stacked, n
    <3>3. \A j \in i + 1 .. n + 1 : frames'[j].slot < frames'[i].slot - Frame[frames'[i].fn]
      <4> TAKE j \in i + 1 .. n + 1
      <4>1. CASE j = n + 1
        BY <1>3, <1>4, <3>1, <4>1
      <4>2. CASE j \in i + 1 .. n
        <5>1. frames'[j] = callers[j]
          BY <1>3, <2>2, <4>2
        <5> QED
          BY <3>1, <3>2, <4>2, <5>1
      <4> QED
        BY <1>3, <4>1, <4>2
    <3> QED
      BY <3>1, <3>2, <3>3
  <2> QED
    BY <1>3, <2>1, <2>2
<1>11. Chained(frames', r15')
  <2> SUFFICES ASSUME scheme = "PARR", NEW i \in 2 .. n + 1,
                      frames'[i].fn \notin Clobbers, frames'[i].reg = "offset"
               PROVE  IF i < n + 1 THEN frames'[i + 1].reg = "offset" ELSE r15' = "offset"
    BY <1>3 DEF Chained
  <2>1. CASE i = n + 1
    BY <1>3, <1>4, <1>5, <2>1
  <2>2. CASE i \in 2 .. n
    <3>1. frames'[i] = callers[i]
      BY <1>3, <2>2
    <3>2. IF i < n THEN callers[i + 1].reg = "offset" ELSE Loaded(f, reg) = "offset"
      BY <2>2, <3>1 DEF Fitting, Chained, n
    <3> QED
      BY <1>3, <1>4, <2>2, <3>2
  <2> QED
    BY <1>3, <2>1, <2>2
<1>12. Blamed(frames')
  <2> SUFFICES ASSUME scheme = "PARR", NEW i \in 2 .. n + 1, frames'[i].reg = "foreign"
               PROVE  ToBlame(frames', i)
    BY <1>3 DEF Blamed
  <2>1. CASE i = n + 1
    <3>1. Loaded(f, reg) = "foreign" /\ f \notin Reloads
      BY <1>3, <1>4, <2>1 DEF Loaded
    <3>2. PICK k \in 1 .. n : callers[k].fn \in Clobbers /\ \A j \in k + 1 .. n : callers[j].fn \notin Reloads
      BY <3>1 DEF Fitting, n
    <3>3. frames'[k].fn \in Clobbers /\ \A j \in k + 1 .. n + 1 : frames'[j].fn \notin Reloads
      BY <1>3, <1>4, <3>1, <3>2
    <3> QED
      BY <1>3, <2>1, <3>3 DEF ToBlame
  <2>2. CASE i \in 2 .. n
    <3>1. ToBlame(callers, i)
      BY <1>3, <2>2 DEF Fitting, Blamed, n
    <3> QED
      BY <1>3, <2>2, <3>1 DEF ToBlame
  <2> QED
    BY <1>3, <2>1, <2>2
<1>13. status' = "run" => Ready(frames')
  BY <1>3, <1>4, <1>6 DEF Fitting, Ready, n
<1>14. status' = "run" /\ mapped = "own" => Kept(frames', mirror')
  <2> SUFFICES ASSUME status' = "run", mapped = "own", NEW i \in 2 .. n + 1, Prolog(frames'[i].fn)
               PROVE  mirror'[frames'[i].slot] = frames'[i].ra
    BY <1>3 DEF Kept
  <2>1. mirror' = IF Prolog(f) THEN [mirror EXCEPT ![slot] = ra] ELSE mirror
    BY <1>6
  <2>2. CASE i = n + 1
    BY <1>3, <1>4, <2>1, <2>2 DEF IInv, TypeOK
  <2>3. CASE i \in 2 .. n
    <3>1. frames'[i] = callers[i] /\ i \in 1 .. n
      BY <1>3, <2>3
    <3>2. mirror[callers[i].slot] = callers[i].ra
      BY <2>3, <3>1 DEF Fitting, Kept, n
    <3>3. slot < callers[i].slot - Frame[callers[i].fn] /\ callers[i] \in Frames
      BY <3>1 DEF Fitting, n
    <3>4. callers[i].slot # slot
      BY <1>4, <3>3, ConstantFacts DEF Frames, Words
    <3> QED
      BY <1>4, <2>1, <3>1, <3>2, <3>4 DEF IInv, TypeOK
  <2> QED
    BY <1>3, <2>2, <2>3
<1>15. Gaps'
  <2> SUFFICES ASSUME scheme = "PARR", NEW w \in Words, w % 2 = 0 PROVE mirror'[w] = Null
    BY <1>5 DEF Gaps
  <2>1. mirror[w] = Null
    BY DEF IInv, Gaps
  <2>2. w # slot
    BY <1>4
  <2> QED
    BY <1>4, <1>6, <2>1, <2>2 DEF IInv, TypeOK
<1>16. BlindBlame'
  <2>1. CASE status' = "run"
    BY <2>1 DEF BlindBlame
  <2>2. CASE status' = "wildstore"
    <3>1. Prolog(f) /\ ~Reaches(x.reg)
      BY <1>6, <2>2
    <3>2. CASE scheme = "CON"
      BY <1>5, <2>2, <3>1, <3>2 DEF Reaches, BlindBlame, IInv
    <3>3. CASE scheme = "PARR"
      <4>1. frames'[n + 1].reg = "foreign"
        BY <1>1, <1>3, <1>4, <3>1, <3>3 DEF Reaches, Regs
      <4>2. ToBlame(frames', n + 1)
        BY <1>3, <1>12, <3>3, <4>1 DEF Blamed
      <4>3. Depth' = n + 1
        BY <1>3 DEF Depth
      <4> QED
        BY <1>3, <1>5, <2>2, <3>3, <4>2, <4>3 DEF ToBlame, BlindBlame
    <3> QED
      BY <3>2, <3>3 DEF IInv, TypeOK
  <2> QED
    BY <1>6, <2>1, <2>2
<1> QED
  <2>1. Chained(frames, r15)' /\ Blamed(frames)'
    BY <1>5, <1>11, <1>12 DEF Chained, Blamed, ToBlame
  <2>2. (status = "run" => Ready(frames) /\ (mapped = "own" => Kept(frames, mirror)))'
    BY <1>5, <1>13, <1>14 DEF Ready, Kept, Prolog, Reaches
  <2>3. Stacked(frames)'
    BY <1>10 DEF Stacked
  <2>4. (mapped # "own" => scheme = "CON" /\ thread = "main")'
    BY <1>5 DEF IInv
  <2> QED
    BY <1>8, <1>9, <1>15, <1>16, <2>1, <2>2, <2>3, <2>4 DEF IInv

LEMMA InvInit == Init => IInv
<1> SUFFICES ASSUME Init PROVE IInv
  OBVIOUS
<1> DEFINE x == LibcFrame(StackWords - 1)
<1>1. x \in Frames /\ x.fn = Libc /\ x.slot = StackWords - 1
  BY ConstantFacts DEF LibcFrame, Frames, Words
<1> HIDE DEF x
<1>2. frames = <<x>> /\ frames \in Seq(Frames) /\ Len(frames) = 1 /\ frames[1] = x
  BY <1>1 DEF Init, x
<1>3. TypeOK
  BY <1>2, ConstantFacts DEF Init, TypeOK, Depth, NoEnv, Words
<1>4. Stacked(frames)
  BY <1>1, <1>2, ConstantFacts DEF Stacked
<1>5. Chained(frames, r15) /\ Blamed(frames) /\ Ready(frames) /\ Kept(frames, mirror)
  BY <1>2 DEF Chained, Blamed, Ready, Kept
<1>6. Gaps /\ BlindBlame /\ (mapped # "own" => scheme = "CON" /\ thread = "main")
  BY DEF Init, Gaps, BlindBlame
<1> QED
  BY <1>1, <1>2, <1>3, <1>4, <1>5, <1>6 DEF IInv

\* A step that only ends the run, but not by missing the mirror, keeps the invariant.
LEMMA EndInv ==
  ASSUME IInv, UNCHANGED <<build, frames, mirror, r15, env>>,
         status' \in {"trap", "escaped", "int3", "segv"}
  PROVE  IInv'
<1>1. TypeOK'
  BY DEF IInv, TypeOK, build, Depth
<1>2. Stacked(frames)' /\ Chained(frames, r15)' /\ Blamed(frames)' /\ Gaps'
  BY DEF IInv, Stacked, Chained, Blamed, ToBlame, Gaps, build
<1>3. BlindBlame'
  BY DEF BlindBlame
<1> QED
  BY <1>1, <1>2, <1>3 DEF IInv, build

\* Cutting the frames back, with r15 as the prefix needs it, keeps the invariant.
LEMMA CutInv ==
  ASSUME IInv, status = "run", UNCHANGED <<build, mirror, status>>,
         env' \in [depth : Nat, rsp : Words, r15 : Regs],
         NEW n \in 1 .. Depth, frames' = SubSeq(frames, 1, n), r15' \in Regs,
         scheme = "PARR" /\ n < Depth /\ frames[n + 1].reg = "offset" => r15' = "offset",
         n = Depth => r15' = r15
  PROVE  IInv'
<1> DEFINE s == SubSeq(frames, 1, n)
           reg == r15'
<1>1. /\ s \in Seq(Frames) /\ Len(s) = n
      /\ s[1].fn = Libc /\ Stacked(s) /\ Chained(s, reg) /\ Blamed(s)
      /\ Ready(s) /\ (mapped = "own" => Kept(s, mirror))
  <2> reg \in Regs
    OBVIOUS
  <2> HIDE DEF reg
  <2>1. (scheme = "PARR" /\ n < Depth /\ frames[n + 1].reg = "offset" => reg = "offset") /\ (n = Depth => reg = r15)
    BY DEF reg
  <2> QED
    BY <2>1, Prefix
<1>2. frames' = s /\ reg = r15'
  OBVIOUS
<1> HIDE DEF s, reg
<1>3. TypeOK'
  BY <1>1, <1>2 DEF IInv, TypeOK, build, Depth, Regs
<1>4. Stacked(frames)' /\ Chained(frames, r15)' /\ Blamed(frames)'
  BY <1>1, <1>2 DEF Stacked, Chained, Blamed, ToBlame, build
<1>5. (status = "run" => Ready(frames) /\ (mapped = "own" => Kept(frames, mirror)))'
  BY <1>1, <1>2 DEF Ready, Kept, Prolog, Reaches, build
<1>6. Gaps' /\ BlindBlame' /\ (mapped # "own" => scheme = "CON" /\ thread = "main")'
  BY DEF IInv, Gaps, BlindBlame, build
<1> QED
  BY <1>1, <1>2, <1>3, <1>4, <1>5, <1>6 DEF IInv

\* What a caller's frame says of the frame below it.
LEMMA CalleeFacts ==
  ASSUME IInv, NEW f \in Fns, Fits(f, Rsp(Depth) - 1)
  PROVE  LET slot == Rsp(Depth) - 1
         IN /\ slot \in Words /\ Frame[f] <= slot /\ slot % 2 = 1
            /\ \A i \in 1 .. Depth : slot < frames[i].slot - Frame[frames[i].fn]
<1> DEFINE slot == Rsp(Depth) - 1
<1>1. Depth \in 1 .. Depth /\ Depth \in Nat /\ Depth = Len(frames)
  BY DEF IInv, TypeOK, Depth
<1>2. /\ frames[Depth].slot \in Words /\ frames[Depth].slot \in Int
      /\ Frame[frames[Depth].fn] \in Nat /\ Frame[frames[Depth].fn] % 2 = 1
  BY <1>1, FrameFacts, ConstantFacts DEF IInv
<1>3. Frame[frames[Depth].fn] <= frames[Depth].slot /\ frames[Depth].slot % 2 = 1
  BY <1>1 DEF IInv, Stacked
<1>4. slot = frames[Depth].slot - Frame[frames[Depth].fn] - 1 /\ Frame[f] \in Nat /\ slot >= Frame[f]
  BY <1>1, <1>2, ConstantFacts DEF Rsp, Fits
<1>5. slot \in Words /\ Frame[f] <= slot
  BY <1>2, <1>3, <1>4, ConstantFacts DEF Words
<1>6. slot % 2 = 1
  BY <1>2, <1>3, <1>4
<1>7. \A i \in 1 .. Depth : slot < frames[i].slot - Frame[frames[i].fn]
  <2> TAKE i \in 1 .. Depth
  <2>1. CASE i = Depth
    BY <1>2, <1>4, <2>1
  <2>2. CASE i < Depth
    <3>1. frames[Depth].slot < frames[i].slot - Frame[frames[i].fn]
      BY <1>1, <2>2 DEF IInv, Stacked
    <3> QED
      BY <1>2, <1>4, <3>1, FrameFacts DEF IInv
  <2> QED
    BY <1>1, <2>1, <2>2
<1> QED
  BY <1>5, <1>6, <1>7

LEMMA CallInv ==
  ASSUME IInv, NEW f \in Fns, NEW ra \in Sites, Call(f, ra)
  PROVE  IInv'
<1> DEFINE slot == Rsp(Depth) - 1
           reg == CalleeR15
<1>1. status = "run" /\ Enter(frames, f, slot, ra, reg) /\ UNCHANGED build /\ env' = env
  BY DEF Call
<1>2. Depth \in 1 .. Depth /\ Depth \in Nat /\ Depth = Len(frames) /\ Top = frames[Depth]
  BY DEF IInv, TypeOK, Depth, Top
<1>3. /\ slot \in Words /\ Frame[f] <= slot /\ slot % 2 = 1
      /\ \A i \in 1 .. Depth : slot < frames[i].slot - Frame[frames[i].fn]
  BY CalleeFacts DEF Call
<1>4. reg \in Regs /\ (reg = r15 \/ Top.fn \in Clobbers)
  BY DEF CalleeR15, IInv, TypeOK, Regs
<1> HIDE DEF slot, reg
<1>5. Chained(frames, Loaded(f, reg))
  <2> SUFFICES ASSUME scheme = "PARR", NEW i \in 2 .. Depth,
                      frames[i].fn \notin Clobbers, frames[i].reg = "offset"
               PROVE  IF i < Depth THEN frames[i + 1].reg = "offset" ELSE Loaded(f, reg) = "offset"
    BY <1>2 DEF Chained
  <2>1. IF i < Depth THEN frames[i + 1].reg = "offset" ELSE r15 = "offset"
    BY <1>2 DEF IInv, Chained
  <2>2. CASE i < Depth
    BY <2>1, <2>2
  <2>3. CASE i = Depth
    BY <1>2, <1>4, <2>1, <2>3 DEF Loaded
  <2> QED
    BY <1>2, <2>2, <2>3
<1>6. ASSUME scheme = "PARR", Loaded(f, reg) = "foreign"
      PROVE  \E k \in 1 .. Depth :
                frames[k].fn \in Clobbers /\ \A j \in k + 1 .. Depth : frames[j].fn \notin Reloads
  <2>1. CASE Top.fn \in Clobbers
    BY <1>2, <2>1
  <2>2. CASE Top.fn \notin Clobbers
    <3>1. Depth >= 2
      BY <1>2, <2>2, ConstantFacts DEF IInv
    <3>2. r15 = "foreign"
      BY <1>4, <1>6, <2>2 DEF Loaded
    <3>3. frames[Depth].reg = "foreign"
      <4>1. frames[Depth].reg \in Regs
        BY <1>2, FrameFacts DEF IInv
      <4> QED
        BY <1>2, <1>6, <2>2, <3>1, <3>2, <4>1 DEF IInv, Chained, Regs
    <3>4. ToBlame(frames, Depth)
      BY <1>2, <1>6, <3>1, <3>3 DEF IInv, Blamed
    <3> QED
      BY <1>2, <3>4 DEF ToBlame
  <2> QED
    BY <2>1, <2>2
<1>7. Fitting(frames, f, slot, reg)
  BY <1>1, <1>2, <1>3, <1>4, <1>5, <1>6 DEF Fitting, IInv, TypeOK
<1> QED
  BY <1>1, <1>7, EnterInv DEF IInv, TypeOK, Regs

\* What leaving the top frame finds in r15: what the frame below relies on.
LEMMA LeavingFacts ==
  ASSUME IInv, Leaving
  PROVE  /\ Depth - 1 \in 1 .. Depth /\ Depth \in 2 .. Depth /\ Depth \in Nat
         /\ Depth = Len(frames) /\ Top = frames[Depth] /\ status = "run"
         /\ LeftR15 \in Regs /\ (scheme = "PARR" /\ Top.reg = "offset" => LeftR15 = "offset")
<1>1. Depth - 1 \in 1 .. Depth /\ Depth \in 2 .. Depth /\ Depth \in Nat /\ Depth = Len(frames) /\ Top = frames[Depth]
  BY DEF Leaving, IInv, TypeOK, Depth, Top
<1>2. Top.reg \in Regs /\ r15 \in Regs
  BY <1>1, FrameFacts DEF IInv, TypeOK, Regs
<1>3. scheme = "PARR" /\ Top.reg = "offset" /\ Top.fn \notin Clobbers => r15 = "offset"
  BY <1>1 DEF IInv, Chained
<1> QED
  BY <1>1, <1>2, <1>3 DEF LeftR15, Leaving

LEMMA ReturnInv ==
  ASSUME IInv, Return
  PROVE  IInv'
<1> USE LeavingFacts DEF Return
<1>1. UNCHANGED <<build, mirror, status>> /\ frames' = SubSeq(frames, 1, Depth - 1) /\ r15' = LeftR15
  OBVIOUS
<1>2. env' \in [depth : Nat, rsp : Words, r15 : Regs]
  BY ConstantFacts DEF KeepEnv, NoEnv, IInv, TypeOK, Regs, Words
<1>3. scheme = "PARR" => (frames[Depth - 1 + 1].reg = "offset" => r15' = "offset")
  BY <1>1
<1> QED
  BY <1>1, <1>2, <1>3, CutInv

\* The callee of a tail call takes the slot of its caller.
LEMMA TailCallInv ==
  ASSUME IInv, NEW f \in Fns, TailCall(f)
  PROVE  IInv'
<1> DEFINE n == Depth - 1
           s == SubSeq(frames, 1, n)
           slot == Top.slot
           reg == LeftR15
           after == Loaded(f, reg)
<1>1. /\ status = "run" /\ Enter(s, f, slot, Top.mem, reg) /\ UNCHANGED build
      /\ env' \in [depth : Nat, rsp : Words, r15 : Regs] /\ slot - Frame[f] >= 0
  BY ConstantFacts DEF TailCall, Leaving, KeepEnv, NoEnv, IInv, TypeOK, Regs, Words, Fits
<1>2. /\ n \in 1 .. Depth /\ n + 1 = Depth /\ Depth \in 2 .. Depth /\ Depth \in Nat
      /\ Depth = Len(frames) /\ Top = frames[Depth]
      /\ reg \in Regs /\ (scheme = "PARR" /\ Top.reg = "offset" => reg = "offset")
  BY LeavingFacts DEF TailCall
<1>3. Top \in Frames /\ Top.mem \in Sites \cup {Null} /\ slot \in Words /\ slot \in Int /\ Top.reg \in Regs
  BY <1>2, FrameFacts DEF IInv
<1>4. after \in Regs /\ (scheme = "PARR" /\ reg = "offset" => after = "offset")
  BY <1>2 DEF Loaded, Regs
<1> HIDE DEF n, reg, slot
<1>5. /\ s \in Seq(Frames) /\ Len(s) = n /\ \A i \in 1 .. n : s[i] = frames[i]
      /\ s[1].fn = Libc /\ Stacked(s) /\ Chained(s, after) /\ Blamed(s)
      /\ Ready(s) /\ (mapped = "own" => Kept(s, mirror))
  <2> HIDE DEF after
  <2> QED
    BY <1>1, <1>2, <1>4, Prefix
<1> HIDE DEF s
<1>6. slot % 2 = 1 /\ Frame[f] <= slot
  BY <1>1, <1>2, <1>3, ConstantFacts DEF IInv, Stacked, slot
<1>7. \A i \in 1 .. n : slot < s[i].slot - Frame[s[i].fn]
  <2> TAKE i \in 1 .. n
  <2>1. i \in 1 .. Depth /\ Depth \in i + 1 .. Depth /\ s[i] = frames[i]
    BY <1>2, <1>5
  <2> QED
    BY <1>2, <2>1 DEF IInv, Stacked, slot
<1>8. ASSUME scheme = "PARR", after = "foreign"
      PROVE  \E k \in 1 .. n :
                s[k].fn \in Clobbers /\ \A j \in k + 1 .. n : s[j].fn \notin Reloads
  <2>1. Top.reg = "foreign"
    BY <1>2, <1>3, <1>4, <1>8 DEF Regs
  <2>2. ToBlame(frames, Depth)
    BY <1>2, <1>8, <2>1 DEF IInv, Blamed
  <2>3. PICK k \in 1 .. n : frames[k].fn \in Clobbers /\ \A j \in k + 1 .. Depth : frames[j].fn \notin Reloads
    BY <1>2, <2>2 DEF ToBlame
  <2> QED
    BY <1>2, <1>5, <2>3
<1>9. Fitting(s, f, slot, reg)
  BY <1>1, <1>2, <1>3, <1>5, <1>6, <1>7, <1>8 DEF Fitting
<1> QED
  BY <1>1, <1>3, <1>9, EnterInv

\* An epilog that runs has r15 as its prolog had it.
LEMMA EpilogTrapInv ==
  ASSUME IInv, EpilogTrap
  PROVE  IInv'
<1>1. Leaving /\ ~Checked
  BY DEF EpilogTrap
<1>2. /\ Depth \in 2 .. Depth /\ Depth \in Nat /\ Depth = Len(frames)
      /\ Top = frames[Depth] /\ status = "run"
  BY <1>1, LeavingFacts
<1>3. Reaches(r15)
  <2>1. CASE ~Reaches(Top.reg)
    <3>1. ~Prolog(Top.fn)
      BY <1>2, <2>1 DEF IInv, Ready
    <3> QED
      BY <1>1, <3>1 DEF Checked, Epilog, Prolog
  <2>2. CASE Reaches(Top.reg) /\ scheme = "PARR"
    <3>1. CASE Top.fn \in Clobbers
      BY <1>1, <3>1, ConstantFacts DEF Checked, Epilog
    <3>2. CASE Top.fn \notin Clobbers
      BY <1>2, <2>2, <3>2 DEF Reaches, IInv, Chained
    <3> QED
      BY <3>1, <3>2
  <2>3. CASE Reaches(Top.reg) /\ scheme # "PARR"
    BY <2>3 DEF Reaches
  <2> QED
    BY <2>1, <2>2, <2>3
<1>4. status' = "trap" /\ UNCHANGED <<build, frames, mirror, r15, env>>
  BY <1>3 DEF EpilogTrap
<1> QED
  BY <1>4, EndInv

LEMMA ExitInv ==
  ASSUME IInv, Exit
  PROVE  IInv'
<1> DEFINE slot == Rsp(Depth) - 1
           x == LibcFrame(slot)
<1>1. /\ status = "run" /\ UNCHANGED <<build, mirror, r15, status>> /\ env' = NoEnv /\ frames' = <<x>>
      /\ Fits(Libc, slot)
  BY DEF Exit, Leaving
<1>2. slot \in Words /\ Frame[Libc] <= slot /\ slot % 2 = 1
  BY <1>1, CalleeFacts, ConstantFacts
<1>3. x \in Frames /\ x.fn = Libc /\ x.slot = slot
  BY <1>2, ConstantFacts DEF LibcFrame, Frames
<1> HIDE DEF x, slot
<1>4. frames' \in Seq(Frames) /\ Len(frames') = 1 /\ frames'[1] = x
  BY <1>1, <1>3
<1>5. TypeOK'
  BY <1>1, <1>4, ConstantFacts DEF IInv, TypeOK, build, Depth, NoEnv, Words
<1>6. Stacked(frames)'
  BY <1>2, <1>3, <1>4 DEF Stacked
<1>7. Chained(frames, r15)' /\ Blamed(frames)' /\ Ready(frames)' /\ Kept(frames, mirror)'
  BY <1>4 DEF Chained, Blamed, Ready, Kept
<1>8. Gaps' /\ BlindBlame' /\ (mapped # "own" => scheme = "CON" /\ thread = "main")'
  BY <1>1 DEF IInv, Gaps, BlindBlame, build
<1> QED
  BY <1>3, <1>4, <1>5, <1>6, <1>7, <1>8 DEF IInv

\* Only mem changes, of which IInv says nothing but its type.
LEMMA StrayStoreInv ==
  ASSUME IInv, NEW i \in 2 .. Depth, NEW v \in Sites, StrayStore(i, v)
  PROVE  IInv'
<1>1. frames' = [frames EXCEPT ![i].mem = v] /\ UNCHANGED <<build, mirror, r15, env, status>> /\ status = "run"
  BY DEF StrayStore
<1>2. frames \in Seq(Frames) /\ Depth = Len(frames) /\ Depth \in Nat /\ i \in 1 .. Depth
  BY DEF IInv, TypeOK, Depth
<1>3. frames' = [frames EXCEPT ![i] = [frames[i] EXCEPT !.mem = v]]
  BY <1>1
<1>4. [frames[i] EXCEPT !.mem = v] \in Frames
  <2>1. frames[i] \in Frames
    BY <1>2
  <2> QED
    BY <2>1 DEF Frames
<1>5. frames' \in Seq(Frames) /\ Len(frames') = Len(frames)
  BY <1>2, <1>3, <1>4, ExceptSeq
<1>6. \A j \in 1 .. Depth : /\ frames'[j].fn = frames[j].fn /\ frames'[j].slot = frames[j].slot
                            /\ frames'[j].ra = frames[j].ra /\ frames'[j].reg = frames[j].reg
  <2> TAKE j \in 1 .. Depth
  <2>1. frames[j] \in Frames /\ frames[i] \in Frames
    BY <1>2
  <2>2. frames'[j] = IF j = i THEN [frames[i] EXCEPT !.mem = v] ELSE frames[j]
    BY <1>2, <1>3
  <2> QED
    BY <2>1, <2>2 DEF Frames
<1>7. TypeOK'
  BY <1>1, <1>2, <1>5 DEF IInv, TypeOK, build, Depth
<1>8. frames'[1].fn = Libc
  BY <1>2, <1>6 DEF IInv
<1>9. Stacked(frames)'
  BY <1>2, <1>5, <1>6 DEF IInv, Stacked
<1>10. Chained(frames, r15)'
  BY <1>1, <1>2, <1>5, <1>6 DEF IInv, Chained, build
<1>11. Blamed(frames)'
  <2> SUFFICES ASSUME scheme = "PARR", NEW k \in 2 .. Depth, frames'[k].reg = "foreign" PROVE ToBlame(frames', k)
    BY <1>1, <1>2, <1>5 DEF Blamed, ToBlame, build
  <2>1. ToBlame(frames, k)
    BY <1>2, <1>6 DEF IInv, Blamed
  <2> QED
    BY <1>2, <1>6, <2>1 DEF ToBlame
<1>12. Ready(frames)' /\ (mapped = "own" => Kept(frames, mirror))'
  BY <1>1, <1>2, <1>5, <1>6 DEF IInv, Ready, Kept, Prolog, Reaches, build
<1>13. Gaps' /\ BlindBlame' /\ (mapped # "own" => scheme = "CON" /\ thread = "main")'
  BY <1>1 DEF IInv, Gaps, BlindBlame, build
<1> QED
  BY <1>7, <1>8, <1>9, <1>10, <1>11, <1>12, <1>13 DEF IInv

\* A shared mirror, which only CON can have, is not claimed to hold anything.
LEMMA IntrudeInv ==
  ASSUME IInv, NEW i \in 2 .. Depth, NEW v \in Sites, Intrude(i, v)
  PROVE  IInv'
<1>1. /\ status = "run" /\ mapped = "shared" /\ mirror' = [mirror EXCEPT ![frames[i].slot] = v]
      /\ UNCHANGED <<build, frames, r15, env, status>>
  BY DEF Intrude
<1>2. TypeOK'
  BY <1>1 DEF IInv, TypeOK, build, Depth
<1>3. Stacked(frames)' /\ Chained(frames, r15)' /\ Blamed(frames)' /\ Ready(frames)'
  BY <1>1 DEF IInv, Stacked, Chained, Blamed, ToBlame, Ready, Prolog, Reaches, build
<1>4. Gaps' /\ BlindBlame'
  BY <1>1 DEF IInv, TypeOK, Gaps, BlindBlame, build
<1> QED
  BY <1>1, <1>2, <1>3, <1>4 DEF IInv, build

LEMMA SetJmpInv ==
  ASSUME IInv, SetJmp
  PROVE  IInv'
<1>1. /\ UNCHANGED <<build, frames, mirror, r15, status>> /\ status = "run"
      /\ env' = [depth |-> Depth, rsp |-> Rsp(Depth), r15 |-> r15]
  BY DEF SetJmp
<1>2. Depth \in Nat /\ Depth \in 1 .. Depth
  BY DEF IInv, TypeOK, Depth
<1>3. Rsp(Depth) \in Words
  <2>1. frames[Depth].slot \in Words /\ Frame[frames[Depth].fn] \in Nat
    BY <1>2, FrameFacts DEF IInv
  <2>2. Frame[frames[Depth].fn] <= frames[Depth].slot
    BY <1>2 DEF IInv, Stacked, Depth
  <2> QED
    BY <2>1, <2>2, ConstantFacts DEF Rsp, Words
<1>4. TypeOK'
  BY <1>1, <1>2, <1>3 DEF IInv, TypeOK, build, Depth
<1>5. Stacked(frames)' /\ Chained(frames, r15)' /\ Blamed(frames)' /\ Gaps'
  BY <1>1 DEF IInv, Stacked, Chained, Blamed, ToBlame, Gaps, build
<1>6. BlindBlame'
  BY <1>1 DEF BlindBlame
<1>7. (status = "run" => Ready(frames) /\ (mapped = "own" => Kept(frames, mirror)))'
  BY <1>1 DEF IInv, Ready, Kept, Prolog, Reaches, build
<1> QED
  BY <1>1, <1>4, <1>5, <1>6, <1>7 DEF IInv, build

\* The words a walk looks at first are even, and zero.
LEMMA WalkEnds ==
  ASSUME IInv, NEW start \in {0, 2}
  PROVE  Walk(start) \subseteq {"int3", "segv"}
<1> SUFFICES ASSUME scheme = "PARR", NEW w \in Reached(start) PROVE mirror[w] = Null
  BY DEF Walk, IInv, TypeOK
<1>1. w \in start .. StackWords - 2 /\ (w - start) % 2 = 0
  BY DEF Reached, Seen
<1>2. w \in Words /\ w % 2 = 0
  BY <1>1, ConstantFacts DEF Words
<1> QED
  BY <1>2 DEF IInv, Gaps

LEMMA JumpInv ==
  ASSUME IInv, LongJmp \/ \E i \in 2 .. Depth : Unwind(i)
  PROVE  IInv' /\ frames' = frames
<1>1. CASE LongJmp
  <2>1. status' \in {"int3", "segv"}
    BY <1>1, WalkEnds DEF LongJmp
  <2>2. UNCHANGED <<build, frames, mirror, r15, env>>
    BY <1>1, <2>1 DEF LongJmp
  <2> QED
    BY <2>1, <2>2, EndInv
<1>2. ASSUME NEW i \in 2 .. Depth, Unwind(i) PROVE IInv' /\ frames' = frames
  <2>1. status' \in {"int3", "segv"}
    BY <1>2, WalkEnds DEF Unwind
  <2>2. UNCHANGED <<build, frames, mirror, r15, env>>
    BY <1>2, <2>1 DEF Unwind
  <2> QED
    BY <2>1, <2>2, EndInv
<1> QED
  BY <1>1, <1>2

LEMMA InvNext == IInv /\ [Next]_vars => IInv'
<1> SUFFICES ASSUME IInv, [Next]_vars PROVE IInv'
  OBVIOUS
<1>1. ASSUME NEW f \in Fns, NEW ra \in Sites, Call(f, ra) PROVE IInv'
  BY <1>1, CallInv
<1>2. CASE Return
  BY <1>2, ReturnInv
<1>3. ASSUME NEW f \in Fns, TailCall(f) PROVE IInv'
  BY <1>3, TailCallInv
<1>4. CASE Escape
  BY <1>4, EndInv DEF Escape
<1>5. CASE EpilogTrap
  BY <1>5, EpilogTrapInv
<1>6. CASE Exit
  BY <1>6, ExitInv
<1>7. ASSUME NEW i \in 2 .. Depth, NEW v \in Sites, StrayStore(i, v) PROVE IInv'
  BY <1>7, StrayStoreInv
<1>8. ASSUME NEW i \in 2 .. Depth, NEW v \in Sites, Intrude(i, v) PROVE IInv'
  BY <1>8, IntrudeInv
<1>9. CASE SetJmp
  BY <1>9, SetJmpInv
<1>10. CASE LongJmp \/ \E i \in 2 .. Depth : Unwind(i)
  BY <1>10, JumpInv
<1>11. CASE UNCHANGED vars
  BY <1>11 DEF vars, IInv, TypeOK, Depth, Stacked, Chained, Blamed, ToBlame, Ready, Kept,
               Prolog, Reaches, Gaps, BlindBlame
<1> QED
  BY <1>1, <1>2, <1>3, <1>4, <1>5, <1>6, <1>7, <1>8, <1>9, <1>10, <1>11 DEF Next

LEMMA Invariance == Spec => []IInv
BY InvInit, InvNext, PTL DEF Spec

\* The mirror of every live instrumented frame holds its return address, in every
\* program and every stack that fits it.
THEOREM MirrorSyncHolds == Spec => []MirrorSync
<1>1. IInv => MirrorSync
  BY DEF IInv, MirrorSync, Kept, Depth
<1> QED
  BY <1>1, Invariance, PTL

\* The only reasons for which a prolog misses its mirror; an epilog never does.
THEOREM BlindBlameHolds == Spec => []BlindBlame
<1>1. IInv => BlindBlame
  BY DEF IInv
<1> QED
  BY <1>1, Invariance, PTL

\* No longjmp and no exception gets anywhere.
THEOREM NoFrameSkippedHolds == Spec => NoFrameSkipped
<1> DEFINE OneByOne == Depth' >= Depth - 1 \/ frames'[Depth'].fn = Libc
<1>1. ASSUME IInv, [Next]_vars PROVE [OneByOne]_vars
  <2>1. Depth \in Nat /\ frames \in Seq(Frames) /\ Depth = Len(frames)
    BY <1>1 DEF IInv, TypeOK, Depth
  <2>2. ASSUME NEW f \in Fns, NEW ra \in Sites, Call(f, ra) PROVE OneByOne
    <3> DEFINE x == [fn |-> f, slot |-> Rsp(Depth) - 1, ra |-> ra, mem |-> ra, reg |-> Loaded(f, CalleeR15)]
    <3>1. frames' = Append(frames, x)
      BY <2>2 DEF Call, Enter
    <3> HIDE DEF x
    <3>2. Len(frames') = Len(frames) + 1
      BY <2>1, <3>1
    <3> QED
      BY <2>1, <3>2 DEF Depth
  <2>3. CASE Return \/ \E f \in Fns : TailCall(f)
    <3> DEFINE s == SubSeq(frames, 1, Depth - 1)
    <3>1. Leaving
      BY <2>3 DEF Return, TailCall
    <3>2. Depth - 1 \in 1 .. Depth /\ Len(s) = Depth - 1
      BY <1>1, <2>1, <3>1, LeavingFacts, SubSeqProperties
    <3>3. frames' = s \/ \E x : frames' = Append(s, x)
      BY <2>3 DEF Return, TailCall, Enter
    <3> HIDE DEF s
    <3>4. \A x : Len(Append(s, x)) = Len(s) + 1
      OBVIOUS
    <3>5. Len(frames') = Depth - 1 \/ Len(frames') = Depth
      BY <2>1, <3>2, <3>3, <3>4
    <3> QED
      BY <2>1, <3>5 DEF Depth
  <2>4. CASE Exit
    BY <2>4 DEF Exit, LibcFrame, Depth
  <2>5. CASE LongJmp \/ \E i \in 2 .. Depth : Unwind(i)
    BY <1>1, <2>1, <2>5, JumpInv DEF Depth
  <2>6. ASSUME NEW i \in 2 .. Depth, NEW v \in Sites, StrayStore(i, v) PROVE OneByOne
    <3>1. Len(frames') = Len(frames)
      BY <2>1, <2>6 DEF StrayStore
    <3> QED
      BY <2>1, <3>1 DEF Depth
  <2>7. CASE frames' = frames
    BY <2>1, <2>7 DEF Depth
  <2> QED
    BY <1>1, <2>2, <2>3, <2>4, <2>5, <2>6, <2>7 DEF Next, Escape, EpilogTrap, Intrude, SetJmp, vars
<1> QED
  BY <1>1, Invariance, PTL DEF Spec, NoFrameSkipped
-----------------------------------------------------------------------------
(* Refinement: each step is a step of ReturnGuard, or stutters. *)

ActSet == [guarded : BOOLEAN, ra : Sites \cup {Null}, mem : Sites \cup {Null}]

\* The activations of a sequence of frames.
LEMMA ActsFacts ==
  ASSUME NEW fs \in Seq(Frames), Len(fs) >= 1
  PROVE  /\ ActsOf(fs) \in Seq(ActSet) /\ Len(ActsOf(fs)) = Len(fs) - 1 /\ Len(fs) - 1 \in Nat
         /\ \A i \in 1 .. Len(fs) - 1 : ActsOf(fs)[i] = ActOf(fs[i + 1])
<1>1. Len(fs) - 1 \in Nat
  OBVIOUS
<1>2. \A x \in Frames : ActOf(x) \in ActSet
  BY DEF ActOf, ActSet, Frames, Epilog
<1>3. \A i \in 1 .. Len(fs) - 1 : fs[i + 1] \in Frames
  BY <1>1
<1> QED
  BY <1>1, <1>2, <1>3 DEF ActsOf

\* Discarding frames discards their activations.
LEMMA CutActs ==
  ASSUME NEW fs \in Seq(Frames), NEW n \in 1 .. Len(fs)
  PROVE  ActsOf(SubSeq(fs, 1, n)) = SubSeq(ActsOf(fs), 1, n - 1)
<1> DEFINE gs == SubSeq(fs, 1, n)
           s == ActsOf(gs)
           t == SubSeq(ActsOf(fs), 1, n - 1)
<1>1. gs \in Seq(Frames) /\ Len(gs) = n /\ \A i \in 1 .. n : gs[i] = fs[i]
  BY SubSeqProperties
<1>2. /\ ActsOf(fs) \in Seq(ActSet) /\ Len(ActsOf(fs)) = Len(fs) - 1 /\ n \in Nat
      /\ \A i \in 1 .. Len(fs) - 1 : ActsOf(fs)[i] = ActOf(fs[i + 1])
  BY ActsFacts
<1>3. /\ s \in Seq(ActSet) /\ Len(s) = n - 1
      /\ \A i \in 1 .. n - 1 : s[i] = ActOf(gs[i + 1])
  <2>1. gs \in Seq(Frames) /\ Len(gs) = n /\ Len(gs) >= 1
    BY <1>1, <1>2
  <2> HIDE DEF gs
  <2>2. /\ ActsOf(gs) \in Seq(ActSet) /\ Len(ActsOf(gs)) = Len(gs) - 1
        /\ \A i \in 1 .. Len(gs) - 1 : ActsOf(gs)[i] = ActOf(gs[i + 1])
    BY <2>1, ActsFacts
  <2> QED
    BY <2>1, <2>2
<1>4. /\ t \in Seq(ActSet) /\ Len(t) = n - 1
      /\ \A i \in 1 .. n - 1 : t[i] = ActsOf(fs)[i]
  <2> DEFINE u == ActsOf(fs)
             m == n - 1
  <2>1. u \in Seq(ActSet) /\ m \in 0 .. Len(u)
    BY <1>2
  <2> HIDE DEF u
  <2>2. SubSeq(u, 1, m) \in Seq(ActSet) /\ Len(SubSeq(u, 1, m)) = m
        /\ \A i \in 1 .. m : SubSeq(u, 1, m)[i] = u[i]
    BY <2>1, SubSeqProperties
  <2> QED
    BY <2>2 DEF u
<1> HIDE DEF gs, s, t
<1>5. ASSUME NEW i \in 1 .. n - 1 PROVE s[i] = t[i]
  <2>1. i \in 1 .. Len(fs) - 1 /\ i + 1 \in 1 .. n
    BY <1>2
  <2> QED
    BY <2>1, <1>1, <1>2, <1>3, <1>4
<1>6. s = t
  BY <1>3, <1>4, <1>5, SeqEqual
<1> QED
  BY <1>6 DEF s, t, gs

\* A new frame is a new activation.
LEMMA PushActs ==
  ASSUME NEW fs \in Seq(Frames), Len(fs) >= 1, NEW r \in Frames
  PROVE  ActsOf(Append(fs, r)) = Append(ActsOf(fs), ActOf(r))
<1> DEFINE gs == Append(fs, r)
           s == ActsOf(gs)
           u == ActsOf(fs)
           t == Append(u, ActOf(r))
           n == Len(fs)
<1>1. /\ gs \in Seq(Frames) /\ Len(gs) = n + 1 /\ gs[n + 1] = r
      /\ \A i \in 1 .. n : gs[i] = fs[i]
  BY AppendProperties
<1>2. /\ u \in Seq(ActSet) /\ Len(u) = n - 1 /\ n \in Nat /\ n >= 1
      /\ \A i \in 1 .. n - 1 : u[i] = ActOf(fs[i + 1])
  BY ActsFacts
<1>3. /\ s \in Seq(ActSet) /\ Len(s) = n
      /\ \A i \in 1 .. n : s[i] = ActOf(gs[i + 1])
  <2>1. gs \in Seq(Frames) /\ Len(gs) >= 1 /\ Len(gs) - 1 = n
    BY <1>1, <1>2
  <2> HIDE DEF gs
  <2>2. /\ ActsOf(gs) \in Seq(ActSet) /\ Len(ActsOf(gs)) = Len(gs) - 1
        /\ \A i \in 1 .. Len(gs) - 1 : ActsOf(gs)[i] = ActOf(gs[i + 1])
    BY <2>1, ActsFacts
  <2> QED
    BY <2>1, <2>2
<1>4. ActOf(r) \in ActSet
  BY DEF ActOf, ActSet, Frames, Epilog
<1>5. /\ t \in Seq(ActSet) /\ Len(t) = n /\ t[n] = ActOf(r)
      /\ \A i \in 1 .. n - 1 : t[i] = u[i]
  <2> HIDE DEF u
  <2> QED
    BY <1>2, <1>4, AppendProperties
<1> HIDE DEF gs, s, t, u
<1>6. ASSUME NEW i \in 1 .. n PROVE s[i] = t[i]
  <2>1. CASE i = n
    BY <2>1, <1>1, <1>2, <1>3, <1>5
  <2>2. CASE i # n
    <3>1. i \in 1 .. n - 1 /\ i + 1 \in 1 .. n
      BY <2>2, <1>2
    <3> QED
      BY <3>1, <1>1, <1>2, <1>3, <1>5
  <2> QED
    BY <2>1, <2>2
<1>7. s = t
  BY <1>3, <1>5, <1>6, SeqEqual
<1> QED
  BY <1>7 DEF s, t, gs, u

\* The running function's activation is the newest.
LEMMA NewestFacts ==
  ASSUME TypeOK, Depth >= 2
  PROVE  /\ Activations # << >> /\ Guard!Newest = ActOf(Top) /\ Len(Activations) = Depth - 1
         /\ Activations[Len(Activations)] = ActOf(Top)
         /\ Guard!Intact(Guard!Newest) <=> Top.mem = Top.ra
         /\ Guard!Newest.guarded = (mapped = "own" /\ Epilog(Top.fn))
<1>1. /\ Activations \in Seq(ActSet) /\ Len(Activations) = Depth - 1 /\ Depth \in Nat
      /\ \A i \in 1 .. Depth - 1 : Activations[i] = ActOf(frames[i + 1])
  BY ActsFacts DEF TypeOK, Depth, Activations
<1>2. Depth - 1 \in 1 .. Depth - 1 /\ (Depth - 1) + 1 = Depth
  BY <1>1
<1>3. Activations[Depth - 1] = ActOf(Top)
  BY <1>1, <1>2 DEF Top
<1>4. Guard!Newest = ActOf(Top)
  BY <1>1, <1>3 DEF Guard!Newest
<1>5. Activations # << >>
  BY <1>1, <1>2
<1> QED
  BY <1>1, <1>3, <1>4, <1>5 DEF Guard!Intact, ActOf

LEMMA GuardInitHolds == Init => Guard!GuardInit
<1> SUFFICES ASSUME Init PROVE Guard!GuardInit
  OBVIOUS
<1>1. frames \in Seq(Frames) /\ Len(frames) = 1
  BY InvInit DEF Init, IInv, TypeOK
<1>2. Len(Activations) = 0 /\ Activations \in Seq(ActSet)
  BY <1>1, ActsFacts DEF Activations
<1>3. Activations = << >>
  <2>1. \A t \in Seq(ActSet) : t # << >> => Len(t) \in Nat \ {0}
    BY EmptySeq, Zenon
  <2> QED
    BY <1>2, <2>1
<1>4. Outcome = "run"
  BY DEF Init, Outcome
<1> QED
  BY <1>3, <1>4 DEF Guard!GuardInit

\* Which activations are guarded is settled when the program is built.
LEMMA BuildActs == ASSUME UNCHANGED build PROVE Activations' = ActsOf(frames')
BY DEF Activations, ActsOf, ActOf, Epilog, build

\* A call is a Push.
LEMMA GuardCall ==
  ASSUME IInv, NEW f \in Fns, NEW ra \in Sites, Call(f, ra)
  PROVE  Guard!GuardNext
<1> DEFINE slot == Rsp(Depth) - 1
           r == [fn |-> f, slot |-> slot, ra |-> ra, mem |-> ra, reg |-> Loaded(f, CalleeR15)]
           g == mapped = "own" /\ Epilog(f)
<1>1. /\ status = "run" /\ Enter(frames, f, slot, ra, CalleeR15) /\ Fits(f, slot)
      /\ UNCHANGED build
  BY DEF Call
<1>2. frames \in Seq(Frames) /\ Len(frames) >= 1
  BY DEF IInv, TypeOK, Depth
<1>3. r \in Frames
  <2>1. slot \in Words
    BY <1>1, CalleeFacts
  <2>2. Loaded(f, CalleeR15) \in Regs
    BY DEF Loaded, CalleeR15, IInv, TypeOK, Regs
  <2> QED
    BY <2>1, <2>2 DEF Frames, Regs
<1>4. frames' = Append(frames, r) /\ status' \in {"run", "wildstore"}
  BY <1>1 DEF Enter
<1>5. ActOf(r) = Guard!Fresh(g, ra)
  BY DEF ActOf, Guard!Fresh
<1>6. g \in BOOLEAN
  OBVIOUS
<1> HIDE DEF r, g
<1>7. Activations' = Append(Activations, ActOf(r))
  BY <1>1, <1>2, <1>3, <1>4, BuildActs, PushActs DEF Activations
<1>8. Outcome = "run" /\ Outcome' \in {"run", "stuck"}
  BY <1>1, <1>4 DEF Outcome
<1> QED
  BY <1>5, <1>6, <1>7, <1>8 DEF Guard!GuardNext, Guard!Push

\* A return is a Pop.
LEMMA GuardReturn == ASSUME IInv, Return PROVE Guard!GuardNext
<1>1. /\ status = "run" /\ status' = "run" /\ Depth >= 2 /\ Depth \in Nat /\ Top.mem = Top.ra
      /\ frames' = SubSeq(frames, 1, Depth - 1) /\ UNCHANGED build
  BY LeavingFacts DEF Return
<1>2. frames \in Seq(Frames) /\ Depth - 1 \in 1 .. Len(frames) /\ Len(frames) = Depth
  BY <1>1 DEF IInv, TypeOK, Depth
<1>3. Activations' = SubSeq(Activations, 1, (Depth - 1) - 1)
  BY <1>1, <1>2, BuildActs, CutActs DEF Activations
<1>4. /\ Activations # << >> /\ Guard!Intact(Guard!Newest)
      /\ Len(Activations) = Depth - 1
  BY <1>1, NewestFacts DEF IInv
<1>5. Outcome = "run" /\ Outcome' = "run"
  BY <1>1 DEF Outcome
<1> QED
  BY <1>3, <1>4, <1>5 DEF Guard!GuardNext, Guard!Pop

\* A tail call leaves one activation and enters the other on the same slot.
LEMMA GuardTailCall ==
  ASSUME IInv, NEW f \in Fns, TailCall(f)
  PROVE  Guard!GuardNext
<1> DEFINE n == Depth - 1
           gs == SubSeq(frames, 1, n)
           r == [fn |-> f, slot |-> Top.slot, ra |-> Top.mem, mem |-> Top.mem, reg |-> Loaded(f, LeftR15)]
           u == Activations
           g == mapped = "own" /\ Epilog(f)
           v == [u EXCEPT ![Len(u)].guarded = g]
<1>1. /\ status = "run" /\ Depth >= 2 /\ Depth \in Nat /\ Top.mem = Top.ra
      /\ Enter(gs, f, Top.slot, Top.mem, LeftR15) /\ UNCHANGED build
  BY LeavingFacts DEF TailCall
<1>2. /\ frames \in Seq(Frames) /\ n \in 1 .. Len(frames) /\ Len(frames) = Depth
      /\ gs \in Seq(Frames) /\ Len(gs) = n /\ n >= 1 /\ n \in Nat
  BY <1>1, SubSeqProperties DEF IInv, TypeOK, Depth
<1>3. frames' = Append(gs, r) /\ status' \in {"run", "wildstore"}
  BY <1>1 DEF Enter
<1>4. /\ u # << >> /\ Guard!Intact(Guard!Newest) /\ Len(u) = n
      /\ u[n] = ActOf(Top)
  BY <1>1, NewestFacts DEF IInv
<1>5. u \in Seq(ActSet)
  BY <1>2, ActsFacts DEF Activations
<1>6. r \in Frames
  <2>1. Top.slot \in Words /\ Top.mem \in Sites \cup {Null}
    BY <1>1, FrameFacts DEF Top, IInv
  <2>2. Loaded(f, LeftR15) \in Regs
    BY LeavingFacts DEF Loaded, Regs, TailCall
  <2> QED
    BY <2>1, <2>2 DEF Frames, Regs
<1>7. ActOf(r) = [u[n] EXCEPT !.guarded = g]
  BY <1>1, <1>4 DEF ActOf
<1>8. g \in BOOLEAN
  OBVIOUS
<1>9. Activations' = Append(SubSeq(u, 1, n - 1), ActOf(r))
  <2> HIDE DEF r
  <2>1. ActsOf(gs) = SubSeq(u, 1, n - 1)
    BY <1>2, CutActs DEF Activations
  <2> HIDE DEF gs
  <2>2. ActsOf(Append(gs, r)) = Append(ActsOf(gs), ActOf(r))
    BY <1>2, <1>6, PushActs
  <2> QED
    BY <1>1, <1>3, <2>1, <2>2, BuildActs
<1> HIDE DEF n, gs, r, u, g
<1>10. ActOf(r) \in ActSet
  BY <1>6 DEF ActOf, ActSet, Frames, Epilog
<1>11. Append(SubSeq(u, 1, n - 1), ActOf(r)) = [u EXCEPT ![n] = ActOf(r)]
  <2> DEFINE s == SubSeq(u, 1, n - 1)
             t == Append(s, ActOf(r))
             w == [u EXCEPT ![n] = ActOf(r)]
  <2>1. n - 1 \in 0 .. Len(u) /\ 1 \in 1 .. Len(u) + 1
    BY <1>2, <1>4
  <2>2. s \in Seq(ActSet) /\ Len(s) = n - 1 /\ \A i \in 1 .. n - 1 : s[i] = u[i]
    <3> DEFINE m == n - 1
    <3>1. m \in 0 .. Len(u)
      BY <2>1
    <3> HIDE DEF m
    <3>2. /\ SubSeq(u, 1, m) \in Seq(ActSet) /\ Len(SubSeq(u, 1, m)) = m
          /\ \A i \in 1 .. m : SubSeq(u, 1, m)[i] = u[i]
      BY <1>5, <3>1, SubSeqProperties
    <3> QED
      BY <3>2 DEF m
  <2> HIDE DEF s
  <2>3. /\ t \in Seq(ActSet) /\ Len(t) = n /\ t[n] = ActOf(r)
        /\ \A i \in 1 .. n - 1 : t[i] = s[i]
    BY <1>2, <1>10, <2>2, AppendProperties
  <2>4. /\ w \in Seq(ActSet) /\ Len(w) = n /\ w[n] = ActOf(r)
        /\ \A i \in 1 .. n - 1 : w[i] = u[i]
    BY <1>2, <1>4, <1>5, <1>10
  <2> HIDE DEF t, w
  <2>5. ASSUME NEW i \in 1 .. n PROVE t[i] = w[i]
    <3>1. i = n \/ i \in 1 .. n - 1
      BY <1>2
    <3> QED
      BY <3>1, <2>2, <2>3, <2>4
  <2>6. t = w
    BY <2>3, <2>4, <2>5, SeqEqual
  <2> QED
    BY <2>6 DEF t, w, s
<1>12. Activations' = [u EXCEPT ![Len(u)].guarded = g]
  BY <1>4, <1>7, <1>9, <1>11
<1>13. Outcome = "run" /\ Outcome' \in {"run", "stuck"}
  BY <1>1, <1>3 DEF Outcome
<1> QED
  BY <1>4, <1>8, <1>12, <1>13 DEF Guard!GuardNext, Guard!Pop, u

\* A store to a live return address is an Overwrite.
LEMMA GuardStrayStore ==
  ASSUME IInv, NEW i \in 2 .. Depth, NEW v \in Sites, StrayStore(i, v)
  PROVE  Guard!GuardNext
<1> DEFINE r == [frames[i] EXCEPT !.mem = v]
           j == i - 1
           u == Activations
           w == [u EXCEPT ![j].mem = v]
           gs == [frames EXCEPT ![i] = r]
           n == Depth
<1>1. frames \in Seq(Frames) /\ n = Len(frames) /\ n \in Nat /\ i \in 2 .. n /\ n >= 1
  BY DEF IInv, TypeOK, Depth
<1>2. frames[i] \in Frames /\ r \in Frames
  <2>1. frames[i] \in Frames
    BY <1>1
  <2> QED
    BY <2>1 DEF Frames
<1>3. frames' = gs /\ status = "run" /\ status' = "run" /\ UNCHANGED build
  BY DEF StrayStore
<1>4. ActOf(r) = [ActOf(frames[i]) EXCEPT !.mem = v]
  BY <1>2 DEF ActOf, Frames
<1> HIDE DEF r
<1>5. gs \in Seq(Frames) /\ Len(gs) = n /\ gs[i] = r /\ \A k \in 1 .. n : k # i => gs[k] = frames[k]
  BY <1>1, <1>2
<1>6. u \in Seq(ActSet) /\ Len(u) = n - 1 /\ \A k \in 1 .. n - 1 : u[k] = ActOf(frames[k + 1])
  BY <1>1, ActsFacts DEF Activations
<1>7. /\ ActsOf(gs) \in Seq(ActSet) /\ Len(ActsOf(gs)) = n - 1
      /\ \A k \in 1 .. n - 1 : ActsOf(gs)[k] = ActOf(gs[k + 1])
  <2> HIDE DEF gs
  <2>1. gs \in Seq(Frames) /\ Len(gs) >= 1 /\ Len(gs) = n
    BY <1>1, <1>5
  <2>2. /\ ActsOf(gs) \in Seq(ActSet) /\ Len(ActsOf(gs)) = Len(gs) - 1
        /\ \A k \in 1 .. Len(gs) - 1 : ActsOf(gs)[k] = ActOf(gs[k + 1])
    BY <2>1, ActsFacts
  <2> QED
    BY <2>1, <2>2
<1>8. ActOf(r) \in ActSet
  BY <1>2 DEF ActOf, ActSet, Frames, Epilog
<1>9. j \in 1 .. n - 1 /\ j + 1 = i
  BY <1>1
<1> HIDE DEF gs, u, j, n
<1>10. u[j] = ActOf(frames[i])
  BY <1>6, <1>9
<1>11. w = [u EXCEPT ![j] = ActOf(r)]
  BY <1>4, <1>10
<1>12. w \in Seq(ActSet) /\ Len(w) = n - 1 /\ w[j] = ActOf(r)
       /\ \A k \in 1 .. n - 1 : k # j => w[k] = u[k]
  <2> DEFINE a == ActOf(r)
  <2>1. a \in ActSet /\ w = [u EXCEPT ![j] = a]
    BY <1>8, <1>11
  <2> HIDE DEF a, w
  <2>2. w \in Seq(ActSet) /\ Len(w) = n - 1 /\ w[j] = a /\ \A k \in 1 .. n - 1 : k # j => w[k] = u[k]
    BY <2>1, <1>1, <1>6, <1>9
  <2> QED
    BY <2>2 DEF a
<1> HIDE DEF w
<1>13. ASSUME NEW k \in 1 .. n - 1 PROVE ActsOf(gs)[k] = w[k]
  <2>1. k + 1 \in 1 .. n /\ (k # j => k + 1 # i)
    BY <1>1, <1>9
  <2>2. CASE k = j
    BY <2>2, <1>5, <1>7, <1>9, <1>12
  <2>3. CASE k # j
    BY <2>1, <2>3, <1>5, <1>6, <1>7, <1>12
  <2> QED
    BY <2>2, <2>3
<1>14. ActsOf(gs) = w
  BY <1>7, <1>12, <1>13, SeqEqual
<1>15. Activations' = [Activations EXCEPT ![j].mem = v] /\ j \in 1 .. Len(Activations)
  BY <1>3, <1>6, <1>9, <1>14, BuildActs DEF u, w
<1>16. Outcome = "run" /\ Outcome' = Outcome
  BY <1>3 DEF Outcome, build
<1> QED
  BY <1>15, <1>16 DEF Guard!GuardNext, Guard!Overwrite

\* Steps that leave the frames alone and end the run.
LEMMA GuardEnd ==
  ASSUME IInv, IInv', frames' = frames, UNCHANGED build, status = "run",
         \/ Escape
         \/ EpilogTrap
         \/ status' \in {"int3", "segv"}
  PROVE  Guard!GuardNext
<1>1. Activations' = Activations /\ Outcome = "run"
  BY BuildActs DEF Activations, Outcome
<1>2. ASSUME Leaving, mapped = "own", Epilog(Top.fn)
      PROVE  mirror[Top.slot] = Top.ra
  BY <1>2, LeavingFacts DEF IInv, Kept, Epilog, Prolog
<1>3. CASE Escape
  <2>1. Leaving /\ Checked /\ status' = "escaped" /\ Top.mem # Top.ra
    BY <1>3 DEF Escape
  <2>2. ~(mapped = "own" /\ Epilog(Top.fn))
    BY <1>2, <2>1 DEF Checked
  <2>3. Depth >= 2 /\ TypeOK /\ Outcome' = "diverted"
    BY <2>1, LeavingFacts DEF IInv, Outcome
  <2> QED
    BY <1>1, <2>1, <2>2, <2>3, NewestFacts DEF Guard!GuardNext, Guard!Divert
<1>4. CASE EpilogTrap /\ status' = "trap" /\ mapped = "own"
  <2>1. Leaving /\ ~Checked /\ Reaches(r15)
    BY <1>4 DEF EpilogTrap
  <2>2. Epilog(Top.fn) /\ Top.mem # Top.ra
    BY <1>2, <1>4, <2>1 DEF Checked
  <2>3. Depth >= 2 /\ TypeOK /\ Outcome' = "stopped"
    BY <1>4, <2>1, LeavingFacts DEF IInv, Outcome, build
  <2> QED
    BY <1>1, <1>4, <2>2, <2>3, NewestFacts DEF Guard!GuardNext, Guard!Stop
<1>5. CASE \/ status' \in {"int3", "segv"}
           \/ EpilogTrap /\ ~(status' = "trap" /\ mapped = "own")
  <2>1. Outcome' = "stuck"
    BY <1>5 DEF Outcome, EpilogTrap, build
  <2> QED
    BY <1>1, <2>1 DEF Guard!GuardNext, Guard!Halt
<1> QED
  BY <1>3, <1>4, <1>5

\* exit() discards every activation.
LEMMA GuardExit == ASSUME IInv, Exit PROVE Guard!GuardNext
<1> DEFINE c == LibcFrame(Rsp(Depth) - 1)
<1>1. frames' = <<c>> /\ status = "run" /\ status' = "run" /\ UNCHANGED build
  BY DEF Exit, Leaving
<1> HIDE DEF c
<1>2. ActsOf(<<c>>) = << >>
  BY DEF ActsOf
<1>3. Activations' = << >>
  BY <1>1, <1>2, BuildActs
<1>4. Activations \in Seq(ActSet) /\ Len(Activations) \in Nat
  BY ActsFacts DEF Activations, IInv, TypeOK, Depth
<1>5. SubSeq(Activations, 1, 0) = << >> /\ 0 \in 0 .. Len(Activations)
  BY <1>4
<1>6. Outcome = "run" /\ Outcome' = Outcome
  BY <1>1 DEF Outcome
<1> QED
  BY <1>3, <1>5, <1>6 DEF Guard!GuardNext, Guard!Discard

LEMMA GuardStep == IInv /\ [Next]_vars => [Guard!GuardNext]_<<Activations, Outcome>>
<1> SUFFICES ASSUME IInv, [Next]_vars PROVE [Guard!GuardNext]_<<Activations, Outcome>>
  OBVIOUS
<1>1. IInv'
  BY InvNext
<1>2. CASE Return \/ Exit
  BY <1>2, GuardReturn, GuardExit
<1>3. CASE Escape \/ EpilogTrap
  BY <1>1, <1>3, GuardEnd DEF Escape, EpilogTrap, Leaving
<1>4. CASE SetJmp \/ (\E i \in 2 .. Depth, v \in Sites : Intrude(i, v)) \/ UNCHANGED vars
  <2>1. UNCHANGED <<build, frames, status>>
    BY <1>4 DEF SetJmp, Intrude, vars, build
  <2>2. Activations' = Activations
    BY <2>1, BuildActs DEF Activations
  <2>3. Outcome' = Outcome
    BY <2>1 DEF Outcome, build
  <2> QED
    BY <2>2, <2>3
<1>5. CASE LongJmp \/ \E i \in 2 .. Depth : Unwind(i)
  <2>1. status = "run" /\ status' \in {"int3", "segv"} /\ UNCHANGED build
    BY <1>5, WalkEnds DEF LongJmp, Unwind
  <2> QED
    BY <1>1, <1>5, <2>1, JumpInv, GuardEnd
<1> QED
  BY <1>2, <1>3, <1>4, <1>5, GuardCall, GuardTailCall, GuardStrayStore DEF Next

\* A mirroring shadow stack that lies where the prologs store keeps the promise
\* of ReturnGuard: its calls, returns, stray stores and what the owner of a
\* shared mapping does to it are all steps ReturnGuard takes.
THEOREM Implements == Spec => GuardSpec
<1>1. Init => Guard!GuardInit
  BY GuardInitHolds
<1>2. IInv /\ [Next]_vars => [Guard!GuardNext]_<<Activations, Outcome>>
  BY GuardStep
<1> QED
  BY <1>1, <1>2, Invariance, PTL DEF Spec, GuardSpec, Guard!GuardSpec
=============================================================================
