------------------------- MODULE MinimalStackProofs -------------------------
(***************************************************************************)
(* Theorems about MinimalStack, for every program, stack size and scheme.  *)
(***************************************************************************)
EXTENDS MinimalStack, SequenceTheorems, TLAPS

-----------------------------------------------------------------------------
(* Arithmetic of the constants. *)

LEMMA ConstantFacts ==
  /\ StackWords \in Nat /\ ShadowLen \in Nat /\ StackWords = 2 * ShadowLen /\ ShadowLen > 1
  /\ FirstEntry \in {0, 1} /\ FirstEntry \in Pointer
  /\ \A f \in Fns : Frame[f] \in Nat /\ Frame[f] >= 1
  /\ Crt \in Fns /\ ~Prolog(Crt)
  /\ \A f \in Fns : Width(f) \in {0, 1}
BY ProgramAssumption DEF ShadowLen, FirstEntry, Pointer, Prolog, Width

-----------------------------------------------------------------------------
(* Type correctness. *)

\* Entering a function from well-typed callers gives a well-typed state.
LEMMA EnterType ==
  ASSUME NEW callers \in Seq(Frames), NEW f \in Fns, NEW slot \in 0 .. StackWords - 1,
         NEW ra \in Sites \cup {Null}, NEW p \in Pointer \cup {Wild},
         TypeOK, Enter(callers, f, slot, ra, p), Frame[f] <= slot
  PROVE  /\ frames' \in Seq(Frames)
         /\ Len(frames') = Len(callers) + 1
         /\ \A i \in 1 .. Len(callers) : frames'[i] = callers[i]
         /\ shadow' \in [Index -> Entries]
         /\ ssp' \in Pointer \cup {Wild}
         /\ status' \in Statuses
<1> DEFINE base == IF LoadsR15(f) THEN FirstEntry ELSE p
           r == [fn |-> f, slot |-> slot, ra |-> ra, mem |-> ra, base |-> base]
<1>1. base \in Pointer \cup {Wild}
  BY ConstantFacts
<1>2. r \in Frames
  BY <1>1, ConstantFacts DEF Frames
<1>3. frames' = Append(callers, r)
  BY DEF Enter
<1>4. /\ frames' \in Seq(Frames)
      /\ Len(frames') = Len(callers) + 1
      /\ \A i \in 1 .. Len(callers) : frames'[i] = callers[i]
  BY <1>2, <1>3, AppendProperties
<1>5. [ra |-> ra, sp |-> slot] \in Entries
  BY DEF Entries
<1>6. CASE Prolog(f) /\ base \in Index
  <2>1. /\ shadow' = [shadow EXCEPT ![base] = [ra |-> ra, sp |-> slot]]
        /\ ssp' = base + 1 /\ status' = status
    BY <1>6 DEF Enter
  <2>2. base + 1 \in Pointer
    BY <1>6, ConstantFacts DEF Index, Pointer
  <2> QED
    BY <1>4, <1>5, <2>1, <2>2 DEF TypeOK
<1>7. CASE ~(Prolog(f) /\ base \in Index)
  <2>1. shadow' = shadow /\ ssp' = base /\ status' \in {status, "wildstore", "overflow"}
    BY <1>7 DEF Enter
  <2> QED
    BY <1>1, <1>4, <2>1 DEF TypeOK, Statuses
<1> QED
  BY <1>6, <1>7

\* A prefix of the live frames is a sequence of frames that starts the same way.
LEMMA CutType ==
  ASSUME TypeOK, NEW n \in 1 .. Depth
  PROVE  /\ SubSeq(frames, 1, n) \in Seq(Frames)
         /\ Len(SubSeq(frames, 1, n)) = n
         /\ \A i \in 1 .. n : SubSeq(frames, 1, n)[i] = frames[i]
BY SubSeqProperties DEF TypeOK, Depth

\* Each live frame is a frame, with rsp inside the stack while it makes a call.
LEMMA FrameFacts ==
  ASSUME TypeOK, NEW i \in 1 .. Depth
  PROVE  /\ frames[i] \in Frames
         /\ frames[i].fn \in Fns /\ frames[i].slot \in 0 .. StackWords - 1
         /\ frames[i].ra \in Sites \cup {Null} /\ frames[i].mem \in Sites \cup {Null}
         /\ frames[i].base \in Pointer \cup {Wild}
         /\ Rsp(i) \in 0 .. StackWords - 1
<1>1. frames[i] \in Frames
  BY DEF TypeOK, Depth
<1> QED
  BY <1>1, ConstantFacts DEF Frames, Rsp

LEMMA TypeInit == Init => TypeOK
<1> SUFFICES ASSUME Init PROVE TypeOK
  OBVIOUS
<1>1. CrtFrame(StackWords - 1) \in Frames
  BY ConstantFacts, ProgramAssumption DEF CrtFrame, Frames
<1>2. shadow \in [Index -> Entries]
  BY ConstantFacts DEF Init, Entries
<1>3. frames \in Seq(Frames) /\ Depth = 1 /\ frames[1] = CrtFrame(StackWords - 1)
  BY <1>1 DEF Init, Depth
<1>4. frames[1].fn = Crt
  BY <1>3 DEF CrtFrame
<1>5. env = NoEnv /\ env \in [depth : Nat, rsp : 0 .. StackWords - 1, r15 : Pointer \cup {Wild}]
  BY ConstantFacts DEF Init, NoEnv, Pointer
<1>6. ssp \in Pointer \cup {Wild} /\ phase \in {"init", "main", "fini"} /\ status \in Statuses
  BY ConstantFacts DEF Init, Statuses
<1> QED
  BY <1>2, <1>3, <1>4, <1>5, <1>6 DEF TypeOK

LEMMA TypeNext == TypeOK /\ [Next]_vars => TypeOK'
<1> SUFFICES ASSUME TypeOK, [Next]_vars PROVE TypeOK'
  OBVIOUS
<1> USE DEF Depth
<1>1. ASSUME NEW f \in Fns, NEW ra \in Sites, Call(f, ra) PROVE TypeOK'
  <2> DEFINE slot == Rsp(Depth) - 1
             p == IF Scheme = "REG" /\ Top.fn \in Clobbers THEN Wild ELSE ssp
  <2>1. Enter(frames, f, slot, ra, p) /\ slot - Frame[f] >= 0
    BY <1>1 DEF Call, Fits
  <2>2. slot \in 0 .. StackWords - 1 /\ Frame[f] <= slot
    BY <2>1, FrameFacts, ConstantFacts DEF TypeOK
  <2>3. p \in Pointer \cup {Wild} /\ frames \in Seq(Frames)
    BY DEF TypeOK
  <2>4. /\ frames' \in Seq(Frames) /\ Len(frames') = Depth + 1 /\ frames'[1] = frames[1]
        /\ shadow' \in [Index -> Entries]
        /\ ssp' \in Pointer \cup {Wild}
        /\ status' \in Statuses
    BY <2>1, <2>2, <2>3, EnterType DEF TypeOK
  <2>5. env' = env /\ phase' \in {"main", phase}
    BY <1>1 DEF Call
  <2> QED
    BY <2>4, <2>5 DEF TypeOK
<1>2. CASE Return
  <2>1. /\ frames' \in Seq(Frames) /\ Len(frames') = Depth - 1 /\ frames'[1] = frames[1]
    BY <1>2, CutType DEF Return, TypeOK
  <2>2. ssp' \in Pointer \cup {Wild}
    <3>1. CASE Epilog(Top.fn)
      BY <1>2, <3>1, ConstantFacts DEF Return, Checked, Popped, Index, Pointer
    <3>2. CASE ~Epilog(Top.fn)
      BY <1>2, <3>2, FrameFacts DEF Return, Popped, TypeOK, Top
    <3> QED
      BY <3>1, <3>2
  <2> QED
    BY <1>2, <2>1, <2>2, ConstantFacts DEF Return, KeepEnv, NoEnv, TypeOK, Pointer
<1>3. CASE Escape
  BY <1>3 DEF Escape, TypeOK, Statuses
<1>4. CASE EpilogTrap
  BY <1>4 DEF EpilogTrap, TypeOK, Statuses
<1>5. ASSUME NEW f \in Fns, TailCall(f) PROVE TypeOK'
  <2> DEFINE callers == SubSeq(frames, 1, Depth - 1)
  <2>1. callers \in Seq(Frames) /\ Len(callers) = Depth - 1 /\ callers[1] = frames[1] /\ Depth \in Nat
    BY <1>5, CutType DEF TailCall, TypeOK
  <2>2. Popped \in Pointer \cup {Wild}
    <3>1. CASE Epilog(Top.fn)
      BY <1>5, <3>1, ConstantFacts DEF TailCall, Checked, Popped, Index, Pointer
    <3>2. CASE ~Epilog(Top.fn)
      BY <1>5, <3>2, FrameFacts DEF TailCall, Popped, TypeOK, Top
    <3> QED
      BY <3>1, <3>2
  <2>3. /\ Top.slot \in 0 .. StackWords - 1 /\ Top.mem \in Sites \cup {Null}
        /\ Frame[f] <= Top.slot
    BY <1>5, FrameFacts, ConstantFacts DEF TailCall, Fits, Top, TypeOK
  <2>4. Enter(callers, f, Top.slot, Top.mem, Popped) /\ Depth > 1
    BY <1>5 DEF TailCall
  <2> HIDE DEF callers
  <2>5. /\ frames' \in Seq(Frames) /\ Len(frames') = Depth /\ frames'[1] = frames[1]
        /\ shadow' \in [Index -> Entries]
        /\ ssp' \in Pointer \cup {Wild}
        /\ status' \in Statuses
    <3> DEFINE slot == Top.slot
               ra == Top.mem
               p == Popped
    <3>1. /\ slot \in 0 .. StackWords - 1 /\ ra \in Sites \cup {Null} /\ Frame[f] <= slot
          /\ p \in Pointer \cup {Wild} /\ Enter(callers, f, slot, ra, p)
      BY <2>2, <2>3, <2>4
    <3> HIDE DEF slot, ra, p
    <3>2. callers \in Seq(Frames)
      BY <2>1
    <3>3. /\ frames' \in Seq(Frames) /\ Len(frames') = Len(callers) + 1
          /\ shadow' \in [Index -> Entries]
          /\ ssp' \in Pointer \cup {Wild}
          /\ status' \in Statuses
      BY <3>1, <3>2, EnterType
    <3>4. \A i \in 1 .. Len(callers) : frames'[i] = callers[i]
      BY <3>1, <3>2, EnterType
    <3> QED
      BY <2>1, <2>4, <3>3, <3>4
  <2> QED
    BY <1>5, <2>5, ConstantFacts DEF TailCall, KeepEnv, NoEnv, TypeOK, Pointer
<1>6. CASE Exit
  <2>1. CrtFrame(Rsp(Depth) - 1) \in Frames
    BY SMTT(40), <1>6, FrameFacts, ConstantFacts DEF Exit, Fits, CrtFrame, Frames, TypeOK
  <2>2. frames' \in Seq(Frames) /\ Len(frames') = 1 /\ frames'[1].fn = Crt
    BY <1>6, <2>1 DEF Exit, CrtFrame
  <2> QED
    BY <1>6, <2>2, ConstantFacts DEF Exit, NoEnv, TypeOK, Pointer
<1>7. CASE Finish
  BY <1>7 DEF Finish, TypeOK, Statuses
<1>8. ASSUME NEW i \in 2 .. Depth, NEW v \in Sites, StrayStore(i, v) PROVE TypeOK'
  <2> DEFINE r == [frames[i] EXCEPT !.mem = v]
  <2>1. r \in Frames
    <3>1. frames[i] \in Frames
      BY FrameFacts DEF TypeOK
    <3> QED
      BY <3>1 DEF Frames
  <2>2. frames' = [frames EXCEPT ![i] = r]
    BY <1>8 DEF StrayStore
  <2> HIDE DEF r
  <2>3. frames' \in Seq(Frames) /\ Len(frames') = Depth /\ frames'[1] = frames[1]
    BY <2>1, <2>2 DEF TypeOK
  <2> QED
    BY <1>8, <2>3 DEF StrayStore, TypeOK
<1>9. CASE SetJmp
  BY <1>9, FrameFacts DEF SetJmp, TypeOK
<1>10. CASE LongJmp
  <2>1. status' \in Statuses /\ shadow' = shadow /\ env' = env /\ phase' = phase
    BY <1>10 DEF LongJmp, TypeOK, Statuses
  <2>2. ssp' \in Pointer \cup {Wild}
    BY <1>10 DEF LongJmp, TypeOK
  <2>3. frames' \in Seq(Frames) /\ Len(frames') >= 1 /\ frames'[1] = frames[1]
    <3>1. env.depth \in 1 .. Depth
      BY <1>10 DEF LongJmp, TypeOK
    <3>2. CASE frames' = SubSeq(frames, 1, env.depth)
      BY <3>1, <3>2, CutType DEF TypeOK
    <3>3. CASE frames' = frames
      BY <3>3 DEF TypeOK
    <3> QED
      BY <1>10, <3>2, <3>3 DEF LongJmp
  <2>4. env = NoEnv \/ env.depth \in 2 .. Len(frames')
    BY <1>10, CutType DEF LongJmp, TypeOK
  <2> QED
    BY <2>1, <2>2, <2>3, <2>4 DEF TypeOK
<1>11. ASSUME NEW i \in 2 .. Depth, Unwind(i) PROVE TypeOK'
  <2>1. /\ status' \in Statuses /\ shadow' = shadow /\ phase' = phase
        /\ env' \in {env, NoEnv}
    BY <1>11 DEF Unwind, KeepEnv, TypeOK, Statuses
  <2>2. ssp' \in Pointer \cup {Wild}
    BY <1>11, ConstantFacts DEF Unwind, TypeOK, Index, Pointer
  <2>3. frames' \in Seq(Frames) /\ Len(frames') >= 1 /\ frames'[1] = frames[1]
    <3>1. CASE frames' = SubSeq(frames, 1, i)
      BY <3>1, CutType DEF TypeOK
    <3>2. CASE frames' = frames
      BY <3>2 DEF TypeOK
    <3> QED
      BY <1>11, <3>1, <3>2 DEF Unwind
  <2>4. /\ env' \in [depth : Nat, rsp : 0 .. StackWords - 1, r15 : Pointer \cup {Wild}]
        /\ env' = NoEnv \/ env'.depth \in 2 .. Len(frames')
    <3>1. CASE frames' = SubSeq(frames, 1, i) /\ KeepEnv(i)
      BY <3>1, CutType, ConstantFacts DEF TypeOK, KeepEnv, NoEnv, Pointer
    <3>2. CASE frames' = frames /\ env' = env
      BY <3>2 DEF TypeOK
    <3> QED
      BY <1>11, <3>1, <3>2 DEF Unwind
  <2> QED
    BY <2>1, <2>2, <2>3, <2>4 DEF TypeOK
<1>12. CASE UNCHANGED vars
  BY <1>12 DEF vars, TypeOK
<1> QED
  BY <1>1, <1>2, <1>3, <1>4, <1>5, <1>6, <1>7, <1>8, <1>9, <1>10, <1>11, <1>12 DEF Next

\* Every reachable state has the declared types: in particular a checked exit
\* never moves the pointer below the shadow stack and every frame fits.
THEOREM TypeCorrect == Spec => []TypeOK
  BY TypeInit, TypeNext, PTL DEF Spec

-----------------------------------------------------------------------------
(* The inductive invariant: discarding frames and entering a function keep *)
(* a sequence of frames linked to its shadow stack.                        *)

LEMMA FrameFields ==
  ASSUME NEW x \in Frames
  PROVE  /\ x.fn \in Fns /\ x.slot \in Nat /\ x.slot <= StackWords - 1 /\ x.slot >= Frame[x.fn]
         /\ x.base \in Int /\ After(x) \in Int /\ Width(x.fn) \in {0, 1}
         /\ (After(x) = x.base \/ After(x) = x.base + 1)
         /\ Frame[x.fn] \in Nat /\ Frame[x.fn] >= 1
BY ConstantFacts DEF Frames, Pointer, Wild, After

LEMMA CutLinked ==
  ASSUME NEW fs \in Seq(Frames), NEW sh, NEW p \in Int, NEW q \in Int,
         NEW n \in 1 .. Len(fs), Linked(fs, sh, p),
         n >= 2 \/ Scheme # "REG" => q = NextBase(fs, p, n)
  PROVE  Linked(SubSeq(fs, 1, n), sh, q)
<1> DEFINE gs == SubSeq(fs, 1, n)
<1>1. gs \in Seq(Frames) /\ Len(gs) = n /\ \A i \in 1 .. n : gs[i] = fs[i]
  BY SubSeqProperties
<1>2. \A i \in 1 .. Len(fs) : fs[i] \in Frames /\ fs[i].base \in Int /\ After(fs[i]) \in Int
  BY FrameFields
<1> HIDE DEF gs
<1>3. ASSUME n >= 2 PROVE q = After(fs[n])
  <2>1. n \in 2 .. Len(fs)
    BY <1>3
  <2> QED
    BY <1>3, <2>1 DEF Linked, Owns
<1>4. \A i \in 2 .. n : After(fs[i]) <= q
  BY <1>2, <1>3 DEF Linked, Ordered, NextBase
<1>5. n >= 2 => q <= p
  BY <1>2, <1>3 DEF Linked, Ordered
<1>6. Owns(gs, sh, q)
  BY <1>1, <1>3 DEF Linked, Owns, NextBase
<1>7. Ordered(gs, q)
  BY <1>1, <1>4 DEF Linked, Ordered
<1>8. Roomy(gs, q)
  <2>1. \A i \in 2 .. n :
          /\ 2 * fs[i].base + fs[i].slot <= StackWords - 1
          /\ LoadsR15(fs[i].fn) => i = 2 /\ fs[i].base = 0 /\ fs[i].slot <= StackWords - 3
    BY DEF Linked, Roomy
  <2>2. Scheme # "REG" => NextBase(gs, q, 1) = NextBase(fs, p, 1)
    BY <1>1 DEF NextBase
  <2> QED
    BY <1>1, <2>1, <2>2 DEF Linked, Roomy
<1>9. Walkable(gs, sh, q)
  BY <1>1, <1>2, <1>5 DEF Linked, Walkable
<1> QED
  BY <1>6, <1>7, <1>8, <1>9 DEF Linked, gs

\* The shadow stack after a prolog.
LEMMA EnterLinked ==
  ASSUME NEW fs \in Seq(Frames), NEW sh \in [Index -> Entries], NEW p \in Int,
         Linked(fs, sh, p), Len(fs) >= 1,
         NEW r \in Frames, r.ra \in Sites, r.base >= FirstEntry,
         Len(fs) >= 2 \/ Scheme # "REG" => r.base = p,
         \A i \in 2 .. Len(fs) : r.slot < fs[i].slot - Frame[fs[i].fn],
         2 * r.base + r.slot <= StackWords - 1,
         LoadsR15(r.fn) => Len(fs) = 1 /\ r.base = 0 /\ r.slot <= StackWords - 3,
         Scheme = "REG" => Beneath(sh, r.base, r.slot),
         NEW sh2, sh2 = IF Prolog(r.fn) THEN [sh EXCEPT ![r.base] = [ra |-> r.ra, sp |-> r.slot]]
                                        ELSE sh
  PROVE  r.base \in Index /\ Linked(Append(fs, r), sh2, After(r))
<1> DEFINE gs == Append(fs, r)
           n == Len(fs)
<1>1. /\ gs \in Seq(Frames) /\ Len(gs) = n + 1 /\ gs[n + 1] = r
      /\ \A i \in 1 .. n : gs[i] = fs[i]
      /\ n \in Nat
  BY AppendProperties
<1>2. /\ \A i \in 1 .. n : fs[i] \in Frames /\ fs[i].base \in Int /\ After(fs[i]) \in Int
                           /\ fs[i].slot \in Nat /\ fs[i].fn \in Fns /\ Frame[fs[i].fn] \in Nat
                           /\ (After(fs[i]) = fs[i].base \/ After(fs[i]) = fs[i].base + 1)
      /\ r.base \in Int /\ After(r) \in Int /\ r.slot \in Nat
      /\ After(r) = IF Prolog(r.fn) THEN r.base + 1 ELSE r.base
      /\ Frame[r.fn] \in Nat
  <2>1. \A x \in Frames : /\ x.base \in Int /\ After(x) \in Int /\ x.slot \in Nat /\ x.fn \in Fns
                           /\ Frame[x.fn] \in Nat /\ (After(x) = x.base \/ After(x) = x.base + 1)
    BY FrameFields
  <2>2. After(r) = IF Prolog(r.fn) THEN r.base + 1 ELSE r.base
    BY <2>1 DEF After, Width
  <2>3. ASSUME NEW i \in 1 .. n PROVE fs[i] \in Frames
    OBVIOUS
  <2>4. r \in Frames
    OBVIOUS
  <2>5. /\ r.base \in Int /\ After(r) \in Int /\ r.slot \in Nat /\ Frame[r.fn] \in Nat
    BY <2>1, <2>4
  <2> QED
    BY <2>1, <2>2, <2>3, <2>5
<1>3. r.base \in Index
  BY SMTT(40), <1>2, ConstantFacts DEF Index
<1> HIDE DEF gs
<1>4. \A i \in 2 .. n : After(fs[i]) <= r.base
  BY <1>1, <1>2 DEF Linked, Ordered
<1>5. \A k \in Index : k # r.base => sh2[k] = sh[k]
  BY <1>3
<1>6. Prolog(r.fn) => sh2[r.base] = [ra |-> r.ra, sp |-> r.slot]
  BY <1>3
<1>7. Owns(gs, sh2, After(r))
  <2> SUFFICES ASSUME NEW i \in 2 .. n + 1
               PROVE  /\ gs[i].ra \in Sites
                      /\ gs[i].base >= FirstEntry
                      /\ NextBase(gs, After(r), i) = After(gs[i])
                      /\ Prolog(gs[i].fn) =>
                           /\ gs[i].base \in Index
                           /\ sh2[gs[i].base] = [ra |-> gs[i].ra, sp |-> gs[i].slot]
    BY <1>1 DEF Owns
  <2>1. CASE i = n + 1
    BY <2>1, <1>1, <1>3, <1>6 DEF NextBase
  <2>2. CASE i \in 2 .. n
    <3>1. gs[i] = fs[i]
      BY <2>2, <1>1
    <3>2. NextBase(gs, After(r), i) = NextBase(fs, p, i)
      <4>1. i < n => gs[i + 1] = fs[i + 1]
        BY <2>2, <1>1
      <4>2. i = n => gs[i + 1].base = p
        BY <2>2, <1>1
      <4> QED
        BY <2>2, <4>1, <4>2, <1>1 DEF NextBase
    <3>3. Prolog(fs[i].fn) => fs[i].base # r.base
      BY <2>2, <1>2, <1>4 DEF After, Width
    <3> QED
      BY <2>2, <3>1, <3>2, <3>3, <1>5 DEF Linked, Owns
  <2> QED
    BY <2>1, <2>2, <1>1
<1>8. Ordered(gs, After(r))
  <2>1. \A i \in 2 .. n + 1 : After(gs[i]) <= After(r)
    <3>1. \A i \in 2 .. n : gs[i] = fs[i] /\ After(fs[i]) \in Int /\ After(fs[i]) <= r.base
      BY SMTT(40), <1>1, <1>2, <1>4
    <3>2. r.base \in Int /\ After(r) \in Int /\ r.base <= After(r)
      BY <1>2
    <3> QED
      BY <3>1, <3>2, <1>1
  <2>2. ASSUME NEW i \in 2 .. n + 1, NEW j \in i + 1 .. n + 1
        PROVE  After(gs[i]) <= gs[j].base /\ gs[j].slot < gs[i].slot - Frame[gs[i].fn]
    <3>1. CASE j = n + 1
      BY <3>1, <1>1, <1>4
    <3>2. CASE j \in i + 1 .. n
      BY SMTT(40), <3>2, <1>1 DEF Linked, Ordered
    <3> QED
      BY <3>1, <3>2, n \in Nat
  <2> QED
    BY <2>1, <2>2, <1>1 DEF Ordered
<1>9. Roomy(gs, After(r))
  <2>1. Scheme # "REG" => NextBase(gs, After(r), 1) = NextBase(fs, p, 1)
    BY <1>1 DEF NextBase
  <2>2. gs[1] = fs[1]
    BY <1>1
  <2>3. \A i \in 2 .. Len(gs) :
       /\ 2 * gs[i].base + gs[i].slot <= StackWords - 1
       /\ LoadsR15(gs[i].fn) => i = 2 /\ gs[i].base = 0 /\ gs[i].slot <= StackWords - 3
    BY <1>1 DEF Linked, Roomy
  <2> QED
    BY <2>1, <2>2, <2>3 DEF Linked, Roomy
<1>10. Walkable(gs, sh2, After(r))
  <2> SUFFICES ASSUME Scheme = "REG", NEW i \in 2 .. n + 1
               PROVE  /\ Beneath(sh2, gs[i].base, gs[i].slot)
                      /\ After(gs[i]) < After(r) =>
                           /\ After(gs[i]) \in Index
                           /\ sh2[After(gs[i])].ra # Null
                           /\ sh2[After(gs[i])].sp < gs[i].slot - Frame[gs[i].fn]
    BY <1>1 DEF Walkable
  <2>1. CASE i = n + 1
    <3>1. Beneath(sh2, r.base, r.slot)
      BY <1>5, <1>2 DEF Beneath, Index
    <3> QED
      BY <2>1, <3>1, <1>1, <1>2
  <2>2. CASE i \in 2 .. n
    <3>1. gs[i] = fs[i] /\ fs[i] \in Frames /\ After(fs[i]) \in Int /\ fs[i].base \in Int /\ r.base = p
      BY <2>2, <1>1, <1>2
    <3>2. fs[i].base <= After(fs[i])
      <4>1. i \in 1 .. n
        BY <2>2
      <4>2. After(fs[i]) = fs[i].base \/ After(fs[i]) = fs[i].base + 1
        BY <4>1, <1>2
      <4> QED
        BY <3>1, <4>2
    <3>3. Beneath(sh2, fs[i].base, fs[i].slot)
      BY <2>2, <3>1, <3>2, <1>2, <1>4, <1>5 DEF Linked, Walkable, Beneath, Index
    <3>4. CASE After(fs[i]) = r.base
      <4>1. After(r) > r.base => Prolog(r.fn)
        BY <1>2
      <4> QED
        BY <2>2, <3>1, <3>3, <3>4, <4>1, <1>2, <1>3, <1>6, ProgramAssumption
    <3>5. CASE After(fs[i]) < r.base
      BY <2>2, <3>1, <3>3, <3>5, <1>5 DEF Linked, Walkable
    <3> QED
      BY <2>2, <3>1, <3>4, <3>5, <1>2, <1>4
  <2> QED
    BY <2>1, <2>2, <1>1
<1> QED
  BY <1>3, <1>7, <1>8, <1>9, <1>10 DEF Linked, gs

\* What the invariant says of the running function.
LEMMA TopFacts ==
  ASSUME TypeOK, Linked(frames, shadow, ssp), Depth >= 2
  PROVE  /\ Top \in Frames /\ Top = frames[Depth] /\ Depth \in 2 .. Len(frames)
         /\ Top.ra \in Sites /\ Top.base \in Nat /\ Top.base >= FirstEntry
         /\ ssp = After(Top)
         /\ IF Prolog(Top.fn)
              THEN /\ ssp = Top.base + 1 /\ Top.base \in Index
                   /\ shadow[Top.base] = [ra |-> Top.ra, sp |-> Top.slot]
              ELSE ssp = Top.base
<1>1. Depth \in 2 .. Len(frames) /\ Top = frames[Depth]
  BY DEF TypeOK, Depth, Top
<1>2. Top \in Frames
  BY <1>1 DEF TypeOK
<1>3. /\ Top.ra \in Sites /\ Top.base >= FirstEntry /\ NextBase(frames, ssp, Depth) = After(Top)
      /\ Prolog(Top.fn) => /\ Top.base \in Index
                           /\ shadow[Top.base] = [ra |-> Top.ra, sp |-> Top.slot]
  BY <1>1 DEF Linked, Owns
<1>4. ssp = After(Top)
  BY <1>1, <1>3 DEF NextBase, Depth
<1>5. Top.base \in Nat
  BY <1>2, <1>3, FrameFields, ConstantFacts
<1> QED
  BY <1>1, <1>2, <1>3, <1>4, <1>5 DEF After, Width

LEMMA RoomArithmetic ==
  ASSUME NEW base \in Int, NEW p \in Int, NEW slot \in Int, NEW callee \in Int, NEW room \in Int,
         2 * base + slot <= room, callee <= slot - 2, p = base \/ p = base + 1
  PROVE  2 * p + callee <= room
OBVIOUS

\* What a callee of frame n, at the slot below n's frame, finds.
LEMMA CalleeRoom ==
  ASSUME NEW fs \in Seq(Frames), NEW sh \in [Index -> Entries], NEW p \in Int, Linked(fs, sh, p), Len(fs) >= 2,
         NEW slot, slot = fs[Len(fs)].slot - Frame[fs[Len(fs)].fn] - 1
  PROVE  /\ p = After(fs[Len(fs)]) /\ p >= FirstEntry
         /\ \A i \in 2 .. Len(fs) : slot < fs[i].slot - Frame[fs[i].fn]
         /\ 2 * p + slot <= StackWords - 1
         /\ Scheme = "REG" => Beneath(sh, p, slot)
<1> DEFINE n == Len(fs)
           x == fs[n]
<1>1. n \in 2 .. Len(fs) /\ n \in Nat
  OBVIOUS
<1>2. x \in Frames
  BY <1>1
<1>3. /\ x.slot \in Nat /\ x.base \in Int /\ Frame[x.fn] \in Nat /\ Frame[x.fn] >= 1
      /\ (After(x) = x.base \/ After(x) = x.base + 1)
      /\ slot \in Int /\ slot <= x.slot - 2
  BY SMTT(40), <1>2, FrameFields
<1>4. /\ x.base >= FirstEntry /\ NextBase(fs, p, n) = After(x)
      /\ Prolog(x.fn) => sh[x.base] = [ra |-> x.ra, sp |-> x.slot]
      /\ x.ra \in Sites
  BY <1>1 DEF Linked, Owns
<1>5. p = After(x)
  BY <1>1, <1>4 DEF NextBase
<1>6. ASSUME NEW i \in 2 .. n PROVE slot < fs[i].slot - Frame[fs[i].fn]
  <2>1. CASE i = n
    BY <2>1, <1>3
  <2>2. CASE i < n
    <3>1. n \in i + 1 .. n
      BY <2>2
    <3>2. x.slot < fs[i].slot - Frame[fs[i].fn]
      BY <3>1 DEF Linked, Ordered
    <3>3. fs[i] \in Frames
      BY <1>1
    <3>4. fs[i].slot \in Nat /\ Frame[fs[i].fn] \in Nat
      BY <3>3, FrameFields
    <3> QED
      BY SMTT(40), <3>2, <3>4, <1>3
  <2> QED
    BY <2>1, <2>2
<1>7. 2 * p + slot <= StackWords - 1
  <2>1. 2 * x.base + x.slot <= StackWords - 1
    BY <1>1 DEF Linked, Roomy
  <2> QED
    <3>1. /\ StackWords \in Int /\ x.slot \in Int /\ x.base \in Int
          /\ (p = x.base \/ p = x.base + 1)
      BY <1>3, <1>5, ConstantFacts
    <3>2. slot \in Int /\ slot <= x.slot - 2 /\ StackWords - 1 \in Int
      BY <1>3, <3>1
    <3> HIDE DEF x, n
    <3> QED
      BY SMTT(40), <2>1, <3>1, <3>2, RoomArithmetic
<1>8. ASSUME Scheme = "REG" PROVE Beneath(sh, p, slot)
  <2> SUFFICES ASSUME NEW k \in Index, k < p PROVE sh[k].ra # Null /\ sh[k].sp >= slot
    BY DEF Beneath
  <2>1. k \in Int
    BY ConstantFacts DEF Index
  <2>2. CASE k < x.base
    <3>1. sh[k].ra # Null /\ sh[k].sp >= x.slot
      BY <1>8, <2>2, <1>1 DEF Linked, Walkable, Beneath
    <3>2. x.slot >= slot
      BY <1>3
    <3>3. sh[k].sp \in Int
      BY DEF Entries
    <3> QED
      BY <3>1, <3>2, <3>3, <1>3
  <2>3. CASE k = x.base
    <3>1. Prolog(x.fn)
      BY <2>3, <1>5, <1>3 DEF After, Width
    <3> QED
      BY <2>3, <3>1, <1>3, <1>4, ProgramAssumption
  <2> QED
    BY <2>1, <2>2, <2>3, <1>3, <1>5
<1>9. p >= FirstEntry
  <2>1. x.base \in Int /\ p \in Int /\ x.base >= FirstEntry /\ (p = x.base \/ p = x.base + 1)
    BY <1>3, <1>4, <1>5
  <2> QED
    BY <2>1, ConstantFacts
<1> QED
  BY <1>5, <1>6, <1>7, <1>8, <1>9

-----------------------------------------------------------------------------
(* One lemma per action. *)

LEMMA InvInit == Init => IInv
<1> SUFFICES ASSUME Init PROVE IInv
  OBVIOUS
<1>1. TypeOK
  BY TypeInit
<1>2. Len(frames) = 1 /\ frames[1].slot = StackWords - 1 /\ ssp = FirstEntry
  BY DEF Init, CrtFrame
<1>3. Linked(frames, shadow, ssp)
  BY <1>2, ConstantFacts DEF Linked, Owns, Ordered, Roomy, Walkable, NextBase, FirstEntry
<1>4. EnvLive /\ status = "run"
  BY DEF Init, EnvLive
<1> QED
  BY <1>1, <1>3, <1>4 DEF IInv, SafeReturn, NoSpuriousTrap, NoBlindAccess, JumpTrapExact

\* The verdict properties speak of stopped threads only.
LEMMA Running ==
  ASSUME TypeOK', Linked(frames, shadow, ssp)', EnvLive', status' = "run" \/ status' = "done"
  PROVE  IInv'
BY DEF IInv, SafeReturn, NoSpuriousTrap, NoBlindAccess, JumpTrapExact

\* A jmp_buf stays valid while the frames up to its own, and what they handed
\* on, stay.
LEMMA EnvKept ==
  ASSUME TypeOK, EnvLive, NEW n \in Nat, n <= Depth, Len(frames') >= n,
         (env' = env /\ (Depth = n \/ env.depth <= n)) \/ KeepEnv(n),
         \A i \in 1 .. n : frames'[i] = frames[i],
         n >= 2 => NextBase(frames', ssp', n) = NextBase(frames, ssp, n)
  PROVE  EnvLive'
<1>1. CASE env' = NoEnv
  BY <1>1 DEF EnvLive
<1>2. CASE env' # NoEnv
  <2>1. env' = env /\ env # NoEnv /\ env.depth \in 2 .. n
    BY <1>2 DEF EnvLive, KeepEnv
  <2>2. Scheme = "REG" /\ env.rsp = Rsp(env.depth) /\ env.r15 = NextBase(frames, ssp, env.depth)
    BY <2>1 DEF EnvLive, PtrAt
  <2>3. frames'[env.depth] = frames[env.depth]
    BY <2>1
  <2>4. Rsp(env.depth)' = Rsp(env.depth) /\ env'.rsp = env.rsp
    BY <2>1, <2>3 DEF Rsp
  <2>5. NextBase(frames', ssp', env.depth) = NextBase(frames, ssp, env.depth)
    <3>1. CASE env.depth = n
      BY <3>1, <2>1
    <3>2. CASE env.depth < n
      <4>1. env.depth + 1 \in 1 .. n /\ env.depth < Len(frames) /\ env.depth < Len(frames')
        BY <3>2, <2>1 DEF Depth, TypeOK
      <4> QED
        BY <4>1 DEF NextBase
    <3> QED
      BY <3>1, <3>2, <2>1
  <2> QED
    BY <2>1, <2>2, <2>4, <2>5 DEF EnvLive, PtrAt, Depth, TypeOK
<1> QED
  BY <1>1, <1>2

\* The base an activation of f entered with pointer q gets.
BaseIs(f, q, base) == base = IF LoadsR15(f) THEN FirstEntry ELSE q

\* What the caller or the jumper must establish before f is entered over fs.
EnterReady(fs, p, q, f, slot, ra, base) ==
  /\ TypeOK /\ status = "run"
  /\ fs \in Seq(Frames) /\ Len(fs) >= 1 /\ p \in Pointer \cup {Wild} /\ q \in Pointer \cup {Wild}
  /\ Linked(fs, shadow, p)
  /\ f \in Fns /\ slot \in 0 .. StackWords - 1 /\ ra \in Sites /\ Frame[f] <= slot
  /\ Enter(fs, f, slot, ra, q)
  /\ base \in Pointer \cup {Wild} /\ BaseIs(f, q, base) /\ base >= FirstEntry
  /\ Len(fs) >= 2 \/ Scheme # "REG" => base = p
  /\ \A i \in 2 .. Len(fs) : slot < fs[i].slot - Frame[fs[i].fn]
  /\ 2 * base + slot <= StackWords - 1
  /\ LoadsR15(f) => Len(fs) = 1 /\ slot <= StackWords - 3
  /\ Scheme = "REG" => Beneath(shadow, base, slot)

\* A function entered at a place with room keeps the link and the thread running.
LEMMA EnterStep ==
  ASSUME NEW fs, NEW p, NEW q, NEW f, NEW slot, NEW ra, NEW base,
         EnterReady(fs, p, q, f, slot, ra, base)
  PROVE  /\ Linked(frames, shadow, ssp)' /\ status' = "run"
         /\ Len(frames') = Len(fs) + 1 /\ \A i \in 1 .. Len(fs) : frames'[i] = fs[i]
         /\ NextBase(frames', ssp', Len(fs)) = base
<1>0. /\ TypeOK /\ status = "run"
      /\ fs \in Seq(Frames) /\ Len(fs) >= 1 /\ p \in Pointer \cup {Wild} /\ q \in Pointer \cup {Wild}
      /\ Linked(fs, shadow, p)
      /\ f \in Fns /\ slot \in 0 .. StackWords - 1 /\ ra \in Sites /\ Frame[f] <= slot
      /\ Enter(fs, f, slot, ra, q)
      /\ base \in Pointer \cup {Wild} /\ BaseIs(f, q, base) /\ base >= FirstEntry
      /\ Len(fs) >= 2 \/ Scheme # "REG" => base = p
      /\ \A i \in 2 .. Len(fs) : slot < fs[i].slot - Frame[fs[i].fn]
      /\ 2 * base + slot <= StackWords - 1
      /\ LoadsR15(f) => Len(fs) = 1 /\ slot <= StackWords - 3
      /\ Scheme = "REG" => Beneath(shadow, base, slot)
  BY DEF EnterReady
<1> USE <1>0
<1> DEFINE r == [fn |-> f, slot |-> slot, ra |-> ra, mem |-> ra, base |-> base]
<1>1. base = IF LoadsR15(f) THEN FirstEntry ELSE q
  BY DEF BaseIs
<1>2. r \in Frames /\ r.fn = f /\ r.slot = slot /\ r.ra = ra /\ r.base = base /\ r.mem = ra
  BY ConstantFacts DEF Frames
<1>3. frames' = Append(fs, r)
  BY <1>1 DEF Enter
<1>4. After(r) = base + Width(f)
  BY <1>2 DEF After
<1>5. p \in Int
  BY ConstantFacts DEF Pointer, Wild
<1>6. LoadsR15(f) => base = 0
  BY <1>1 DEF FirstEntry, LoadsR15
<1>7. /\ Len(frames') = Len(fs) + 1 /\ frames'[Len(fs) + 1] = r
      /\ \A i \in 1 .. Len(fs) : frames'[i] = fs[i]
  BY <1>2, <1>3, AppendProperties
<1> HIDE DEF r
<1> DEFINE sh2 == IF Prolog(f) THEN [shadow EXCEPT ![base] = [ra |-> ra, sp |-> slot]] ELSE shadow
<1>8. shadow \in [Index -> Entries]
  BY DEF TypeOK
<1>9. sh2 = IF Prolog(r.fn) THEN [shadow EXCEPT ![r.base] = [ra |-> r.ra, sp |-> r.slot]] ELSE shadow
  BY <1>2
<1> HIDE DEF sh2
<1>10. base \in Index /\ Linked(Append(fs, r), sh2, After(r))
  <2>1. r.base \in Index /\ Linked(Append(fs, r), sh2, After(r))
    BY <1>2, <1>5, <1>6, <1>8, <1>9, EnterLinked
  <2> QED
    BY <2>1, <1>2
<1>11. shadow' = sh2 /\ ssp' = After(r) /\ status' = "run"
  <2>1. CASE Prolog(f)
    BY <2>1, <1>1, <1>4, <1>10 DEF Enter, Width, sh2
  <2>2. CASE ~Prolog(f)
    <3>1. shadow' = sh2 /\ ssp' = base /\ status' = "run"
      BY <2>2, <1>1 DEF Enter, sh2
    <3>2. After(r) = base
      BY <2>2, <1>4, ConstantFacts DEF Width, Pointer, Wild
    <3> QED
      BY <3>1, <3>2
  <2> QED
    BY <2>1, <2>2
<1>12. NextBase(frames', ssp', Len(fs)) = base
  BY <1>2, <1>7 DEF NextBase
<1> QED
  BY <1>3, <1>7, <1>10, <1>11, <1>12

LEMMA CallInv ==
  ASSUME Disciplined, IInv, TypeOK', NEW f \in Fns, NEW ra \in Sites, Call(f, ra)
  PROVE  IInv'
<1> DEFINE slot == Rsp(Depth) - 1
           q == IF Scheme = "REG" /\ Top.fn \in Clobbers THEN Wild ELSE ssp
           base == IF LoadsR15(f) THEN FirstEntry ELSE q
<1>1. /\ TypeOK /\ Linked(frames, shadow, ssp) /\ EnvLive
      /\ status = "run" /\ Enter(frames, f, slot, ra, q) /\ slot - Frame[f] >= 0 /\ env' = env
      /\ IF Depth = 1 THEN CrtMayCall(f) ELSE <<Top.fn, f>> \in Calls
  BY DEF IInv, Call, Fits
<1>2. /\ frames \in Seq(Frames) /\ Depth = Len(frames) /\ Depth \in Nat /\ Depth >= 1
      /\ ssp \in Pointer \cup {Wild} /\ q \in Pointer \cup {Wild}
      /\ shadow \in [Index -> Entries]
  BY <1>1 DEF TypeOK, Depth
<1>3. slot \in 0 .. StackWords - 1 /\ Frame[f] <= slot /\ Frame[f] \in Nat
  BY <1>1, <1>2, FrameFacts, ConstantFacts
<1>4. /\ base >= FirstEntry
      /\ Len(frames) >= 2 \/ Scheme # "REG" => base = ssp
      /\ \A i \in 2 .. Len(frames) : slot < frames[i].slot - Frame[frames[i].fn]
      /\ 2 * base + slot <= StackWords - 1
      /\ LoadsR15(f) => Len(frames) = 1 /\ slot <= StackWords - 3
      /\ Scheme = "REG" => Beneath(shadow, base, slot)
  <2>1. CASE Depth >= 2
    <3>1. <<Top.fn, f>> \in Calls /\ Top.fn \in Fns
      <4>1. Top \in Frames
        BY <2>1, <1>1, TopFacts
      <4>2. Depth # 1
        BY <2>1
      <4> HIDE DEF slot, q, base
      <4> QED
        BY <4>1, <4>2, <1>1, FrameFields
    <3>2. ~LoadsR15(f) /\ base = ssp
      BY <3>1 DEF Disciplined, LoadsR15
    <3>3. slot = frames[Len(frames)].slot - Frame[frames[Len(frames)].fn] - 1
      BY <1>2 DEF Rsp
    <3>4. ssp \in Int
      BY <1>2, ConstantFacts DEF Pointer, Wild
    <3> HIDE DEF slot, q, base
    <3>5. /\ ssp >= FirstEntry
          /\ \A i \in 2 .. Len(frames) : slot < frames[i].slot - Frame[frames[i].fn]
          /\ 2 * ssp + slot <= StackWords - 1
          /\ Scheme = "REG" => Beneath(shadow, ssp, slot)
      BY <2>1, <3>3, <3>4, <1>1, <1>2, CalleeRoom
    <3> QED
      BY <3>2, <3>5
  <2>2. CASE Depth = 1
    <3>0. Len(frames) = 1
      BY <2>2 DEF Depth
    <3>1. frames[1] \in Frames /\ Top = frames[1] /\ Top.fn = Crt /\ 1 \in 1 .. Depth
      <4>1. 1 \in 1 .. Depth
        BY <2>2
      <4>2. Top = frames[1]
        BY <2>2 DEF Top
      <4>3. frames[1].fn = Crt
        BY <1>1 DEF TypeOK
      <4> HIDE DEF slot, q, base
      <4> QED
        BY <4>1, <4>2, <4>3, <1>1, FrameFacts
    <3>2. slot <= frames[1].slot - 2 /\ frames[1].slot <= StackWords - 1 /\ frames[1].slot \in Int
      BY <2>2, <3>1, FrameFields DEF Rsp
    <3>3. CASE Scheme = "REG"
      <4>1. LoadsR15(f)
        BY <2>2, <3>3 DEF Call, CrtMayCall, Disciplined
      <4>2. base = 0
        BY <4>1, <3>3 DEF FirstEntry
      <4>3. Beneath(shadow, base, slot)
        BY <4>2, ConstantFacts DEF Beneath, Index
      <4> QED
        <5>1. base >= FirstEntry /\ FirstEntry = 0
          BY <4>2, <3>3 DEF FirstEntry
        <5>2. slot \in Int /\ StackWords \in Int /\ slot <= StackWords - 3
          BY <3>2, <1>3, ConstantFacts
        <5> HIDE DEF slot, base
        <5>3. 2 * base + slot <= StackWords - 1
          BY <4>2, <5>2
        <5> QED
          BY <3>0, <3>3, <4>2, <4>3, <5>1, <5>2, <5>3
    <3>4. CASE Scheme # "REG"
      <4>1. base = ssp /\ ~LoadsR15(f)
        BY <3>4 DEF LoadsR15
      <4>2. ssp >= FirstEntry /\ 2 * ssp + frames[1].slot <= StackWords + 1
        <5>1. NextBase(frames, ssp, 1) = ssp
          BY <3>0 DEF NextBase
        <5> QED
          BY <3>4, <5>1, <1>1 DEF Linked, Roomy
      <4>3. ssp \in Int
        BY <1>2, ConstantFacts DEF Pointer, Wild
      <4>4. 2 * ssp + slot <= StackWords - 1
        BY <4>2, <4>3, <3>2, <1>3, ConstantFacts
      <4> HIDE DEF slot, base
      <4>5. \A i \in 2 .. Len(frames) : slot < frames[i].slot - Frame[frames[i].fn]
        BY <3>0
      <4> QED
        BY <3>4, <4>1, <4>2, <4>4, <4>5
    <3> QED
      BY <3>3, <3>4
  <2> QED
    BY <2>1, <2>2, <1>2
<1>5. /\ Linked(frames, shadow, ssp)' /\ status' = "run"
      /\ Len(frames') = Len(frames) + 1 /\ \A i \in 1 .. Len(frames) : frames'[i] = frames[i]
      /\ NextBase(frames', ssp', Len(frames)) = base
  <2>1. BaseIs(f, q, base) /\ base \in Pointer \cup {Wild}
    BY <1>2, ConstantFacts DEF BaseIs
  <2>2. /\ Len(frames) >= 1 /\ frames \in Seq(Frames) /\ TypeOK /\ status = "run"
        /\ q \in Pointer \cup {Wild} /\ ssp \in Pointer \cup {Wild}
        /\ Linked(frames, shadow, ssp) /\ Enter(frames, f, slot, ra, q)
        /\ slot \in 0 .. StackWords - 1 /\ Frame[f] <= slot
    BY <1>1, <1>2, <1>3
  <2> HIDE DEF base, q, slot
  <2>3. EnterReady(frames, ssp, q, f, slot, ra, base)
    BY <2>1, <2>2, <1>4 DEF EnterReady
  <2> QED
    BY <2>3, EnterStep
<1>6. Depth >= 2 => NextBase(frames', ssp', Depth) = NextBase(frames, ssp, Depth)
  <2> HIDE DEF base
  <2> QED
    BY <1>2, <1>4, <1>5 DEF NextBase
<1>7. EnvLive'
  BY <1>1, <1>2, <1>5, <1>6, EnvKept
<1> QED
  BY <1>5, <1>7, Running

\* After its exit, the running function leaves the pointer it was entered
\* with; only a REG constructor leaves its entry behind.
LEMMA PoppedFacts ==
  ASSUME TypeOK, Linked(frames, shadow, ssp), Depth >= 2
  PROVE  /\ Popped \in Nat
         /\ ~LoadsR15(Top.fn) => Popped = Top.base
         /\ LoadsR15(Top.fn) => /\ Depth = 2 /\ Scheme = "REG" /\ Top.base = 0
                                /\ Top.slot <= StackWords - 3
                                /\ Popped = 0 \/ (Popped = 1 /\ Prolog(Top.fn))
         /\ 2 * Top.base + Top.slot <= StackWords - 1
         /\ Depth >= 3 \/ Scheme # "REG" => Popped = NextBase(frames, ssp, Depth - 1)
<1>1. /\ Top = frames[Depth] /\ Depth \in 2 .. Len(frames) /\ Top.base \in Nat
      /\ IF Prolog(Top.fn) THEN ssp = Top.base + 1 ELSE ssp = Top.base
  BY TopFacts
<1>2. /\ 2 * Top.base + Top.slot <= StackWords - 1
      /\ LoadsR15(Top.fn) => Depth = 2 /\ Top.base = 0 /\ Top.slot <= StackWords - 3
  BY <1>1 DEF Linked, Roomy
<1>3. ~LoadsR15(Top.fn) => Popped = Top.base
  BY <1>1 DEF Popped, Epilog, Prolog, LoadsR15
<1>4. LoadsR15(Top.fn) => Scheme = "REG" /\ (Popped = 0 \/ (Popped = 1 /\ Prolog(Top.fn)))
  BY <1>1, <1>2, ProgramAssumption DEF Popped, Epilog, Prolog, LoadsR15
<1>5. NextBase(frames, ssp, Depth - 1) = Top.base
  BY <1>1 DEF NextBase, Depth
<1>6. Popped \in Nat
  BY <1>1, <1>3, <1>4
<1> QED
  BY SMTT(40), <1>1, <1>2, <1>3, <1>4, <1>5, <1>6

LEMMA ReturnInv ==
  ASSUME IInv, TypeOK', Return
  PROVE  IInv'
<1>1. /\ TypeOK /\ Linked(frames, shadow, ssp) /\ EnvLive /\ status = "run"
      /\ Depth >= 2 /\ frames \in Seq(Frames) /\ Depth = Len(frames) /\ Depth \in Nat
      /\ ssp \in Int /\ Depth - 1 \in 1 .. Depth /\ Depth - 1 \in 1 .. Len(frames) /\ Depth - 1 \in Nat
  BY ConstantFacts DEF IInv, Return, TypeOK, Depth, Pointer, Wild
<1>2. /\ frames' = SubSeq(frames, 1, Depth - 1) /\ ssp' = Popped /\ KeepEnv(Depth - 1)
      /\ shadow' = shadow /\ status' = status
  BY DEF Return
<1>3. Popped \in Int /\ (Depth >= 3 \/ Scheme # "REG" => Popped = NextBase(frames, ssp, Depth - 1))
  BY <1>1, PoppedFacts
<1>4. Linked(SubSeq(frames, 1, Depth - 1), shadow, Popped)
  BY <1>1, <1>3, CutLinked
<1>5. Len(frames') = Depth - 1 /\ \A i \in 1 .. Depth - 1 : frames'[i] = frames[i]
  BY <1>1, <1>2, CutType
<1>6. Depth - 1 >= 2 => NextBase(frames', ssp', Depth - 1) = NextBase(frames, ssp, Depth - 1)
  <2>1. NextBase(frames', ssp', Depth - 1) = ssp'
    BY <1>1, <1>5 DEF NextBase
  <2> QED
    BY <2>1, <1>1, <1>2, <1>3
<1>7. EnvLive'
  BY <1>1, <1>2, <1>5, <1>6, EnvKept
<1> QED
  BY <1>1, <1>2, <1>4, <1>7, Running

LEMMA TailCallInv ==
  ASSUME Disciplined, IInv, TypeOK', NEW f \in Fns, TailCall(f)
  PROVE  IInv'
<1> DEFINE fs == SubSeq(frames, 1, Depth - 1)
           slot == Top.slot
           ra == Top.mem
           q == Popped
<1>1. /\ TypeOK /\ Linked(frames, shadow, ssp) /\ EnvLive /\ status = "run"
      /\ Depth >= 2 /\ frames \in Seq(Frames) /\ Depth = Len(frames) /\ Depth \in Nat
      /\ ssp \in Pointer \cup {Wild} /\ ssp \in Int
      /\ Depth - 1 \in 1 .. Depth /\ Depth - 1 \in 1 .. Len(frames) /\ Depth - 1 \in Nat
  BY ConstantFacts DEF IInv, TailCall, TypeOK, Depth, Pointer, Wild
<1>2. /\ Enter(fs, f, slot, ra, q) /\ KeepEnv(Depth - 1) /\ <<Top.fn, f>> \in TailCalls
      /\ slot - Frame[f] >= 0 /\ Top.mem = Top.ra
  BY DEF TailCall, Fits
<1>3. /\ Top \in Frames /\ Top = frames[Depth] /\ Top.ra \in Sites /\ Top.base \in Nat
      /\ Top.base >= FirstEntry /\ Depth \in 2 .. Len(frames)
      /\ Prolog(Top.fn) => shadow[Top.base] = [ra |-> Top.ra, sp |-> Top.slot]
      /\ IF Prolog(Top.fn) THEN ssp = Top.base + 1 ELSE ssp = Top.base
  BY <1>1, TopFacts
<1>4. Top.slot \in 0 .. StackWords - 1 /\ Top.slot \in Nat /\ Top.fn \in Fns
  BY <1>3, FrameFields, ConstantFacts
<1>5. /\ Popped \in Nat
      /\ ~LoadsR15(Top.fn) => Popped = Top.base
      /\ LoadsR15(Top.fn) => /\ Depth = 2 /\ Scheme = "REG" /\ Top.base = 0
                             /\ Top.slot <= StackWords - 3
                             /\ Popped = 0 \/ (Popped = 1 /\ Prolog(Top.fn))
      /\ 2 * Top.base + Top.slot <= StackWords - 1
      /\ Depth >= 3 \/ Scheme # "REG" => Popped = NextBase(frames, ssp, Depth - 1)
  BY <1>1, PoppedFacts
<1>6. ~LoadsR15(f)
  BY <1>2, <1>4 DEF Disciplined, LoadsR15
<1>7. /\ fs \in Seq(Frames) /\ Len(fs) = Depth - 1 /\ \A i \in 1 .. Depth - 1 : fs[i] = frames[i]
  BY <1>1, CutType
<1>8. Linked(fs, shadow, q)
  BY <1>1, <1>5, CutLinked
<1>9. q \in Pointer
  <2>1. Popped <= ssp
    <3>1. CASE LoadsR15(Top.fn)
      BY <3>1, <1>1, <1>3, <1>5
    <3>2. CASE ~LoadsR15(Top.fn)
      BY <3>2, <1>1, <1>3, <1>5
    <3> QED
      BY <3>1, <3>2
  <2> QED
    BY <2>1, <1>1, <1>5, ConstantFacts DEF Pointer, Wild
<1>10. BaseIs(f, q, q) /\ q >= FirstEntry
  BY <1>3, <1>5, <1>6 DEF BaseIs, FirstEntry
<1>11. 2 * q + slot <= StackWords - 1
  BY <1>4, <1>5, ConstantFacts
<1>12. \A i \in 2 .. Len(fs) : slot < fs[i].slot - Frame[fs[i].fn]
  <2> SUFFICES ASSUME NEW i \in 2 .. Depth - 1 PROVE Top.slot < frames[i].slot - Frame[frames[i].fn]
    BY <1>1, <1>7
  <2>1. i \in 2 .. Len(frames) /\ Depth \in i + 1 .. Len(frames)
    BY <1>1
  <2> QED
    BY <2>1, <1>1, <1>3 DEF Linked, Ordered
<1>13. ASSUME Scheme = "REG" PROVE Beneath(shadow, q, slot)
  <2>1. Beneath(shadow, Top.base, Top.slot)
    BY <1>13, <1>1, <1>3 DEF Linked, Walkable
  <2>2. CASE Popped = Top.base
    BY <2>1, <2>2
  <2>3. CASE Popped = 1 /\ Top.base = 0 /\ Prolog(Top.fn)
    BY <2>3, <1>3, <1>4, ConstantFacts, ProgramAssumption DEF Beneath, Index
  <2> QED
    BY <2>2, <2>3, <1>5
<1>14. ra \in Sites /\ slot \in 0 .. StackWords - 1 /\ Frame[f] <= slot /\ Frame[f] \in Nat
  BY <1>2, <1>3, <1>4, ConstantFacts
<1>15. Len(fs) >= 1
  BY <1>1, <1>7
<1> HIDE DEF fs, slot, ra, q
<1>16. /\ Linked(frames, shadow, ssp)' /\ status' = "run"
       /\ Len(frames') = Len(fs) + 1 /\ \A i \in 1 .. Len(fs) : frames'[i] = fs[i]
       /\ NextBase(frames', ssp', Len(fs)) = q
  <2>1. q \in Pointer \cup {Wild}
    BY <1>9
  <2>2. EnterReady(fs, q, q, f, slot, ra, q)
    BY <2>1, <1>1, <1>2, <1>4, <1>6, <1>8, <1>7, <1>10, <1>11, <1>12, <1>13, <1>14, <1>15 DEF EnterReady
  <2> QED
    BY <2>2, EnterStep
<1>17. EnvLive'
  <2>1. Depth - 1 >= 2 => NextBase(frames', ssp', Depth - 1) = NextBase(frames, ssp, Depth - 1)
    BY <1>1, <1>5, <1>7, <1>16 DEF q
  <2> QED
    BY SMTT(40), <2>1, <1>1, <1>2, <1>7, <1>16, EnvKept
<1> QED
  BY <1>16, <1>17, Running

LEMMA EscapeInv ==
  ASSUME IInv, TypeOK', Escape
  PROVE  IInv'
<1>1. /\ TypeOK /\ Linked(frames, shadow, ssp) /\ EnvLive /\ Depth >= 2
      /\ Checked /\ Top.mem # Top.ra /\ status' = "escaped"
      /\ frames' = frames /\ shadow' = shadow /\ ssp' = ssp /\ env' = env
  BY DEF IInv, Escape, TypeOK, Depth
<1>2. ~Epilog(Top.fn)
  <2> SUFFICES ASSUME Epilog(Top.fn) PROVE FALSE
    OBVIOUS
  <2>1. ssp - 1 = Top.base /\ shadow[Top.base] = [ra |-> Top.ra, sp |-> Top.slot]
    BY <1>1, TopFacts DEF Epilog, Prolog
  <2>2. shadow[ssp - 1].ra = Top.mem
    BY <1>1 DEF Checked
  <2> QED
    BY <2>1, <2>2, <1>1
<1>3. Top' = Top
  BY <1>1 DEF Top, Depth
<1>4. Linked(frames, shadow, ssp)' /\ EnvLive'
  BY <1>1 DEF EnvLive, Rsp, PtrAt, Depth
<1> QED
  BY <1>1, <1>2, <1>3, <1>4 DEF IInv, SafeReturn, NoSpuriousTrap, NoBlindAccess, JumpTrapExact

LEMMA EpilogTrapInv ==
  ASSUME IInv, TypeOK', EpilogTrap
  PROVE  IInv'
<1>1. /\ TypeOK /\ Linked(frames, shadow, ssp) /\ EnvLive /\ Depth >= 2 /\ ~Checked
      /\ frames' = frames /\ shadow' = shadow /\ ssp' = ssp /\ env' = env
      /\ status' = IF ssp - 1 \in Index THEN "trap" ELSE "wildload"
  BY DEF IInv, EpilogTrap, TypeOK, Depth
<1>2. Epilog(Top.fn)
  BY <1>1 DEF Checked
<1>3. /\ ssp - 1 = Top.base /\ Top.base \in Index
      /\ shadow[Top.base] = [ra |-> Top.ra, sp |-> Top.slot]
  BY <1>1, <1>2, TopFacts DEF Epilog, Prolog
<1>4. Top.mem # Top.ra
  BY <1>1, <1>3 DEF Checked
<1>5. status' = "trap" /\ Top' = Top
  BY <1>1, <1>3 DEF Top, Depth
<1>6. Linked(frames, shadow, ssp)' /\ EnvLive'
  BY <1>1 DEF EnvLive, Rsp, PtrAt, Depth
<1> QED
  BY <1>4, <1>5, <1>6 DEF IInv, SafeReturn, NoSpuriousTrap, NoBlindAccess, JumpTrapExact

LEMMA ExitInv ==
  ASSUME IInv, TypeOK', Exit
  PROVE  IInv'
<1>1. /\ TypeOK /\ Linked(frames, shadow, ssp) /\ status = "run" /\ status' = status
      /\ Depth >= 2 /\ env' = NoEnv /\ ssp' = ssp
      /\ frames' = <<CrtFrame(Rsp(Depth) - 1)>>
      /\ Depth \in 1 .. Depth
  BY DEF IInv, Exit, TypeOK, Depth
<1>2. Len(frames') = 1 /\ frames'[1].slot = Rsp(Depth) - 1
  BY <1>1 DEF CrtFrame
<1>3. /\ Top \in Frames /\ Top = frames[Depth] /\ Depth \in 2 .. Len(frames)
      /\ Top.base \in Nat /\ Top.base >= FirstEntry
      /\ IF Prolog(Top.fn) THEN ssp = Top.base + 1 ELSE ssp = Top.base
  BY <1>1, TopFacts
<1>4. ssp \in Int /\ ssp >= FirstEntry /\ (ssp = Top.base \/ ssp = Top.base + 1)
  BY <1>3, ConstantFacts
<1>5. 2 * ssp + (Rsp(Depth) - 1) <= StackWords - 1
  <2>1. 2 * Top.base + Top.slot <= StackWords - 1
    BY <1>1, <1>3 DEF Linked, Roomy
  <2>2. /\ Top.slot \in Int /\ Rsp(Depth) - 1 \in Int /\ Rsp(Depth) - 1 <= Top.slot - 2
        /\ StackWords - 1 \in Int
    BY SMTT(40), <1>3, FrameFields, ConstantFacts DEF Rsp
  <2> QED
    BY SMTT(40), <2>1, <2>2, <1>3, <1>4, RoomArithmetic
<1>6. Rsp(Depth) - 1 \in Int
  BY <1>1, FrameFacts
<1>7. NextBase(frames', ssp', 1) = ssp
  BY <1>1, <1>2 DEF NextBase
<1>8. Roomy(frames', ssp')
  <2>1. 2 * ssp + frames'[1].slot <= StackWords + 1
    BY <1>2, <1>4, <1>5, <1>6, ConstantFacts
  <2> QED
    BY <2>1, <1>2, <1>4, <1>7 DEF Roomy
<1>9. Linked(frames, shadow, ssp)'
  BY <1>2, <1>8 DEF Linked, Owns, Ordered, Walkable
<1>10. EnvLive'
  BY <1>1 DEF EnvLive
<1> QED
  BY <1>1, <1>9, <1>10, Running

LEMMA StrayStoreInv ==
  ASSUME IInv, TypeOK', NEW i \in 2 .. Depth, NEW v \in Sites, StrayStore(i, v)
  PROVE  IInv'
<1>1. /\ TypeOK /\ Linked(frames, shadow, ssp) /\ EnvLive /\ status = "run" /\ status' = status
      /\ shadow' = shadow /\ ssp' = ssp /\ env' = env
      /\ frames' = [frames EXCEPT ![i].mem = v]
      /\ frames \in Seq(Frames)
  BY DEF IInv, StrayStore, TypeOK
<1>2. \A j \in 1 .. Len(frames) : frames[j] \in Frames
  BY <1>1
<1>3. /\ Len(frames') = Len(frames)
      /\ \A j \in 1 .. Len(frames) :
           /\ frames'[j].fn = frames[j].fn /\ frames'[j].slot = frames[j].slot
           /\ frames'[j].ra = frames[j].ra /\ frames'[j].base = frames[j].base
  BY <1>1, <1>2 DEF Frames
<1>4. /\ Len(frames) \in Nat /\ Len(frames) >= 1
      /\ \A j \in 1 .. Len(frames) : After(frames'[j]) = After(frames[j])
      /\ \A j \in 1 .. Len(frames) : NextBase(frames', ssp, j) = NextBase(frames, ssp, j)
  BY <1>1, <1>3 DEF After, NextBase, TypeOK, Depth
<1> DEFINE fs == frames'
<1>5. /\ fs = frames' /\ Len(fs) = Len(frames)
      /\ \A j \in 2 .. Len(frames) :
           /\ fs[j].fn = frames[j].fn /\ fs[j].slot = frames[j].slot
           /\ fs[j].ra = frames[j].ra /\ fs[j].base = frames[j].base
           /\ After(fs[j]) = After(frames[j])
           /\ NextBase(fs, ssp, j) = NextBase(frames, ssp, j)
      /\ fs[1].slot = frames[1].slot
      /\ NextBase(fs, ssp, 1) = NextBase(frames, ssp, 1)
  BY <1>3, <1>4
<1> HIDE DEF fs
<1>6. Owns(fs, shadow, ssp)
  <2> SUFFICES ASSUME NEW j \in 2 .. Len(frames)
               PROVE  /\ fs[j].ra \in Sites
                      /\ fs[j].base >= FirstEntry
                      /\ NextBase(fs, ssp, j) = After(fs[j])
                      /\ Prolog(fs[j].fn) =>
                           /\ fs[j].base \in Index
                           /\ shadow[fs[j].base] = [ra |-> fs[j].ra, sp |-> fs[j].slot]
    BY <1>5 DEF Owns
  <2> QED
    BY <1>1, <1>5 DEF Linked, Owns
<1>7. Ordered(fs, ssp)
  <2>1. ASSUME NEW j \in 2 .. Len(frames) PROVE After(fs[j]) <= ssp
    BY <1>1, <1>5 DEF Linked, Ordered
  <2>2. ASSUME NEW j \in 2 .. Len(frames), NEW k \in j + 1 .. Len(frames)
        PROVE  After(fs[j]) <= fs[k].base /\ fs[k].slot < fs[j].slot - Frame[fs[j].fn]
    <3>1. After(frames[j]) <= frames[k].base /\ frames[k].slot < frames[j].slot - Frame[frames[j].fn]
      BY <1>1 DEF Linked, Ordered
    <3>2. k \in 2 .. Len(frames)
      BY <1>4
    <3> QED
      BY <3>1, <3>2, <1>5
  <2> QED
    BY <1>5, <2>1, <2>2 DEF Ordered
<1>8. Roomy(fs, ssp)
  <2>1. ASSUME NEW j \in 2 .. Len(frames)
        PROVE  /\ 2 * fs[j].base + fs[j].slot <= StackWords - 1
               /\ LoadsR15(fs[j].fn) => j = 2 /\ fs[j].base = 0 /\ fs[j].slot <= StackWords - 3
    BY <1>1, <1>5 DEF Linked, Roomy
  <2>2. Scheme # "REG" => /\ NextBase(fs, ssp, 1) >= FirstEntry
                          /\ 2 * NextBase(fs, ssp, 1) + fs[1].slot <= StackWords + 1
    BY <1>1, <1>5 DEF Linked, Roomy
  <2> QED
    BY <1>5, <2>1, <2>2 DEF Roomy
<1>9. Walkable(fs, shadow, ssp)
  <2> SUFFICES ASSUME Scheme = "REG", NEW j \in 2 .. Len(frames)
               PROVE  /\ Beneath(shadow, fs[j].base, fs[j].slot)
                      /\ After(fs[j]) < ssp =>
                           /\ After(fs[j]) \in Index
                           /\ shadow[After(fs[j])].ra # Null
                           /\ shadow[After(fs[j])].sp < fs[j].slot - Frame[fs[j].fn]
    BY <1>5 DEF Walkable
  <2> QED
    BY <1>1, <1>5 DEF Linked, Walkable
<1>10. Linked(frames, shadow, ssp)'
  BY <1>1, <1>5, <1>6, <1>7, <1>8, <1>9 DEF Linked
<1>11. EnvLive'
  <2>1. CASE env = NoEnv
    BY <2>1, <1>1 DEF EnvLive
  <2>2. CASE env # NoEnv
    <3>1. /\ Scheme = "REG" /\ env.depth \in 2 .. Len(frames)
          /\ env.rsp = frames[env.depth].slot - Frame[frames[env.depth].fn]
          /\ env.r15 = NextBase(frames, ssp, env.depth)
      BY <2>2, <1>1 DEF EnvLive, Rsp, PtrAt, Depth
    <3>2. /\ env.rsp = frames'[env.depth].slot - Frame[frames'[env.depth].fn]
          /\ env.r15 = NextBase(frames', ssp, env.depth)
      BY <3>1, <1>5
    <3> QED
      BY <3>1, <3>2, <1>1, <1>3 DEF EnvLive, Rsp, PtrAt, Depth
  <2> QED
    BY <2>1, <2>2
<1> QED
  BY <1>1, <1>10, <1>11, Running

LEMMA SetJmpInv ==
  ASSUME Disciplined, IInv, TypeOK', SetJmp
  PROVE  IInv'
<1>1. /\ TypeOK /\ Linked(frames, shadow, ssp) /\ status = "run" /\ status' = status
      /\ Depth >= 2 /\ Depth \in Nat /\ frames' = frames /\ shadow' = shadow /\ ssp' = ssp
      /\ env' = [depth |-> Depth, rsp |-> Rsp(Depth), r15 |-> ssp]
      /\ Scheme = "REG"
  BY DEF IInv, SetJmp, TypeOK, Depth, Disciplined
<1>2. NextBase(frames, ssp, Depth) = ssp
  BY <1>1 DEF NextBase, Depth
<1>3. EnvLive'
  BY <1>1, <1>2 DEF EnvLive, Rsp, PtrAt, Depth
<1> QED
  BY <1>1, <1>3, Running

LEMMA LongJmpInv ==
  ASSUME IInv, TypeOK', LongJmp
  PROVE  IInv'
<1>1. /\ TypeOK /\ Linked(frames, shadow, ssp) /\ status = "run" /\ frames \in Seq(Frames)
      /\ Depth = Len(frames) /\ Depth \in Nat /\ shadow' = shadow /\ env' = env /\ env # NoEnv
      /\ Top.fn # Raise /\ ssp \in Int
  BY ConstantFacts DEF IInv, LongJmp, TypeOK, Depth, Pointer, Wild
<1>2. /\ Scheme = "REG" /\ env.depth \in 2 .. Depth /\ env.rsp = Rsp(env.depth)
      /\ env.r15 = NextBase(frames, ssp, env.depth) /\ env.r15 \in Int
  BY <1>1, ConstantFacts DEF IInv, EnvLive, PtrAt, TypeOK, Pointer, Wild
<1> DEFINE n == env.depth
<1>3. CASE status' = status /\ frames' = SubSeq(frames, 1, n) /\ ssp' = env.r15
  <2>1. n \in 1 .. Len(frames) /\ n \in 1 .. Depth /\ n \in Nat /\ n >= 2 /\ n <= Depth
    BY <1>1, <1>2
  <2>2. Linked(SubSeq(frames, 1, n), shadow, env.r15)
    BY <2>1, <1>1, <1>2, CutLinked
  <2>3. Len(frames') = n /\ \A i \in 1 .. n : frames'[i] = frames[i]
    BY <2>1, <1>1, <1>3, CutType
  <2>4. NextBase(frames', ssp', n) = NextBase(frames, ssp, n)
    BY <2>1, <2>3, <1>2, <1>3 DEF NextBase
  <2>5. EnvLive'
    <3>1. Rsp(n)' = Rsp(n)
      BY <2>1, <2>3, <1>1 DEF Rsp
    <3>2. Depth' = n
      BY <2>3 DEF Depth
    <3> QED
      BY <2>1, <2>3, <2>4, <3>1, <3>2, <1>1, <1>2 DEF EnvLive, PtrAt
  <2> QED
    BY <2>2, <2>5, <1>1, <1>3, Running
<1>4. CASE /\ status' \in {"int3", "segv"} /\ frames' = frames /\ ssp' = ssp
           /\ \/ WalkFails(1, env.rsp)
              \/ \E w \in Index : WalkEnd(1, env.rsp, w) /\ shadow[w].ra = Null
  <2>1. ASSUME NEW i \in n + 1 .. Depth, Prolog(frames[i].fn) PROVE frames[i].base = 0
    <3> SUFFICES ASSUME frames[i].base # 0 PROVE FALSE
      OBVIOUS
    <3> DEFINE b == frames[i].base
    <3>1. i \in 2 .. Len(frames) /\ n \in 2 .. Len(frames) /\ i \in n + 1 .. Len(frames)
      BY <1>1, <1>2
    <3>2. /\ b \in Index /\ shadow[b] = [ra |-> frames[i].ra, sp |-> frames[i].slot]
          /\ frames[i].ra \in Sites
      BY <2>1, <3>1, <1>1 DEF Linked, Owns
    <3>3. b \in 1 .. ShadowLen - 1 /\ b \in Int
      BY <3>2, ConstantFacts DEF Index
    <3>4. frames[i].slot < env.rsp
      BY <3>1, <1>1, <1>2 DEF Linked, Ordered, Rsp
    <3>5. shadow[b].ra # Null /\ shadow[b].sp < env.rsp
      BY <3>2, <3>4, ProgramAssumption
    <3>6. shadow[b].sp \in Int /\ env.rsp \in Int
      BY <3>2, <1>1, <1>2, FrameFacts DEF TypeOK, Entries
    <3>7. Stops(b, env.rsp)
      BY <3>5, <3>6 DEF Stops
    <3>8. PICK w \in Index : WalkEnd(1, env.rsp, w) /\ shadow[w].ra = Null
      BY <3>3, <3>7, <1>4 DEF WalkFails
    <3>9. w \in Int /\ w <= b
      BY <3>3, <3>7, <3>8, ConstantFacts DEF WalkEnd, Index
    <3>10. w # b
      BY <3>5, <3>8
    <3>11. w < b
      BY <3>3, <3>9, <3>10
    <3>12. Beneath(shadow, b, frames[i].slot)
      BY <3>1, <1>1, <1>2 DEF Linked, Walkable
    <3> QED
      BY <3>8, <3>11, <3>12 DEF Beneath
  <2>2. Top' = Top /\ Depth' = Depth
    BY <1>4 DEF Top, Depth
  <2>3. JumpTrapExact'
    BY <2>1, <2>2, <1>1, <1>4 DEF JumpTrapExact
  <2>4. Linked(frames, shadow, ssp)' /\ EnvLive'
    BY <1>1, <1>4 DEF IInv, EnvLive, Rsp, PtrAt, Depth
  <2> QED
    BY <2>3, <2>4, <1>4 DEF IInv, SafeReturn, NoSpuriousTrap, NoBlindAccess
<1> QED
  BY <1>2, <1>3, <1>4 DEF LongJmp

LEMMA UnwindInv ==
  ASSUME Disciplined, IInv, TypeOK', NEW i \in 2 .. Depth, Unwind(i)
  PROVE  IInv'
<1>1. /\ TypeOK /\ Linked(frames, shadow, ssp) /\ EnvLive /\ status = "run"
      /\ frames \in Seq(Frames) /\ Depth = Len(frames) /\ Depth \in Nat /\ Depth >= 2
      /\ i \in 2 .. Len(frames) /\ Depth \in i + 1 .. Len(frames) /\ i \in 1 .. Depth
      /\ i \in Nat /\ i <= Depth
      /\ shadow' = shadow /\ ssp \in Int /\ Top.fn = Raise
  BY SMTT(40), ConstantFacts DEF IInv, Unwind, TypeOK, Depth, Pointer, Wild
<1>2. Scheme = "REG" /\ Prolog(Raise)
  BY DEF Disciplined, Unwind
<1> DEFINE x == frames[i]
           p == After(x)
<1>3. x \in Frames /\ x.slot \in Nat /\ x.base \in Int /\ p \in Int /\ Frame[x.fn] \in Nat
      /\ Frame[x.fn] >= 1 /\ (p = x.base \/ p = x.base + 1)
  BY <1>1, FrameFields
<1>4. /\ x.ra \in Sites /\ x.base >= 0 /\ NextBase(frames, ssp, i) = p
      /\ Prolog(x.fn) => shadow[x.base] = [ra |-> x.ra, sp |-> x.slot]
  BY <1>1, <1>2 DEF Linked, Owns, FirstEntry
<1>5. p < ssp
  <2>1. ssp = Top.base + 1 /\ Top = frames[Depth] /\ Top.base \in Nat
    BY <1>1, <1>2, TopFacts
  <2>2. p <= frames[Depth].base
    BY <1>1 DEF Linked, Ordered
  <2> QED
    BY <2>1, <2>2, <1>3
<1>6. p \in Index /\ shadow[p].ra # Null /\ shadow[p].sp < Rsp(i)
  BY <1>1, <1>2, <1>5 DEF Linked, Walkable, Rsp
<1>7. Stops(p, Rsp(i))
  <2>1. shadow[p].sp \in Int /\ Rsp(i) \in Int
    BY <1>1, <1>6, FrameFacts DEF TypeOK, Entries
  <2> QED
    BY <2>1, <1>6 DEF Stops
<1>8. ASSUME NEW k \in Index, k < p PROVE ~Stops(k, Rsp(i))
  <2>1. k \in Int /\ shadow[k].sp \in Int /\ Rsp(i) < x.slot /\ Rsp(i) \in Int
    <3>1. shadow[k] \in Entries
      BY <1>1 DEF TypeOK
    <3>2. shadow[k].sp \in Int
      BY <3>1 DEF Entries
    <3>3. Rsp(i) = x.slot - Frame[x.fn]
      BY DEF Rsp
    <3>4. k \in Int
      BY ConstantFacts DEF Index
    <3> HIDE DEF x
    <3> QED
      BY <3>2, <3>3, <3>4, <1>3
  <2>2. shadow[k].ra # Null /\ shadow[k].sp >= x.slot
    <3>1. CASE k < x.base
      BY <3>1, <1>1, <1>2 DEF Linked, Walkable, Beneath
    <3>2. CASE k = x.base
      <4>1. Prolog(x.fn)
        BY <3>2, <1>8, <1>3 DEF After, Width
      <4> QED
        BY <4>1, <3>2, <1>3, <1>4, ProgramAssumption
    <3> QED
      BY <3>1, <3>2, <2>1, <1>8, <1>3
  <2> QED
    BY <2>1, <2>2, <1>3 DEF Stops
<1> HIDE DEF p
<1>9. ~WalkFails(0, Rsp(i))
  BY <1>6, <1>7 DEF WalkFails, Index
<1>10. ASSUME NEW w \in Index, WalkEnd(0, Rsp(i), w) PROVE w = p
  <2>1. w \in Int /\ Stops(w, Rsp(i)) /\ \A k \in 0 .. w - 1 : ~Stops(k, Rsp(i))
    BY <1>10, ConstantFacts DEF WalkEnd, Index
  <2>2. ~(w < p)
    BY <2>1, <1>8
  <2>3. ~(p < w)
    BY <2>1, <1>6, <1>7, <1>3, ConstantFacts DEF Index
  <2> QED
    BY <2>1, <2>2, <2>3, <1>3
<1>11. frames' = SubSeq(frames, 1, i) /\ ssp' = p /\ KeepEnv(i) /\ status' = status
  BY <1>2, <1>6, <1>9, <1>10 DEF Unwind
<1>12. Linked(SubSeq(frames, 1, i), shadow, p)
  BY <1>1, <1>3, <1>4, CutLinked
<1>13. Len(frames') = i /\ \A j \in 1 .. i : frames'[j] = frames[j]
  BY <1>1, <1>11, CutType
<1>14. NextBase(frames', ssp', i) = NextBase(frames, ssp, i)
  BY <1>1, <1>4, <1>11, <1>13 DEF NextBase
<1>15. EnvLive'
  BY <1>1, <1>11, <1>13, <1>14, EnvKept
<1> QED
  BY <1>1, <1>11, <1>12, <1>15, Running

LEMMA InvNext ==
  ASSUME Disciplined, IInv, [Next]_vars
  PROVE  IInv'
<1>1. TypeOK'
  BY TypeNext DEF IInv
<1>2. CASE Finish
  <2>1. /\ Linked(frames, shadow, ssp)' /\ EnvLive' /\ status' = "done"
    BY <1>2 DEF Finish, IInv, EnvLive, Rsp, PtrAt, Depth
  <2> QED
    BY <1>1, <2>1, Running
<1>3. CASE UNCHANGED vars
  BY <1>3 DEF vars, IInv, TypeOK, EnvLive, Rsp, PtrAt, Depth, SafeReturn, NoSpuriousTrap,
              NoBlindAccess, JumpTrapExact, Top
<1> QED
  BY <1>1, <1>2, <1>3, CallInv, ReturnInv, EscapeInv, EpilogTrapInv, TailCallInv, ExitInv,
     StrayStoreInv, SetJmpInv, LongJmpInv, UnwindInv DEF Next

-----------------------------------------------------------------------------
(* The theorems. *)

\* The invariant the other theorems rest on: every entry of the shadow stack is
\* accounted for by a live activation, with room for the rest of the stack,
\* and the walks of longjmp and of the unwinder find what they look for.
THEOREM Invariance == ASSUME Disciplined PROVE Spec => []IInv
<1>1. Init => IInv
  BY InvInit
<1>2. IInv /\ [Next]_vars => IInv'
  BY InvNext
<1> QED
  BY <1>1, <1>2, PTL DEF Spec

\* Every live instrumented frame owns one shadow entry and the pointer is one
\* past the newest, through calls, tail calls, longjmp and exceptions.
THEOREM SyncHolds == ASSUME Disciplined PROVE Spec => []ShadowSync
<1>1. IInv => ShadowSync
  BY DEF IInv, ShadowSync, Linked, Owns, PtrAt, After, Depth
<1> QED
  BY <1>1, Invariance, PTL

\* No instrumented activation that ends in an epilog is left through an
\* altered return address, whatever is stored on the stack.
THEOREM SafeReturnHolds == ASSUME Disciplined PROVE Spec => []SafeReturn
<1>1. IInv => SafeReturn
  BY DEF IInv
<1> QED
  BY <1>1, Invariance, PTL

\* No epilog stops a program whose return address is unaltered.
THEOREM NoSpuriousTrapHolds == ASSUME Disciplined PROVE Spec => []NoSpuriousTrap
<1>1. IInv => NoSpuriousTrap
  BY DEF IInv
<1> QED
  BY <1>1, Invariance, PTL

\* The shadow stack never overflows before the stack does, and no instrumented
\* sequence uses a pointer that is not the shadow stack pointer.
THEOREM NoBlindAccessHolds == ASSUME Disciplined PROVE Spec => []NoBlindAccess
<1>1. IInv => NoBlindAccess
  BY DEF IInv
<1> QED
  BY <1>1, Invariance, PTL

\* longjmp stops the program only when the jump discards no instrumented frame
\* but the one of entry 0, and an instrumented unwinder never does.
THEOREM JumpTrapExactHolds == ASSUME Disciplined PROVE Spec => []JumpTrapExact
<1>1. IInv => JumpTrapExact
  BY DEF IInv
<1> QED
  BY <1>1, Invariance, PTL

-----------------------------------------------------------------------------
(* Refinement: each step is a step of ReturnGuard, or stutters. *)

ActSet == [guarded : BOOLEAN, ra : Sites \cup {Null}, mem : Sites \cup {Null}]

\* The activations of a sequence of frames.
LEMMA ActsFacts ==
  ASSUME NEW fs \in Seq(Frames), Len(fs) >= 1
  PROVE  /\ ActsOf(fs) \in Seq(ActSet) /\ Len(ActsOf(fs)) = Len(fs) - 1 /\ Len(fs) - 1 \in Nat
         /\ \A i \in 1 .. Len(fs) - 1 : ActsOf(fs)[i] = ActOf(fs[i + 1])
<1>1. Len(fs) - 1 \in Nat
  OBVIOUS
<1>2. \A x \in Frames : ActOf(x) \in ActSet
  BY DEF ActOf, ActSet, Frames, Epilog
<1>3. \A i \in 1 .. Len(fs) - 1 : fs[i + 1] \in Frames
  BY <1>1
<1> QED
  BY <1>1, <1>2, <1>3 DEF ActsOf

\* Discarding frames discards their activations.
LEMMA CutActs ==
  ASSUME NEW fs \in Seq(Frames), NEW n \in 1 .. Len(fs)
  PROVE  ActsOf(SubSeq(fs, 1, n)) = SubSeq(ActsOf(fs), 1, n - 1)
<1> DEFINE gs == SubSeq(fs, 1, n)
           s == ActsOf(gs)
           t == SubSeq(ActsOf(fs), 1, n - 1)
<1>1. gs \in Seq(Frames) /\ Len(gs) = n /\ \A i \in 1 .. n : gs[i] = fs[i]
  BY SubSeqProperties
<1>2. /\ ActsOf(fs) \in Seq(ActSet) /\ Len(ActsOf(fs)) = Len(fs) - 1 /\ n \in Nat
      /\ \A i \in 1 .. Len(fs) - 1 : ActsOf(fs)[i] = ActOf(fs[i + 1])
  BY ActsFacts
<1>3. /\ s \in Seq(ActSet) /\ Len(s) = n - 1
      /\ \A i \in 1 .. n - 1 : s[i] = ActOf(gs[i + 1])
  <2>1. gs \in Seq(Frames) /\ Len(gs) = n /\ Len(gs) >= 1
    BY <1>1, <1>2
  <2> HIDE DEF gs
  <2>2. /\ ActsOf(gs) \in Seq(ActSet) /\ Len(ActsOf(gs)) = Len(gs) - 1
        /\ \A i \in 1 .. Len(gs) - 1 : ActsOf(gs)[i] = ActOf(gs[i + 1])
    BY <2>1, ActsFacts
  <2> QED
    BY <2>1, <2>2
<1>4. /\ t \in Seq(ActSet) /\ Len(t) = n - 1
      /\ \A i \in 1 .. n - 1 : t[i] = ActsOf(fs)[i]
  <2> DEFINE u == ActsOf(fs)
             m == n - 1
  <2>1. u \in Seq(ActSet) /\ m \in 0 .. Len(u)
    BY <1>2
  <2> HIDE DEF u
  <2>2. SubSeq(u, 1, m) \in Seq(ActSet) /\ Len(SubSeq(u, 1, m)) = m
        /\ \A i \in 1 .. m : SubSeq(u, 1, m)[i] = u[i]
    BY <2>1, SubSeqProperties
  <2> QED
    BY <2>2 DEF u
<1> HIDE DEF gs, s, t
<1>5. ASSUME NEW i \in 1 .. n - 1 PROVE s[i] = t[i]
  <2>1. i \in 1 .. Len(fs) - 1 /\ i + 1 \in 1 .. n
    BY <1>2
  <2> QED
    BY <2>1, <1>1, <1>2, <1>3, <1>4
<1>6. s = t
  BY <1>3, <1>4, <1>5, SeqEqual
<1> QED
  BY <1>6 DEF s, t, gs

\* A new frame is a new activation.
LEMMA PushActs ==
  ASSUME NEW fs \in Seq(Frames), Len(fs) >= 1, NEW r \in Frames
  PROVE  ActsOf(Append(fs, r)) = Append(ActsOf(fs), ActOf(r))
<1> DEFINE gs == Append(fs, r)
           s == ActsOf(gs)
           u == ActsOf(fs)
           t == Append(u, ActOf(r))
           n == Len(fs)
<1>1. /\ gs \in Seq(Frames) /\ Len(gs) = n + 1 /\ gs[n + 1] = r
      /\ \A i \in 1 .. n : gs[i] = fs[i]
  BY AppendProperties
<1>2. /\ u \in Seq(ActSet) /\ Len(u) = n - 1 /\ n \in Nat /\ n >= 1
      /\ \A i \in 1 .. n - 1 : u[i] = ActOf(fs[i + 1])
  BY ActsFacts
<1>3. /\ s \in Seq(ActSet) /\ Len(s) = n
      /\ \A i \in 1 .. n : s[i] = ActOf(gs[i + 1])
  <2>1. gs \in Seq(Frames) /\ Len(gs) >= 1 /\ Len(gs) - 1 = n
    BY <1>1, <1>2
  <2> HIDE DEF gs
  <2>2. /\ ActsOf(gs) \in Seq(ActSet) /\ Len(ActsOf(gs)) = Len(gs) - 1
        /\ \A i \in 1 .. Len(gs) - 1 : ActsOf(gs)[i] = ActOf(gs[i + 1])
    BY <2>1, ActsFacts
  <2> QED
    BY <2>1, <2>2
<1>4. ActOf(r) \in ActSet
  BY DEF ActOf, ActSet, Frames, Epilog
<1>5. /\ t \in Seq(ActSet) /\ Len(t) = n /\ t[n] = ActOf(r)
      /\ \A i \in 1 .. n - 1 : t[i] = u[i]
  <2> HIDE DEF u
  <2> QED
    BY <1>2, <1>4, AppendProperties
<1> HIDE DEF gs, s, t, u
<1>6. ASSUME NEW i \in 1 .. n PROVE s[i] = t[i]
  <2>1. CASE i = n
    BY <2>1, <1>1, <1>2, <1>3, <1>5
  <2>2. CASE i # n
    <3>1. i \in 1 .. n - 1 /\ i + 1 \in 1 .. n
      BY <2>2, <1>2
    <3> QED
      BY <3>1, <1>1, <1>2, <1>3, <1>5
  <2> QED
    BY <2>1, <2>2
<1>7. s = t
  BY <1>3, <1>5, <1>6, SeqEqual
<1> QED
  BY <1>7 DEF s, t, gs, u

\* The running function's activation is the newest.
LEMMA NewestFacts ==
  ASSUME TypeOK, Depth >= 2
  PROVE  /\ Activations # << >> /\ Guard!Newest = ActOf(Top) /\ Len(Activations) = Depth - 1
         /\ Activations[Len(Activations)] = ActOf(Top)
         /\ Guard!Intact(Guard!Newest) <=> Top.mem = Top.ra
         /\ Guard!Newest.guarded = Epilog(Top.fn)
<1>1. /\ Activations \in Seq(ActSet) /\ Len(Activations) = Depth - 1 /\ Depth \in Nat
      /\ \A i \in 1 .. Depth - 1 : Activations[i] = ActOf(frames[i + 1])
  BY ActsFacts DEF TypeOK, Depth, Activations
<1>2. Depth - 1 \in 1 .. Depth - 1 /\ (Depth - 1) + 1 = Depth
  BY <1>1
<1>3. Activations[Depth - 1] = ActOf(Top)
  BY <1>1, <1>2 DEF Top
<1>4. Guard!Newest = ActOf(Top)
  BY <1>1, <1>3 DEF Guard!Newest
<1>5. Activations # << >>
  BY <1>1, <1>2
<1> QED
  BY <1>1, <1>3, <1>4, <1>5 DEF Guard!Intact, ActOf

LEMMA GuardInitHolds == Init => Guard!GuardInit
<1> SUFFICES ASSUME Init PROVE Guard!GuardInit
  OBVIOUS
<1>1. frames \in Seq(Frames) /\ Len(frames) = 1
  BY TypeInit DEF Init, TypeOK
<1>2. Len(Activations) = 0 /\ Activations \in Seq(ActSet)
  BY <1>1, ActsFacts DEF Activations
<1>3. Activations = << >>
  <2>1. \A t \in Seq(ActSet) : t # << >> => Len(t) \in Nat \ {0}
    BY EmptySeq, Zenon
  <2> QED
    BY <1>2, <2>1
<1>4. Outcome = "run"
  BY DEF Init, Outcome
<1> QED
  BY <1>3, <1>4 DEF Guard!GuardInit

\* Dropping to the first n frames is a Discard.
LEMMA GuardDiscard ==
  ASSUME TypeOK, NEW n \in 1 .. Depth, frames' = SubSeq(frames, 1, n),
         status = "run", status' = "run"
  PROVE  Guard!GuardNext
<1>1. frames \in Seq(Frames) /\ n \in 1 .. Len(frames) /\ Len(frames) >= 1
  BY DEF TypeOK, Depth
<1>2. Activations' = SubSeq(Activations, 1, n - 1)
  BY <1>1, CutActs DEF Activations
<1>3. n - 1 \in 0 .. Len(Activations)
  BY <1>1, ActsFacts DEF Activations
<1>4. Outcome = "run" /\ Outcome' = Outcome
  BY DEF Outcome
<1> QED
  BY <1>2, <1>3, <1>4 DEF Guard!GuardNext, Guard!Discard

\* A call is a Push.
LEMMA GuardCall ==
  ASSUME TypeOK, NEW f \in Fns, NEW ra \in Sites, Call(f, ra)
  PROVE  Guard!GuardNext
<1> DEFINE p == IF Scheme = "REG" /\ Top.fn \in Clobbers THEN Wild ELSE ssp
           slot == Rsp(Depth) - 1
           base == IF LoadsR15(f) THEN FirstEntry ELSE p
           r == [fn |-> f, slot |-> slot, ra |-> ra, mem |-> ra, base |-> base]
<1>1. /\ status = "run" /\ Enter(frames, f, slot, ra, p) /\ slot - Frame[f] >= 0
  BY DEF Call, Fits
<1>2. frames \in Seq(Frames) /\ Len(frames) >= 1 /\ Depth \in Nat
  BY DEF TypeOK, Depth
<1>3. r \in Frames
  <2>1. slot \in 0 .. StackWords - 1 /\ Frame[f] <= slot
    BY <1>1, <1>2, FrameFacts, ConstantFacts DEF Depth
  <2>2. base \in Pointer \cup {Wild}
    BY ConstantFacts DEF TypeOK
  <2> QED
    BY <2>1, <2>2 DEF Frames
<1>4. frames' = Append(frames, r) /\ status' \in {"run", "wildstore", "overflow"}
  BY <1>1 DEF Enter
<1>5. ActOf(r) = Guard!Fresh(Epilog(f), ra)
  BY DEF ActOf, Guard!Fresh
<1> HIDE DEF r
<1>6. Activations' = Append(Activations, ActOf(r))
  BY <1>2, <1>3, <1>4, PushActs DEF Activations
<1>7. Outcome = "run" /\ Outcome' \in {"run", "stuck"}
  BY <1>1, <1>4 DEF Outcome
<1>8. Epilog(f) \in BOOLEAN
  BY DEF Epilog
<1> QED
  BY <1>5, <1>6, <1>7, <1>8 DEF Guard!GuardNext, Guard!Push

\* A return is a Pop.
LEMMA GuardReturn == ASSUME TypeOK, Return PROVE Guard!GuardNext
<1>1. /\ status = "run" /\ status' = "run" /\ Depth >= 2 /\ Depth \in Nat /\ Top.mem = Top.ra
      /\ frames' = SubSeq(frames, 1, Depth - 1)
  BY DEF Return, TypeOK, Depth
<1>2. frames \in Seq(Frames) /\ Depth - 1 \in 1 .. Len(frames) /\ Len(frames) = Depth
  BY <1>1 DEF TypeOK, Depth
<1>3. Activations' = SubSeq(Activations, 1, (Depth - 1) - 1)
  BY <1>1, <1>2, CutActs DEF Activations
<1>4. /\ Activations # << >> /\ Guard!Intact(Guard!Newest)
      /\ Len(Activations) = Depth - 1
  BY <1>1, NewestFacts
<1>5. Outcome = "run" /\ Outcome' = "run"
  BY <1>1 DEF Outcome
<1> QED
  BY <1>3, <1>4, <1>5 DEF Guard!GuardNext, Guard!Pop

\* A tail call leaves one activation and enters the other on the same slot.
LEMMA GuardTailCall ==
  ASSUME TypeOK, NEW f \in Fns, TailCall(f)
  PROVE  Guard!GuardNext
<1> DEFINE n == Depth - 1
           gs == SubSeq(frames, 1, n)
           base == IF LoadsR15(f) THEN FirstEntry ELSE Popped
           r == [fn |-> f, slot |-> Top.slot, ra |-> Top.mem, mem |-> Top.mem, base |-> base]
           u == Activations
           g == Epilog(f)
           v == [u EXCEPT ![Len(u)].guarded = g]
<1>1. /\ status = "run" /\ Depth >= 2 /\ Depth \in Nat /\ Top.mem = Top.ra
      /\ Enter(gs, f, Top.slot, Top.mem, Popped)
  BY DEF TailCall, TypeOK, Depth
<1>2. /\ frames \in Seq(Frames) /\ n \in 1 .. Len(frames) /\ Len(frames) = Depth
      /\ gs \in Seq(Frames) /\ Len(gs) = n /\ n >= 1 /\ n \in Nat
  BY <1>1, CutType DEF TypeOK, Depth
<1>3. frames' = Append(gs, r) /\ status' \in {"run", "wildstore", "overflow"}
  BY <1>1 DEF Enter
<1>4. /\ u # << >> /\ Guard!Intact(Guard!Newest) /\ Len(u) = n
      /\ u[n] = ActOf(Top)
  BY <1>1, NewestFacts
<1>5. u \in Seq(ActSet)
  BY <1>2, ActsFacts DEF Activations
<1>6. r \in Frames
  <2>1. /\ Top.slot \in 0 .. StackWords - 1 /\ Top.mem \in Sites \cup {Null}
        /\ Frame[f] <= Top.slot
    BY SMTT(40), <1>1, FrameFacts, ConstantFacts DEF TailCall, Fits, Top, TypeOK
  <2>2. Popped \in Pointer \cup {Wild}
    <3>1. CASE Epilog(Top.fn)
      BY <3>1, ConstantFacts DEF TailCall, Checked, Popped, Index, Pointer
    <3>2. CASE ~Epilog(Top.fn)
      BY <1>1, <3>2, FrameFacts DEF Popped, TypeOK, Top
    <3> QED
      BY <3>1, <3>2
  <2>3. base \in Pointer \cup {Wild}
    BY <2>2, ConstantFacts
  <2> HIDE DEF base
  <2> QED
    BY <2>1, <2>3 DEF Frames
<1>7. ActOf(r) = [u[n] EXCEPT !.guarded = g]
  BY <1>1, <1>4 DEF ActOf
<1>8. g \in BOOLEAN
  BY DEF Epilog
<1>9. Activations' = Append(SubSeq(u, 1, n - 1), ActOf(r))
  <2> HIDE DEF r
  <2>1. ActsOf(gs) = SubSeq(u, 1, n - 1)
    BY <1>2, CutActs DEF Activations
  <2> HIDE DEF gs
  <2>2. ActsOf(Append(gs, r)) = Append(ActsOf(gs), ActOf(r))
    BY <1>2, <1>6, PushActs
  <2> QED
    BY <1>3, <2>1, <2>2 DEF Activations
<1> HIDE DEF n, gs, r, u, g
<1>10. ActOf(r) \in ActSet
  BY <1>6 DEF ActOf, ActSet, Frames, Epilog
<1>11. Append(SubSeq(u, 1, n - 1), ActOf(r)) = [u EXCEPT ![n] = ActOf(r)]
  <2> DEFINE s == SubSeq(u, 1, n - 1)
             t == Append(s, ActOf(r))
             w == [u EXCEPT ![n] = ActOf(r)]
  <2>1. n - 1 \in 0 .. Len(u) /\ 1 \in 1 .. Len(u) + 1
    BY <1>2, <1>4
  <2>2. s \in Seq(ActSet) /\ Len(s) = n - 1 /\ \A i \in 1 .. n - 1 : s[i] = u[i]
    <3> DEFINE m == n - 1
    <3>1. m \in 0 .. Len(u)
      BY <2>1
    <3> HIDE DEF m
    <3>2. /\ SubSeq(u, 1, m) \in Seq(ActSet) /\ Len(SubSeq(u, 1, m)) = m
          /\ \A i \in 1 .. m : SubSeq(u, 1, m)[i] = u[i]
      BY <1>5, <3>1, SubSeqProperties
    <3> QED
      BY <3>2 DEF m
  <2> HIDE DEF s
  <2>3. /\ t \in Seq(ActSet) /\ Len(t) = n /\ t[n] = ActOf(r)
        /\ \A i \in 1 .. n - 1 : t[i] = s[i]
    BY <1>2, <1>10, <2>2, AppendProperties
  <2>4. /\ w \in Seq(ActSet) /\ Len(w) = n /\ w[n] = ActOf(r)
        /\ \A i \in 1 .. n - 1 : w[i] = u[i]
    BY <1>2, <1>4, <1>5, <1>10
  <2> HIDE DEF t, w
  <2>5. ASSUME NEW i \in 1 .. n PROVE t[i] = w[i]
    <3>1. i = n \/ i \in 1 .. n - 1
      BY <1>2
    <3> QED
      BY <3>1, <2>2, <2>3, <2>4
  <2>6. t = w
    BY <2>3, <2>4, <2>5, SeqEqual
  <2> QED
    BY <2>6 DEF t, w, s
<1>12. Activations' = [u EXCEPT ![Len(u)].guarded = g]
  BY <1>4, <1>7, <1>9, <1>11
<1>13. Outcome = "run" /\ Outcome' \in {"run", "stuck"}
  BY <1>1, <1>3 DEF Outcome
<1> QED
  BY <1>4, <1>8, <1>12, <1>13 DEF Guard!GuardNext, Guard!Pop, u

\* A store to a live return address is an Overwrite.
LEMMA GuardStrayStore ==
  ASSUME TypeOK, NEW i \in 2 .. Depth, NEW v \in Sites, StrayStore(i, v)
  PROVE  Guard!GuardNext
<1> DEFINE r == [frames[i] EXCEPT !.mem = v]
           j == i - 1
           u == Activations
           w == [u EXCEPT ![j].mem = v]
           gs == [frames EXCEPT ![i] = r]
           n == Depth
<1>1. frames \in Seq(Frames) /\ n = Len(frames) /\ n \in Nat /\ i \in 2 .. n /\ n >= 1
  BY DEF TypeOK, Depth
<1>2. frames[i] \in Frames /\ r \in Frames
  BY <1>1 DEF Frames
<1>3. frames' = gs /\ status = "run" /\ status' = "run"
  BY DEF StrayStore
<1>4. ActOf(r) = [ActOf(frames[i]) EXCEPT !.mem = v]
  BY <1>2 DEF ActOf, Frames
<1> HIDE DEF r
<1>5. gs \in Seq(Frames) /\ Len(gs) = n /\ gs[i] = r /\ \A k \in 1 .. n : k # i => gs[k] = frames[k]
  BY <1>1, <1>2
<1>6. u \in Seq(ActSet) /\ Len(u) = n - 1 /\ \A k \in 1 .. n - 1 : u[k] = ActOf(frames[k + 1])
  BY <1>1, ActsFacts DEF Activations
<1>7. /\ ActsOf(gs) \in Seq(ActSet) /\ Len(ActsOf(gs)) = n - 1
      /\ \A k \in 1 .. n - 1 : ActsOf(gs)[k] = ActOf(gs[k + 1])
  <2> HIDE DEF gs
  <2>1. gs \in Seq(Frames) /\ Len(gs) >= 1 /\ Len(gs) = n
    BY <1>1, <1>5
  <2>2. /\ ActsOf(gs) \in Seq(ActSet) /\ Len(ActsOf(gs)) = Len(gs) - 1
        /\ \A k \in 1 .. Len(gs) - 1 : ActsOf(gs)[k] = ActOf(gs[k + 1])
    BY <2>1, ActsFacts
  <2> QED
    BY <2>1, <2>2
<1>8. ActOf(r) \in ActSet
  BY <1>2 DEF ActOf, ActSet, Frames, Epilog
<1>9. j \in 1 .. n - 1 /\ j + 1 = i
  BY <1>1
<1> HIDE DEF gs, u, j, n
<1>10. u[j] = ActOf(frames[i])
  BY <1>6, <1>9
<1>11. w = [u EXCEPT ![j] = ActOf(r)]
  BY <1>4, <1>10
<1>12. w \in Seq(ActSet) /\ Len(w) = n - 1 /\ w[j] = ActOf(r)
       /\ \A k \in 1 .. n - 1 : k # j => w[k] = u[k]
  <2> DEFINE a == ActOf(r)
  <2>1. a \in ActSet /\ w = [u EXCEPT ![j] = a]
    BY <1>8, <1>11
  <2> HIDE DEF a, w
  <2>2. w \in Seq(ActSet) /\ Len(w) = n - 1 /\ w[j] = a /\ \A k \in 1 .. n - 1 : k # j => w[k] = u[k]
    BY <2>1, <1>1, <1>6, <1>9
  <2> QED
    BY <2>2 DEF a
<1> HIDE DEF w
<1>13. ASSUME NEW k \in 1 .. n - 1 PROVE ActsOf(gs)[k] = w[k]
  <2>1. k + 1 \in 1 .. n /\ (k # j => k + 1 # i)
    BY <1>1, <1>9
  <2>2. CASE k = j
    BY <2>2, <1>5, <1>7, <1>9, <1>12
  <2>3. CASE k # j
    BY <2>1, <2>3, <1>5, <1>6, <1>7, <1>12
  <2> QED
    BY <2>2, <2>3
<1>14. ActsOf(gs) = w
  BY <1>7, <1>12, <1>13, SeqEqual
<1>15. Activations' = [Activations EXCEPT ![j].mem = v] /\ j \in 1 .. Len(Activations)
  BY <1>3, <1>6, <1>9, <1>14 DEF Activations, u, w
<1>16. Outcome = "run" /\ Outcome' = Outcome
  BY <1>3 DEF Outcome
<1> QED
  BY <1>15, <1>16 DEF Guard!GuardNext, Guard!Overwrite

\* Steps that leave the frames alone and end the run.
LEMMA GuardEnd ==
  ASSUME Disciplined, IInv, IInv', frames' = frames, status = "run",
         \/ Escape
         \/ EpilogTrap
         \/ status' \in {"done", "int3", "segv"}
  PROVE  Guard!GuardNext
<1>1. Activations' = Activations /\ Outcome = "run"
  BY DEF Activations, Outcome
<1>2. CASE Escape
  <2>1. Depth >= 2 /\ TypeOK /\ status' = "escaped" /\ Top.mem # Top.ra /\ ~Epilog(Top.fn)
    BY <1>2 DEF Escape, IInv, SafeReturn, Top, Depth, TypeOK
  <2>2. Outcome' = "diverted"
    BY <2>1 DEF Outcome
  <2> QED
    BY <1>1, <2>1, <2>2, NewestFacts DEF Guard!GuardNext, Guard!Divert
<1>3. CASE EpilogTrap
  <2>1. Depth >= 2 /\ TypeOK /\ status' = "trap" /\ Top.mem # Top.ra /\ Epilog(Top.fn)
    BY <1>3 DEF EpilogTrap, Checked, IInv, NoSpuriousTrap, NoBlindAccess, Top, Depth, TypeOK
  <2>2. Outcome' = "stopped"
    BY <2>1 DEF Outcome
  <2> QED
    BY <1>1, <2>1, <2>2, NewestFacts DEF Guard!GuardNext, Guard!Stop
<1>4. CASE status' \in {"done", "int3", "segv"}
  <2>1. Outcome' = "stuck"
    BY <1>4 DEF Outcome
  <2> QED
    BY <1>1, <2>1 DEF Guard!GuardNext, Guard!Halt
<1> QED
  BY <1>2, <1>3, <1>4

\* exit() discards every activation.
LEMMA GuardExit == ASSUME TypeOK, Exit PROVE Guard!GuardNext
<1> DEFINE c == CrtFrame(Rsp(Depth) - 1)
<1>1. c \in Frames
  BY SMTT(40), FrameFacts, ConstantFacts DEF Exit, Fits, CrtFrame, Frames, TypeOK, Depth
<1>2. frames' = <<c>> /\ status = "run" /\ status' = "run"
  BY DEF Exit
<1> HIDE DEF c
<1>3. ActsOf(<<c>>) = << >>
  BY DEF ActsOf
<1>4. Activations' = << >>
  BY <1>2, <1>3 DEF Activations
<1>5. Activations \in Seq(ActSet) /\ Len(Activations) \in Nat
  BY ActsFacts DEF Activations, TypeOK, Depth
<1>6. SubSeq(Activations, 1, 0) = << >> /\ 0 \in 0 .. Len(Activations)
  BY <1>5
<1>7. Outcome = "run" /\ Outcome' = Outcome
  BY <1>2 DEF Outcome
<1> QED
  BY <1>4, <1>6, <1>7 DEF Guard!GuardNext, Guard!Discard

LEMMA GuardStep ==
  ASSUME Disciplined, IInv, [Next]_vars
  PROVE  [Guard!GuardNext]_<<Activations, Outcome>>
<1>1. IInv' /\ TypeOK
  BY InvNext DEF IInv
<1>2. CASE Return \/ Exit
  BY <1>1, <1>2, GuardReturn, GuardExit
<1>3. CASE Escape \/ EpilogTrap \/ Finish
  BY <1>1, <1>3, GuardEnd DEF Escape, EpilogTrap, Finish
<1>4. CASE SetJmp \/ UNCHANGED vars
  BY <1>4 DEF SetJmp, vars, Activations, Outcome
<1>5. CASE LongJmp
  <2>1. CASE status' = status
    <3>1. frames' = SubSeq(frames, 1, env.depth) /\ status = "run" /\ env.depth \in 1 .. Depth
      BY <1>1, <1>5, <2>1 DEF LongJmp, TypeOK
    <3> QED
      BY <1>1, <2>1, <3>1, GuardDiscard
  <2>2. CASE status' # status
    BY <1>1, <1>5, <2>2, GuardEnd DEF LongJmp
  <2> QED
    BY <2>1, <2>2
<1>6. ASSUME NEW i \in 2 .. Depth, Unwind(i) PROVE Guard!GuardNext
  <2>1. CASE status' = status
    BY <1>1, <1>6, <2>1, GuardDiscard DEF Unwind
  <2>2. CASE status' # status
    BY <1>1, <1>6, <2>2, GuardEnd DEF Unwind
  <2> QED
    BY <2>1, <2>2
<1> QED
  BY <1>1, <1>2, <1>3, <1>4, <1>5, <1>6, GuardCall, GuardTailCall, GuardStrayStore DEF Next

\* A program built as Disciplined asks keeps the promise of ReturnGuard: every
\* step of calls, returns, jumps and stray stores is one of its steps.
THEOREM Implements == ASSUME Disciplined PROVE Spec => GuardSpec
<1>1. Init => Guard!GuardInit
  BY GuardInitHolds
<1>2. IInv /\ [Next]_vars => [Guard!GuardNext]_<<Activations, Outcome>>
  BY GuardStep
<1> QED
  BY <1>1, <1>2, Invariance, PTL DEF Spec, GuardSpec, Guard!GuardSpec

-----------------------------------------------------------------------------
(***************************************************************************)
(* Programs that are not Disciplined: what SEG and MEM keep when jumps     *)
(* leave the pointer too high, and where a foreign r15 that a REG prolog   *)
(* stores through must have come from.                                     *)
(***************************************************************************)

-----------------------------------------------------------------------------
(* SEG and MEM: the pointer never falls below a live entry. *)

\* A live instrumented frame has its entry, below everything pushed since.
Kept(fs, sh, p) ==
  \A i \in 2 .. Len(fs) :
    /\ After(fs[i]) <= p
    /\ \A j \in i + 1 .. Len(fs) : After(fs[i]) <= fs[j].base
    /\ Prolog(fs[i].fn) =>
         fs[i].base \in Index /\ sh[fs[i].base] = [ra |-> fs[i].ra, sp |-> fs[i].slot]

KeptInv == status = "run" => Kept(frames, shadow, ssp)

\* Discarding frames keeps the entries of the others, wherever the pointer
\* ends up at or above the last of them.
LEMMA CutKept ==
  ASSUME NEW fs \in Seq(Frames), NEW sh, NEW p \in Int, NEW q \in Int, NEW n \in 1 .. Len(fs),
         Kept(fs, sh, p), \A i \in 2 .. n : After(fs[i]) <= q
  PROVE  Kept(SubSeq(fs, 1, n), sh, q)
<1> DEFINE gs == SubSeq(fs, 1, n)
<1>1. gs \in Seq(Frames) /\ Len(gs) = n /\ \A i \in 1 .. n : gs[i] = fs[i]
  BY SubSeqProperties
<1> HIDE DEF gs
<1>2. Kept(gs, sh, q)
  BY <1>1 DEF Kept
<1> QED
  BY <1>2 DEF gs

\* A prolog writes above every live entry.
LEMMA EnterKept ==
  ASSUME NEW fs \in Seq(Frames), NEW sh \in [Index -> Entries], NEW r \in Frames,
         Kept(fs, sh, r.base), Prolog(r.fn) => r.base \in Index,
         NEW sh2, sh2 = IF Prolog(r.fn) THEN [sh EXCEPT ![r.base] = [ra |-> r.ra, sp |-> r.slot]]
                                        ELSE sh
  PROVE  Kept(Append(fs, r), sh2, After(r))
<1> DEFINE gs == Append(fs, r)
           n == Len(fs)
<1>1. /\ gs \in Seq(Frames) /\ Len(gs) = n + 1 /\ gs[n + 1] = r
      /\ \A i \in 1 .. n : gs[i] = fs[i]
      /\ n \in Nat
  BY AppendProperties
<1>2. /\ \A i \in 1 .. n : /\ fs[i].base \in Int /\ After(fs[i]) \in Int
                           /\ Prolog(fs[i].fn) => After(fs[i]) = fs[i].base + 1
      /\ r.base \in Int /\ After(r) \in Int /\ After(r) >= r.base
  BY FrameFields DEF After, Width
<1> HIDE DEF gs
<1>3. ASSUME NEW i \in 2 .. n PROVE
        /\ After(fs[i]) <= After(r) /\ After(fs[i]) <= r.base
        /\ \A j \in i + 1 .. n : After(fs[i]) <= fs[j].base
        /\ Prolog(fs[i].fn) =>
             fs[i].base \in Index /\ sh2[fs[i].base] = [ra |-> fs[i].ra, sp |-> fs[i].slot]
  <2>1. /\ After(fs[i]) <= r.base
        /\ \A j \in i + 1 .. n : After(fs[i]) <= fs[j].base
        /\ Prolog(fs[i].fn) =>
             fs[i].base \in Index /\ sh[fs[i].base] = [ra |-> fs[i].ra, sp |-> fs[i].slot]
    BY <1>3 DEF Kept
  <2>2. Prolog(fs[i].fn) => fs[i].base # r.base
    BY <1>2, <2>1
  <2> QED
    BY <1>2, <2>1, <2>2
<1>4. Prolog(r.fn) => sh2[r.base] = [ra |-> r.ra, sp |-> r.slot]
  OBVIOUS
<1>5. Kept(gs, sh2, After(r))
  <2> SUFFICES ASSUME NEW i \in 2 .. n + 1
               PROVE  /\ After(gs[i]) <= After(r)
                      /\ \A j \in i + 1 .. n + 1 : After(gs[i]) <= gs[j].base
                      /\ Prolog(gs[i].fn) => /\ gs[i].base \in Index
                                             /\ sh2[gs[i].base] = [ra |-> gs[i].ra, sp |-> gs[i].slot]
    BY <1>1 DEF Kept
  <2>1. CASE i = n + 1
    BY <1>1, <1>2, <1>4, <2>1
  <2>2. CASE i \in 2 .. n
    <3>1. gs[i] = fs[i]
      BY <1>1, <2>2
    <3>2. ASSUME NEW j \in i + 1 .. n + 1 PROVE After(fs[i]) <= gs[j].base
      <4>1. CASE j = n + 1
        BY <1>1, <1>3, <2>2, <4>1
      <4>2. CASE j \in i + 1 .. n
        <5>1. After(fs[i]) <= fs[j].base
          BY <1>3, <2>2, <4>2
        <5>2. j \in 1 .. n
          BY <1>1, <2>2, <4>2
        <5> QED
          BY <1>1, <5>1, <5>2
      <4> QED
        BY <1>1, <2>2, <4>1, <4>2
    <3> QED
      BY <1>3, <2>2, <3>1, <3>2
  <2> QED
    BY <1>1, <2>1, <2>2
<1> QED
  BY <1>5 DEF gs

\* Without r15 there is nothing to reload, and whoever pushed pops.
LEMMA NotReg ==
  ASSUME Scheme # "REG", NEW f PROVE ~LoadsR15(f) /\ (Epilog(f) <=> Prolog(f))
BY DEF LoadsR15, Epilog, Prolog

\* What Enter does under SEG and MEM when it does not stop the thread.
LEMMA EnterKeepsEntries ==
  ASSUME Scheme # "REG", TypeOK,
         NEW callers \in Seq(Frames), NEW f \in Fns, NEW slot \in 0 .. StackWords - 1,
         NEW ra \in Sites \cup {Null}, NEW p \in Pointer \cup {Wild},
         Enter(callers, f, slot, ra, p), Frame[f] <= slot, Kept(callers, shadow, p)
  PROVE  KeptInv'
<1> SUFFICES ASSUME status' = "run" PROVE Kept(frames', shadow', ssp')
  BY DEF KeptInv
<1> DEFINE r == [fn |-> f, slot |-> slot, ra |-> ra, mem |-> ra, base |-> p]
<1>1. r \in Frames
  BY ConstantFacts DEF Frames
<1>2. /\ frames' = Append(callers, r) /\ (Prolog(f) => p \in Index)
      /\ shadow' = IF Prolog(f) THEN [shadow EXCEPT ![p] = [ra |-> ra, sp |-> slot]] ELSE shadow
      /\ ssp' = IF Prolog(f) THEN p + 1 ELSE p
  BY NotReg DEF Enter
<1>3. /\ r.fn = f /\ r.base = p /\ r.ra = ra /\ r.slot = slot
      /\ After(r) = IF Prolog(f) THEN p + 1 ELSE p
  BY ConstantFacts DEF After, Width, Pointer, Wild
<1> HIDE DEF r
<1>4. shadow \in [Index -> Entries]
  BY DEF TypeOK
<1>5. /\ Kept(callers, shadow, r.base) /\ (Prolog(r.fn) => r.base \in Index)
      /\ shadow' = IF Prolog(r.fn) THEN [shadow EXCEPT ![r.base] = [ra |-> r.ra, sp |-> r.slot]]
                                   ELSE shadow
  BY <1>2, <1>3
<1>6. Kept(Append(callers, r), shadow', After(r))
  BY <1>1, <1>4, <1>5, EnterKept
<1>7. ssp' = After(r)
  BY <1>2, <1>3
<1> QED
  BY <1>2, <1>6, <1>7

\* After the top frame's epilog the entries of its callers are still there.
LEMMA PopKeepsEntries ==
  ASSUME Scheme # "REG", TypeOK, Depth > 1, Checked, Kept(frames, shadow, ssp)
  PROVE  Kept(SubSeq(frames, 1, Depth - 1), shadow, Popped) /\ Popped \in Pointer \cup {Wild}
<1> USE DEF Depth
<1>1. frames \in Seq(Frames) /\ ssp \in Int /\ Depth \in Nat
  BY ConstantFacts DEF TypeOK, Pointer, Wild
<1>2. Popped = IF Prolog(Top.fn) THEN ssp - 1 ELSE ssp
  BY NotReg DEF Popped
<1>3. Popped \in Pointer \cup {Wild}
  BY <1>2, ConstantFacts, NotReg DEF Checked, Index, Pointer, TypeOK
<1>4. ASSUME NEW i \in 2 .. Depth - 1 PROVE After(frames[i]) <= Popped
  <2>0. i \in 2 .. Len(frames) /\ Depth \in 2 .. Len(frames) /\ Depth \in i + 1 .. Len(frames)
    BY <1>1
  <2>1. After(frames[i]) <= Top.base /\ After(Top) <= ssp
    BY <2>0 DEF Kept, Top
  <2>2. /\ After(frames[i]) \in Int /\ Top.base \in Int /\ After(Top) \in Int
        /\ After(Top) = IF Prolog(Top.fn) THEN Top.base + 1 ELSE Top.base
    BY <1>1, <1>4, FrameFields DEF Top, After, Width
  <2> QED
    BY <1>1, <1>2, <2>1, <2>2
<1>5. Depth - 1 \in 1 .. Len(frames) /\ Popped \in Int
  BY <1>1, <1>2
<1>6. Kept(SubSeq(frames, 1, Depth - 1), shadow, Popped)
  <2> DEFINE n == Depth - 1
             q == Popped
  <2>1. n \in 1 .. Len(frames) /\ q \in Int /\ \A i \in 2 .. n : After(frames[i]) <= q
    BY <1>4, <1>5
  <2> HIDE DEF n, q
  <2>2. Kept(SubSeq(frames, 1, n), shadow, q)
    BY <1>1, <2>1, CutKept
  <2> QED
    BY <2>2 DEF n, q
<1> QED
  BY <1>3, <1>6

LEMMA KeptInit == Init => KeptInv
BY DEF Init, KeptInv, Kept

LEMMA KeptNext ==
  ASSUME Scheme # "REG", TypeOK, KeptInv, [Next]_vars
  PROVE  KeptInv'
<1> USE DEF Depth
<1>0. frames \in Seq(Frames) /\ ssp \in Int /\ Depth \in Nat
  BY ConstantFacts DEF TypeOK, Pointer, Wild
<1>1. ASSUME NEW f \in Fns, NEW ra \in Sites, Call(f, ra) PROVE KeptInv'
  <2> DEFINE slot == Rsp(Depth) - 1
             p == IF Scheme = "REG" /\ Top.fn \in Clobbers THEN Wild ELSE ssp
  <2>1. Enter(frames, f, slot, ra, p) /\ slot - Frame[f] >= 0 /\ status = "run" /\ p = ssp
    BY <1>1 DEF Call, Fits
  <2>2. slot \in 0 .. StackWords - 1 /\ Frame[f] <= slot
    <3>1. Rsp(Depth) \in 0 .. StackWords - 1 /\ Frame[f] \in Nat
      BY FrameFacts, ConstantFacts DEF TypeOK
    <3> QED
      BY <2>1, <3>1, ConstantFacts
  <2>3. p \in Pointer \cup {Wild} /\ Kept(frames, shadow, p) /\ ra \in Sites \cup {Null}
    BY <2>1 DEF TypeOK, KeptInv
  <2> HIDE DEF slot, p
  <2> QED
    BY <1>0, <2>1, <2>2, <2>3, EnterKeepsEntries
<1>2. CASE Return
  BY <1>2, PopKeepsEntries DEF Return, KeptInv
<1>3. CASE Escape
  BY <1>3 DEF Escape, KeptInv
<1>4. CASE EpilogTrap
  BY <1>4 DEF EpilogTrap, KeptInv
<1>5. ASSUME NEW f \in Fns, TailCall(f) PROVE KeptInv'
  <2> DEFINE callers == SubSeq(frames, 1, Depth - 1)
             slot == Top.slot
             ra == Top.mem
             p == Popped
  <2>1. Enter(callers, f, slot, ra, p) /\ Depth > 1 /\ Checked /\ status = "run"
        /\ Fits(f, slot)
    BY <1>5 DEF TailCall
  <2>2. callers \in Seq(Frames)
    BY <2>1, CutType DEF TypeOK
  <2>3. Kept(callers, shadow, p) /\ p \in Pointer \cup {Wild}
    BY <2>1, PopKeepsEntries DEF KeptInv
  <2>4. slot \in 0 .. StackWords - 1 /\ ra \in Sites \cup {Null} /\ Frame[f] <= slot
    BY <2>1, FrameFacts, ConstantFacts DEF Fits, Top, TypeOK
  <2> HIDE DEF callers, slot, ra, p
  <2> QED
    BY <2>1, <2>2, <2>3, <2>4, EnterKeepsEntries
<1>6. CASE Exit
  BY <1>6 DEF Exit, KeptInv, Kept
<1>7. CASE Finish
  BY <1>7 DEF Finish, KeptInv
<1>8. ASSUME NEW i \in 2 .. Depth, NEW v \in Sites, StrayStore(i, v) PROVE KeptInv'
  <2>1. /\ frames' = [frames EXCEPT ![i].mem = v] /\ shadow' = shadow /\ ssp' = ssp
        /\ status = "run"
    BY <1>8 DEF StrayStore
  <2>2. /\ Len(frames') = Depth
        /\ \A k \in 1 .. Depth : /\ frames'[k].fn = frames[k].fn /\ frames'[k].base = frames[k].base
                                 /\ frames'[k].ra = frames[k].ra /\ frames'[k].slot = frames[k].slot
                                 /\ After(frames'[k]) = After(frames[k])
    BY <1>0, <2>1, FrameFacts DEF Frames, After
  <2>3. Kept(frames, shadow, ssp)
    BY <2>1 DEF KeptInv
  <2>4. \A k \in 2 .. Depth :
          /\ After(frames[k]) <= ssp
          /\ \A j \in k + 1 .. Depth : After(frames[k]) <= frames[j].base
          /\ Prolog(frames[k].fn) => /\ frames[k].base \in Index
                                     /\ shadow[frames[k].base] = [ra |-> frames[k].ra, sp |-> frames[k].slot]
    BY <2>3 DEF Kept
  <2>5. Kept(frames', shadow, ssp)
    <3> SUFFICES ASSUME NEW k \in 2 .. Depth
                 PROVE  /\ After(frames'[k]) <= ssp
                        /\ \A j \in k + 1 .. Depth : After(frames'[k]) <= frames'[j].base
                        /\ Prolog(frames'[k].fn) =>
                             /\ frames'[k].base \in Index
                             /\ shadow[frames'[k].base] = [ra |-> frames'[k].ra, sp |-> frames'[k].slot]
      BY <2>2 DEF Kept
    <3>1. k \in 1 .. Depth /\ \A j \in k + 1 .. Depth : j \in 1 .. Depth
      BY <1>0
    <3> QED
      BY <2>2, <2>4, <3>1
  <2> QED
    BY <2>1, <2>5 DEF KeptInv
<1>9. CASE SetJmp
  BY <1>9 DEF SetJmp, KeptInv
<1>10. ASSUME NEW n \in 1 .. Depth, frames' = SubSeq(frames, 1, n), ssp' = ssp, shadow' = shadow,
              status = "run"
       PROVE  KeptInv'
  <2>1. Kept(frames, shadow, ssp)
    BY <1>10 DEF KeptInv
  <2>2. ASSUME NEW i \in 2 .. n PROVE After(frames[i]) <= ssp
    <3>1. i \in 2 .. Len(frames)
      BY <1>0
    <3> QED
      BY <2>1, <3>1 DEF Kept
  <2>3. Kept(SubSeq(frames, 1, n), shadow, ssp)
    BY <1>0, <2>1, <2>2, CutKept
  <2> QED
    BY <1>10, <2>3 DEF KeptInv
<1>11. CASE LongJmp
  <2>1. env.depth \in 1 .. Depth
    BY <1>11 DEF LongJmp, TypeOK
  <2>2. CASE frames' = SubSeq(frames, 1, env.depth) /\ ssp' = ssp
    BY <1>10, <1>11, <2>1, <2>2 DEF LongJmp
  <2>3. CASE status' \in {"int3", "segv"}
    BY <2>3 DEF KeptInv
  <2> QED
    BY <1>11, <2>2, <2>3 DEF LongJmp
<1>12. ASSUME NEW i \in 2 .. Depth, Unwind(i) PROVE KeptInv'
  <2>1. i \in 1 .. Depth
    OBVIOUS
  <2>2. CASE frames' = SubSeq(frames, 1, i) /\ ssp' = ssp
    BY <1>10, <1>12, <2>1, <2>2 DEF Unwind
  <2>3. CASE status' \in {"int3", "segv"}
    BY <2>3 DEF KeptInv
  <2> QED
    BY <1>12, <2>2, <2>3 DEF Unwind
<1>13. CASE UNCHANGED vars
  BY <1>13 DEF vars, KeptInv
<1> QED
  BY <1>1, <1>2, <1>3, <1>4, <1>5, <1>6, <1>7, <1>8, <1>9, <1>11, <1>12, <1>13 DEF Next

\* Under SEG and MEM, whatever longjmp and the unwinder do to the frames, no
\* later prolog overwrites the entry of a frame that is still live: the jumps
\* leave the pointer alone, so it can only be too high.
THEOREM LiveEntriesKeptHolds ==
  ASSUME Scheme # "REG" PROVE Spec => []LiveEntriesKept
<1>1. TypeOK /\ KeptInv => LiveEntriesKept
  <2> SUFFICES ASSUME TypeOK, KeptInv, status = "run", NEW i \in 2 .. Depth, Prolog(frames[i].fn)
               PROVE  /\ frames[i].base \in Index /\ frames[i].base < PtrAt(i)
                      /\ shadow[frames[i].base] = [ra |-> frames[i].ra, sp |-> frames[i].slot]
    BY DEF LiveEntriesKept
  <2>1. frames \in Seq(Frames) /\ ssp \in Int /\ Depth = Len(frames) /\ Depth \in Nat
    BY ConstantFacts DEF TypeOK, Pointer, Wild, Depth
  <2>2. /\ frames[i].base \in Index /\ After(frames[i]) <= ssp
        /\ i < Depth => After(frames[i]) <= frames[i + 1].base
        /\ shadow[frames[i].base] = [ra |-> frames[i].ra, sp |-> frames[i].slot]
    BY <2>1 DEF KeptInv, Kept
  <2>3. After(frames[i]) = frames[i].base + 1
    BY DEF After, Width
  <2>4. frames[i].base \in Int /\ (i < Depth => frames[i + 1].base \in Int)
    BY <2>1, FrameFields
  <2> QED
    BY <2>1, <2>2, <2>3, <2>4 DEF PtrAt, NextBase
<1>2. TypeOK /\ KeptInv /\ [Next]_vars => KeptInv'
  BY KeptNext
<1> QED
  BY <1>1, <1>2, KeptInit, TypeInit, TypeNext, PTL DEF Spec

-----------------------------------------------------------------------------
(* REG: where a foreign r15 comes from. *)

\* Frame k was entered, through functions without a prolog, from foreign code.
Foreign(fs, k) ==
  \E i \in 2 .. k : fs[i].fn \in Clobbers /\ \A j \in i + 1 .. k : ~Prolog(fs[j].fn)

\* r15 is foreign while a frame runs, or at its call, only below foreign code.
Tainted(fs, p) ==
  /\ Len(fs) >= 2 => fs[2].base # Wild
  /\ \A k \in 2 .. Len(fs) : NextBase(fs, p, k) = Wild => Foreign(fs, k)

\* The same of the r15 a jmp_buf holds.
EnvTainted == env # NoEnv /\ env.r15 = Wild => Foreign(frames, env.depth)

TaintInv == status = "run" => Tainted(frames, ssp) /\ EnvTainted

Reloads == Scheme = "REG" /\ \A f \in InitFns \cup FiniFns \cup {Main} : LoadsR15(f)

\* Foreign() looks at the functions of the first k frames only.
LEMMA ForeignSame ==
  ASSUME NEW fs, NEW gs, NEW k \in Nat, \A i \in 2 .. k : gs[i].fn = fs[i].fn, Foreign(fs, k)
  PROVE  Foreign(gs, k)
<1>1. PICK i \in 2 .. k : fs[i].fn \in Clobbers /\ \A j \in i + 1 .. k : ~Prolog(fs[j].fn)
  BY DEF Foreign
<1>2. \A j \in i + 1 .. k : gs[j].fn = fs[j].fn
  OBVIOUS
<1>3. gs[i].fn \in Clobbers /\ \A j \in i + 1 .. k : ~Prolog(gs[j].fn)
  BY <1>1, <1>2
<1> QED
  BY <1>3 DEF Foreign

LEMMA CutTainted ==
  ASSUME NEW fs \in Seq(Frames), NEW p, NEW q, NEW n \in 1 .. Len(fs),
         Tainted(fs, p), n >= 2 /\ q = Wild => Foreign(fs, n)
  PROVE  Tainted(SubSeq(fs, 1, n), q)
<1> DEFINE gs == SubSeq(fs, 1, n)
<1>1. gs \in Seq(Frames) /\ Len(gs) = n /\ \A i \in 1 .. n : gs[i] = fs[i]
  BY SubSeqProperties
<1> HIDE DEF gs
<1>2. Len(gs) >= 2 => gs[2].base # Wild
  BY <1>1 DEF Tainted
<1>3. ASSUME NEW k \in 2 .. n, NextBase(gs, q, k) = Wild PROVE Foreign(gs, k)
  <2>1. \A i \in 2 .. k : gs[i].fn = fs[i].fn
    BY <1>1
  <2>2. Foreign(fs, k)
    <3>1. CASE k = n
      BY <1>1, <1>3, <3>1 DEF NextBase
    <3>2. CASE k < n
      <4>1. k \in 2 .. Len(fs) /\ k < Len(fs) /\ k + 1 \in 1 .. n
        BY <3>2
      <4>2. NextBase(fs, p, k) = Wild
        BY <1>1, <1>3, <3>2, <4>1 DEF NextBase
      <4> QED
        BY <4>1, <4>2 DEF Tainted
    <3> QED
      BY <3>1, <3>2
  <2> QED
    BY <2>1, <2>2, ForeignSame
<1>4. Tainted(gs, q)
  BY <1>1, <1>2, <1>3 DEF Tainted
<1> QED
  BY <1>4 DEF gs

\* Entering r, which leaves the pointer at q.
LEMMA EnterTainted ==
  ASSUME NEW fs \in Seq(Frames), NEW p, Tainted(fs, p), Len(fs) >= 1,
         NEW r \in Frames, r.base = Wild => Len(fs) >= 2 /\ Foreign(fs, Len(fs)),
         NEW q, q = Wild => r.base = Wild /\ ~Prolog(r.fn)
  PROVE  Tainted(Append(fs, r), q)
<1> DEFINE gs == Append(fs, r)
           n == Len(fs)
<1>1. /\ gs \in Seq(Frames) /\ Len(gs) = n + 1 /\ gs[n + 1] = r
      /\ \A i \in 1 .. n : gs[i] = fs[i]
      /\ n \in Nat
  BY AppendProperties
<1>2. r.base = Wild => n >= 2 /\ Foreign(fs, n)
  OBVIOUS
<1> HIDE DEF gs, n
<1>3. gs[2].base # Wild
  <2>1. CASE n = 1
    BY <1>1, <1>2, <2>1
  <2>2. CASE n >= 2
    BY <1>1, <2>2 DEF Tainted, n
  <2> QED
    BY <1>1, <2>1, <2>2 DEF n
<1>4. ASSUME NEW k \in 2 .. n, Foreign(fs, k) PROVE Foreign(gs, k)
  <2>1. k \in Nat /\ \A i \in 2 .. k : gs[i].fn = fs[i].fn
    BY <1>1
  <2> QED
    BY <1>4, <2>1, ForeignSame
<1>5. ASSUME NEW k \in 2 .. n + 1, NextBase(gs, q, k) = Wild PROVE Foreign(gs, k)
  <2>1. CASE k = n + 1
    <3>1. r.base = Wild /\ ~Prolog(r.fn)
      BY <1>1, <1>5, <2>1 DEF NextBase
    <3>2. n \in 2 .. n /\ Foreign(fs, n)
      BY <1>1, <1>2, <3>1
    <3>3. Foreign(gs, n)
      BY <1>4, <3>2
    <3>4. PICK i \in 2 .. n : gs[i].fn \in Clobbers /\ \A j \in i + 1 .. n : ~Prolog(gs[j].fn)
      BY <3>3 DEF Foreign
    <3>5. ASSUME NEW j \in i + 1 .. n + 1 PROVE ~Prolog(gs[j].fn)
      <4>1. j \in i + 1 .. n \/ j = n + 1
        BY <1>1
      <4> QED
        BY <1>1, <3>1, <3>4, <4>1
    <3>6. i \in 2 .. n + 1
      BY <1>1
    <3> QED
      BY <2>1, <3>4, <3>5, <3>6 DEF Foreign
  <2>2. CASE k = n
    <3>1. r.base = Wild
      BY <1>1, <1>5, <2>2 DEF NextBase
    <3> QED
      BY <1>2, <1>4, <2>2, <3>1
  <2>3. CASE k \in 2 .. n /\ k < n
    <3>1. k \in 2 .. Len(fs) /\ k < Len(fs) /\ k + 1 \in 1 .. n
      BY <1>1, <2>3 DEF n
    <3>2. NextBase(fs, p, k) = Wild
      BY <1>1, <1>5, <2>3, <3>1 DEF NextBase
    <3>3. Foreign(fs, k)
      BY <3>1, <3>2 DEF Tainted
    <3> QED
      BY <1>4, <2>3, <3>3
  <2> QED
    BY <1>1, <2>1, <2>2, <2>3
<1>6. Tainted(gs, q)
  BY <1>1, <1>3, <1>5 DEF Tainted
<1> QED
  BY <1>6 DEF gs

\* The history of a frame whose function is entered with a foreign r15.
LEMMA EnterBlames ==
  ASSUME TypeOK,
         NEW callers \in Seq(Frames), Len(callers) >= 1, NEW t, Tainted(callers, t),
         NEW f \in Fns, NEW slot \in 0 .. StackWords - 1,
         NEW ra \in Sites \cup {Null}, NEW p \in Pointer \cup {Wild},
         Enter(callers, f, slot, ra, p), Frame[f] <= slot, status = "run",
         LoadsR15(f) \/ (p = Wild => Len(callers) >= 2 /\ Foreign(callers, Len(callers)))
  PROVE  (status' = "run" => Tainted(frames', ssp')) /\ WildBlame'
<1> DEFINE base == IF LoadsR15(f) THEN FirstEntry ELSE p
           r == [fn |-> f, slot |-> slot, ra |-> ra, mem |-> ra, base |-> base]
<1>1. base \in Pointer \cup {Wild} /\ (base = Wild => p = Wild /\ ~LoadsR15(f))
  BY ConstantFacts DEF Pointer, Wild
<1>2. r \in Frames /\ r.fn = f /\ r.base = base
  BY <1>1, ConstantFacts DEF Frames
<1>3. frames' = Append(callers, r)
  BY DEF Enter
<1>4. /\ base = Wild => Len(callers) >= 2 /\ Foreign(callers, Len(callers))
  BY <1>1
<1>5. /\ status' = "run" => (ssp' = base + 1 /\ base \in Index) \/ (ssp' = base /\ ~Prolog(f))
      /\ status' = "wildstore" => base = Wild /\ Prolog(f)
  BY DEF Enter
<1>6. Wild \notin Index /\ \A b \in Index : b + 1 # Wild
  BY ConstantFacts DEF Index, Wild
<1> HIDE DEF base, r
<1>7. ASSUME status' = "run" PROVE Tainted(frames', ssp')
  <2>1. ssp' = Wild => r.base = Wild /\ ~Prolog(r.fn)
    BY <1>2, <1>5, <1>6, <1>7
  <2>2. Tainted(Append(callers, r), ssp')
    BY <1>2, <1>4, <2>1, EnterTainted
  <2> QED
    BY <1>3, <2>2
<1>8. ASSUME status' = "wildstore"
      PROVE  \E i \in 2 .. Len(frames') - 1 :
               /\ frames'[i].fn \in Clobbers
               /\ \A j \in i + 1 .. Len(frames') - 1 : ~Prolog(frames'[j].fn)
  <2> DEFINE n == Len(callers)
  <2>1. n \in Nat /\ n >= 2 /\ Foreign(callers, n)
    BY <1>4, <1>5, <1>8
  <2>2. Len(frames') - 1 = n /\ \A i \in 2 .. n : frames'[i].fn = callers[i].fn
    BY <1>2, <1>3, AppendProperties
  <2> HIDE DEF n
  <2>3. Foreign(frames', n)
    BY <2>1, <2>2, ForeignSame
  <2> QED
    BY <2>2, <2>3 DEF Foreign
<1>9. WildBlame'
  BY <1>8 DEF WildBlame, Depth
<1> QED
  BY <1>7, <1>9

\* After the top frame's epilog, a foreign r15 still comes from below.
LEMMA PopTainted ==
  ASSUME Scheme = "REG", TypeOK, Depth > 1, Checked, Tainted(frames, ssp)
  PROVE  /\ Tainted(SubSeq(frames, 1, Depth - 1), Popped)
         /\ Popped \in Pointer \cup {Wild}
         /\ Popped = Wild => /\ Depth - 1 >= 2
                             /\ Foreign(SubSeq(frames, 1, Depth - 1), Depth - 1)
<1> DEFINE n == Depth - 1
           gs == SubSeq(frames, 1, n)
           q == Popped
<1>1. /\ frames \in Seq(Frames) /\ Depth \in Nat /\ Depth = Len(frames) /\ n \in 1 .. Len(frames)
      /\ Depth = n + 1 /\ n \in Nat
  BY DEF TypeOK, Depth
<1>2. Top = frames[n + 1] /\ Top \in Frames
  BY <1>1 DEF Top
<1>3. q \in Pointer \cup {Wild}
  <2>1. CASE Epilog(Top.fn)
    BY <2>1, ConstantFacts DEF Checked, Popped, Index, Pointer
  <2>2. CASE ~Epilog(Top.fn)
    BY <1>2, <2>2 DEF Popped, TypeOK, Frames
  <2> QED
    BY <2>1, <2>2
<1>4. q = Wild => ~Epilog(Top.fn) /\ (IF Top.fn \in Clobbers THEN Top.base = Wild ELSE ssp = Wild)
  BY ConstantFacts DEF Checked, Popped, Index, Wild
<1> HIDE DEF n, gs, q
<1>5. ASSUME q = Wild PROVE n >= 2 /\ Foreign(frames, n)
  <2>1. CASE Top.fn \in Clobbers
    <3>1. Top.base = Wild
      BY <1>4, <1>5, <2>1
    <3>2. n >= 2
      BY <1>1, <1>2, <3>1 DEF Tainted
    <3>3. n \in 2 .. Len(frames) /\ NextBase(frames, ssp, n) = Wild
      BY <1>1, <1>2, <3>1, <3>2 DEF NextBase
    <3> QED
      BY <3>2, <3>3 DEF Tainted
  <2>2. CASE Top.fn \notin Clobbers
    <3>1. ssp = Wild
      BY <1>4, <1>5, <2>2
    <3>2. Depth \in 2 .. Len(frames) /\ NextBase(frames, ssp, Depth) = Wild
      BY <1>1, <3>1 DEF NextBase
    <3>3. Foreign(frames, Depth)
      BY <3>2 DEF Tainted
    <3>4. PICK i \in 2 .. Depth : /\ frames[i].fn \in Clobbers
                                  /\ \A j \in i + 1 .. Depth : ~Prolog(frames[j].fn)
      BY <3>3 DEF Foreign
    <3>5. i # Depth
      BY <1>1, <1>2, <2>2, <3>4
    <3>6. i \in 2 .. n /\ \A j \in i + 1 .. n : j \in i + 1 .. Depth
      BY <1>1, <3>5
    <3>7. Foreign(frames, n)
      BY <3>4, <3>6 DEF Foreign
    <3> QED
      BY <1>1, <3>6, <3>7
  <2> QED
    BY <2>1, <2>2
<1>6. Tainted(gs, q)
  BY <1>1, <1>5, CutTainted DEF gs
<1>7. q = Wild => Foreign(gs, n)
  <2>1. \A i \in 2 .. n : gs[i].fn = frames[i].fn
    BY <1>1, SubSeqProperties DEF gs
  <2> QED
    BY <1>1, <1>5, <2>1, ForeignSame
<1> QED
  BY <1>3, <1>5, <1>6, <1>7 DEF n, gs, q

LEMMA TaintInit == Init => TaintInv /\ WildBlame
<1> SUFFICES ASSUME Init PROVE TaintInv /\ WildBlame
  OBVIOUS
<1>1. Len(frames) = 1 /\ env = NoEnv /\ status = "run"
  BY DEF Init
<1> QED
  BY <1>1 DEF TaintInv, Tainted, EnvTainted, WildBlame

\* A jmp_buf that survives the loss of frames above n keeps its history.
LEMMA KeepTainted ==
  ASSUME TypeOK, EnvTainted, NEW n \in Nat, KeepEnv(n),
         \A i \in 2 .. n : frames'[i].fn = frames[i].fn
  PROVE  EnvTainted'
<1>1. CASE env.depth > n
  BY <1>1 DEF KeepEnv, EnvTainted
<1>2. CASE ~(env.depth > n)
  <2>1. env' = env
    BY <1>2 DEF KeepEnv
  <2>2. ASSUME env # NoEnv, env.r15 = Wild PROVE Foreign(frames', env.depth)
    <3>1. Foreign(frames, env.depth) /\ env.depth \in Nat
      BY <2>2 DEF EnvTainted, TypeOK
    <3>2. \A i \in 2 .. env.depth : frames'[i].fn = frames[i].fn
      BY <1>2, <3>1
    <3> QED
      BY <3>1, <3>2, ForeignSame
  <2> QED
    BY <2>1, <2>2 DEF EnvTainted
<1> QED
  BY <1>1, <1>2

\* Once it has stopped for another reason, a thread is not blamed.
LEMMA Stopped ==
  ASSUME status' \notin {"run", "wildstore"} PROVE TaintInv' /\ WildBlame'
BY DEF TaintInv, WildBlame

LEMMA TaintNext ==
  ASSUME Reloads, TypeOK, TaintInv, WildBlame, [Next]_vars
  PROVE  TaintInv' /\ WildBlame'
<1>0. /\ frames \in Seq(Frames) /\ Depth \in Nat /\ Depth >= 1 /\ Depth = Len(frames)
      /\ Scheme = "REG"
  BY DEF TypeOK, Depth, Reloads
<1>1. ASSUME NEW f \in Fns, NEW ra \in Sites, Call(f, ra) PROVE TaintInv' /\ WildBlame'
  <2> DEFINE slot == Rsp(Depth) - 1
             p == IF Scheme = "REG" /\ Top.fn \in Clobbers THEN Wild ELSE ssp
  <2>1. Enter(frames, f, slot, ra, p) /\ slot - Frame[f] >= 0 /\ status = "run"
    BY <1>1 DEF Call, Fits
  <2>2. slot \in 0 .. StackWords - 1 /\ Frame[f] <= slot
    BY <1>0, <2>1, FrameFacts, ConstantFacts
  <2>3. p \in Pointer \cup {Wild} /\ ra \in Sites \cup {Null}
    BY DEF TypeOK
  <2>4. Tainted(frames, ssp) /\ EnvTainted
    BY <2>1 DEF TaintInv
  <2>5. LoadsR15(f) \/ (p = Wild => Depth >= 2 /\ Foreign(frames, Depth))
    <3>1. CASE Depth = 1
      BY <1>1, <3>1 DEF Call, CrtMayCall, Reloads
    <3>2. CASE Depth >= 2 /\ Top.fn \in Clobbers
      BY <1>0, <3>2 DEF Foreign, Top
    <3>3. CASE Depth >= 2 /\ Top.fn \notin Clobbers
      <4>1. NextBase(frames, ssp, Depth) = ssp /\ Depth \in 2 .. Len(frames)
        BY <1>0, <3>3 DEF NextBase
      <4> QED
        BY <2>4, <3>3, <4>1 DEF Tainted
    <3> QED
      BY <1>0, <3>1, <3>2, <3>3
  <2> HIDE DEF slot, p
  <2>6. (status' = "run" => Tainted(frames', ssp')) /\ WildBlame'
    BY <1>0, <2>1, <2>2, <2>3, <2>4, <2>5, EnterBlames
  <2>7. \A i \in 1 .. Depth : frames'[i] = frames[i]
    BY <1>0, <2>1, <2>2, <2>3, EnterType
  <2>8. EnvTainted'
    <3>1. env' = env /\ (env = NoEnv \/ env.depth \in 2 .. Depth)
      BY <1>1 DEF Call, TypeOK
    <3>2. CASE env = NoEnv
      BY <3>1, <3>2 DEF EnvTainted
    <3>3. CASE env.depth \in 2 .. Depth
      <4>1. env.depth \in Nat /\ \A i \in 2 .. env.depth : frames'[i].fn = frames[i].fn
        BY <1>0, <2>7, <3>3
      <4>2. env # NoEnv /\ env.r15 = Wild => Foreign(frames, env.depth)
        BY <2>4 DEF EnvTainted
      <4>3. env # NoEnv /\ env.r15 = Wild => Foreign(frames', env.depth)
        BY <4>1, <4>2, ForeignSame
      <4> QED
        BY <3>1, <4>3 DEF EnvTainted
    <3> QED
      BY <3>1, <3>2, <3>3
  <2> QED
    BY <2>6, <2>8 DEF TaintInv
<1>2. CASE Return
  <2>1. /\ frames' = SubSeq(frames, 1, Depth - 1) /\ ssp' = Popped /\ KeepEnv(Depth - 1)
        /\ status = "run" /\ status' = "run" /\ Depth > 1 /\ Checked
    BY <1>2 DEF Return
  <2>2. Tainted(frames, ssp) /\ EnvTainted
    BY <2>1 DEF TaintInv
  <2>3. Tainted(frames', ssp')
    BY <1>0, <2>1, <2>2, PopTainted
  <2>4. Depth - 1 \in Nat /\ \A i \in 2 .. Depth - 1 : frames'[i].fn = frames[i].fn
    BY <1>0, <2>1, CutType
  <2>5. EnvTainted'
    BY <2>1, <2>2, <2>4, KeepTainted
  <2> QED
    BY <2>1, <2>3, <2>5 DEF TaintInv, WildBlame
<1>3. CASE Escape
  BY <1>3, Stopped DEF Escape
<1>4. CASE EpilogTrap
  BY <1>4, Stopped DEF EpilogTrap
<1>5. ASSUME NEW f \in Fns, TailCall(f) PROVE TaintInv' /\ WildBlame'
  <2> DEFINE callers == SubSeq(frames, 1, Depth - 1)
             slot == Top.slot
             ra == Top.mem
             p == Popped
             n == Depth - 1
  <2>1. /\ Enter(callers, f, slot, ra, p) /\ Depth > 1 /\ Checked /\ status = "run"
        /\ Fits(f, slot) /\ KeepEnv(n)
    BY <1>5 DEF TailCall
  <2>2. /\ callers \in Seq(Frames) /\ Len(callers) = n
        /\ \A i \in 1 .. n : callers[i] = frames[i]
    BY <1>0, <2>1, CutType
  <2>3. Tainted(frames, ssp) /\ EnvTainted
    BY <2>1 DEF TaintInv
  <2>4. Tainted(callers, p) /\ p \in Pointer \cup {Wild} /\ (p = Wild => n >= 2 /\ Foreign(callers, n))
    BY <1>0, <2>1, <2>3, PopTainted
  <2>5. slot \in 0 .. StackWords - 1 /\ ra \in Sites \cup {Null} /\ Frame[f] <= slot
    BY <1>0, <2>1, FrameFacts, ConstantFacts DEF Fits, Top
  <2>6. n \in Nat /\ n >= 1
    BY <1>0, <2>1
  <2> HIDE DEF callers, slot, ra, p, n
  <2>7. (status' = "run" => Tainted(frames', ssp')) /\ WildBlame'
    BY <2>1, <2>2, <2>4, <2>5, <2>6, EnterBlames
  <2>8. \A i \in 1 .. n : frames'[i] = callers[i]
    BY <2>1, <2>2, <2>4, <2>5, EnterType
  <2>9. \A i \in 2 .. n : frames'[i].fn = frames[i].fn
    BY <2>2, <2>6, <2>8
  <2>10. EnvTainted'
    BY <2>1, <2>3, <2>6, <2>9, KeepTainted
  <2> QED
    BY <2>7, <2>10 DEF TaintInv
<1>6. CASE Exit
  <2>1. Len(frames') = 1 /\ env' = NoEnv /\ status' = "run"
    BY <1>6 DEF Exit
  <2> QED
    BY <2>1 DEF TaintInv, Tainted, EnvTainted, WildBlame
<1>7. CASE Finish
  BY <1>7, Stopped DEF Finish
<1>8. ASSUME NEW i \in 2 .. Depth, NEW v \in Sites, StrayStore(i, v) PROVE TaintInv' /\ WildBlame'
  <2>1. /\ frames' = [frames EXCEPT ![i].mem = v] /\ ssp' = ssp /\ env' = env
        /\ status = "run" /\ status' = "run"
    BY <1>8 DEF StrayStore
  <2>2. /\ Len(frames') = Depth
        /\ \A k \in 1 .. Depth : frames'[k].fn = frames[k].fn /\ frames'[k].base = frames[k].base
    BY <1>0, <2>1, FrameFacts DEF Frames
  <2>3. Tainted(frames, ssp) /\ EnvTainted
    BY <2>1 DEF TaintInv
  <2>4. ASSUME NEW k \in 2 .. Depth, Foreign(frames, k) PROVE Foreign(frames', k)
    <3>1. k \in Nat /\ \A j \in 2 .. k : frames'[j].fn = frames[j].fn
      BY <1>0, <2>2
    <3> QED
      BY <2>4, <3>1, ForeignSame
  <2>5. ASSUME NEW k \in 2 .. Depth, NextBase(frames', ssp', k) = Wild PROVE Foreign(frames', k)
    <3>1. NextBase(frames, ssp, k) = Wild
      BY <1>0, <2>1, <2>2, <2>5 DEF NextBase
    <3> QED
      BY <1>0, <2>3, <2>4, <3>1 DEF Tainted
  <2>6. Tainted(frames', ssp')
    BY <1>0, <2>2, <2>3, <2>5 DEF Tainted
  <2>7. EnvTainted'
    BY <2>1, <2>3, <2>4 DEF EnvTainted, TypeOK
  <2> QED
    BY <2>1, <2>6, <2>7 DEF TaintInv, WildBlame
<1>9. CASE SetJmp
  <2>1. /\ env' = [depth |-> Depth, rsp |-> Rsp(Depth), r15 |-> ssp] /\ Depth > 1
        /\ frames' = frames /\ ssp' = ssp /\ status = "run" /\ status' = "run"
    BY <1>9 DEF SetJmp
  <2>2. Tainted(frames, ssp)
    BY <2>1 DEF TaintInv
  <2>3. Depth \in 2 .. Len(frames) /\ NextBase(frames, ssp, Depth) = ssp
    BY <1>0, <2>1 DEF NextBase
  <2>4. ssp = Wild => Foreign(frames, Depth)
    BY <2>2, <2>3 DEF Tainted
  <2>5. EnvTainted'
    BY <2>1, <2>4 DEF EnvTainted
  <2> QED
    BY <2>1, <2>2, <2>5 DEF TaintInv, WildBlame
<1>10. ASSUME NEW n \in 2 .. Depth, frames' = SubSeq(frames, 1, n), status = "run", status' = "run",
              ssp' = Wild => Foreign(frames, n)
       PROVE  /\ Tainted(frames', ssp') /\ WildBlame'
              /\ \A i \in 2 .. n : frames'[i].fn = frames[i].fn
  <2>1. Tainted(frames, ssp) /\ n \in 1 .. Len(frames)
    BY <1>0, <1>10 DEF TaintInv
  <2>2. Tainted(frames', ssp')
    BY <1>0, <1>10, <2>1, CutTainted
  <2>3. \A i \in 2 .. n : frames'[i].fn = frames[i].fn
    BY <1>0, <1>10, <2>1, SubSeqProperties
  <2> QED
    BY <1>10, <2>2, <2>3 DEF WildBlame
<1>11. CASE LongJmp
  <2>1. CASE status' \in {"int3", "segv"}
    BY <2>1, Stopped
  <2>2. CASE frames' = SubSeq(frames, 1, env.depth) /\ ssp' = env.r15 /\ status' = status
    <3>1. env # NoEnv /\ env.depth \in 2 .. Depth /\ status = "run" /\ env' = env
      BY <1>11 DEF LongJmp, TypeOK
    <3>2. env.r15 = Wild => Foreign(frames, env.depth)
      BY <3>1 DEF TaintInv, EnvTainted
    <3>3. /\ Tainted(frames', ssp') /\ WildBlame'
          /\ \A i \in 2 .. env.depth : frames'[i].fn = frames[i].fn
      BY <1>10, <2>2, <3>1, <3>2
    <3>4. EnvTainted'
      BY <1>0, <3>1, <3>2, <3>3, ForeignSame DEF EnvTainted
    <3> QED
      BY <3>3, <3>4 DEF TaintInv
  <2> QED
    BY <1>0, <1>11, <2>1, <2>2 DEF LongJmp
<1>12. ASSUME NEW i \in 2 .. Depth, Unwind(i) PROVE TaintInv' /\ WildBlame'
  <2>1. CASE status' \in {"int3", "segv"}
    BY <2>1, Stopped
  <2>2. CASE frames' = SubSeq(frames, 1, i) /\ ssp' \in Index /\ status' = status /\ KeepEnv(i)
    <3>1. ssp' # Wild /\ status = "run" /\ EnvTainted
      BY <1>12, <2>2, ConstantFacts DEF Index, Wild, Unwind, TaintInv
    <3>2. /\ Tainted(frames', ssp') /\ WildBlame'
          /\ \A k \in 2 .. i : frames'[k].fn = frames[k].fn
      BY <1>10, <2>2, <3>1
    <3>3. i \in Nat
      BY <1>0
    <3>4. EnvTainted'
      BY <2>2, <3>1, <3>2, <3>3, KeepTainted
    <3> QED
      BY <3>2, <3>4 DEF TaintInv
  <2> QED
    BY <1>0, <1>12, <2>1, <2>2 DEF Unwind
<1>13. CASE UNCHANGED vars
  BY <1>13 DEF vars, TaintInv, Tainted, EnvTainted, WildBlame, Depth
<1> QED
  BY <1>1, <1>2, <1>3, <1>4, <1>5, <1>6, <1>7, <1>8, <1>9, <1>11, <1>12, <1>13 DEF Next

\* Under REG, when everything the start-up code calls reloads r15, a prolog
\* stores through a foreign r15 only in a function entered, through functions
\* without a prolog, from foreign code that some other function called: never
\* in what the start-up code calls, and never because of a jump.
THEOREM WildBlameHolds ==
  ASSUME Scheme = "REG", \A f \in InitFns \cup FiniFns \cup {Main} : LoadsR15(f)
  PROVE  Spec => []WildBlame
<1>1. TypeOK /\ TaintInv /\ WildBlame /\ [Next]_vars => TaintInv' /\ WildBlame'
  BY TaintNext DEF Reloads
<1> QED
  BY <1>1, TaintInit, TypeInit, TypeNext, PTL DEF Spec
================================================================================
