----------------------------- MODULE CodegenProofs -----------------------------
(***************************************************************************)
(* For every module of functions, every set of attributes, every set of    *)
(* passes and every order in which the functions are compiled: the         *)
(* subtarget cache hands each function the target it asked for, save for   *)
(* its code generation flags; and an activation of what the passes made    *)
(* ends as it was written to, but for the pass that the four other Blame   *)
(* properties name.                                                        *)
(*                                                                         *)
(* The invariant is in two parts.  CodeInv says what each function is like *)
(* in front of each pass and behind the last (Raw, then Compiled).  RunInv *)
(* says where the activation is in compiled code, what it has pushed, what *)
(* its slot and its flags are worth (Going), and how it ended (Ended).     *)
(***************************************************************************)
EXTENDS Codegen, TLAPS, SequenceTheorems, NaturalsInduction, WellFoundedInduction

(* The subtarget cache. *)

\* What a key is made of before the widths.
Strings == STRING \cup {"+soft-float"}

\* Attributes whose features cannot be mistaken for a width attribute.
Known(a) ==
  /\ a.soft \in BOOLEAN /\ "default" \notin {a.prefer, a.required}
  /\ Fragments(a) \in Seq(Strings)
  /\ \A i \in 1 .. Len(Fragments(a)) : Fragments(a)[i] \notin WidthNames

\* Soft float, behind features that are no width attributes, is none either.
LEMMA FeaturesKnown ==
  ASSUME NEW a, a.soft \in BOOLEAN, "default" \notin {a.prefer, a.required}, Features(FSOf(a))
  PROVE  Known(a)
<1> DEFINE fs == FSOf(a)
           soft == IF a.soft THEN <<"+soft-float">> ELSE <<>>
<1>1. fs \in Seq(STRING) /\ \A i \in 1 .. Len(fs) : fs[i] \notin WidthNames
  BY DEF Features
<1>s. fs \in Seq(Strings)
  BY <1>1 DEF Strings
<1>2. soft \in Seq(Strings) /\ \A i \in 1 .. Len(soft) : soft[i] \notin WidthNames
  <2>1. CASE a.soft
    BY <2>1 DEF Strings, WidthNames
  <2>2. CASE ~ a.soft
    BY <2>2
  <2> QED  BY <2>1, <2>2
<1>3. Fragments(a) = fs \o soft
  BY DEF Fragments
<1> HIDE DEF fs, soft
<1>4. \A i \in 1 .. Len(fs \o soft) : (fs \o soft)[i] \notin WidthNames
  <2>1. fs \in Seq(Strings) /\ soft \in Seq(Strings)
    BY <1>s, <1>2
  <2>2. \A i \in 1 .. Len(fs \o soft) : (fs \o soft)[i] = IF i <= Len(fs) THEN fs[i] ELSE soft[i - Len(fs)]
    BY <2>1, ConcatProperties
  <2>3. Len(fs \o soft) = Len(fs) + Len(soft) /\ Len(fs) \in Nat /\ Len(soft) \in Nat
    BY <2>1
  <2> QED  BY <2>2, <2>3, <1>1, <1>2
<1>5. fs \o soft \in Seq(Strings)
  BY <1>s, <1>2
<1> QED  BY <1>3, <1>4, <1>5 DEF Known

\* What the key's last part looks like: which names are in it says which widths
\* were asked for, and the numbers behind them say which.
LEMMA WidthsShape ==
  ASSUME NEW a, NEW S, WidthNames \cup {a.prefer, a.required} \subseteq S
  PROVE  LET w == Widths(a)
         IN  /\ w \in Seq(S)
             /\ \/ ~ IsWidth(a.prefer) /\ ~ IsWidth(a.required) /\ Len(w) = 0
                \/ /\ IsWidth(a.prefer) /\ ~ IsWidth(a.required) /\ Len(w) = 2
                   /\ w[1] = "prefer-vector-width=" /\ w[2] = a.prefer
                \/ /\ ~ IsWidth(a.prefer) /\ IsWidth(a.required) /\ Len(w) = 2
                   /\ w[1] = "required-vector-width=" /\ w[2] = a.required
                \/ /\ IsWidth(a.prefer) /\ IsWidth(a.required) /\ Len(w) = 4
                   /\ w[1] = "prefer-vector-width=" /\ w[2] = a.prefer /\ w[4] = a.required
<1> DEFINE p == WidthKey("prefer-vector-width=", a.prefer)
           r == WidthKey("required-vector-width=", a.required)
<1>1. /\ p \in Seq(S)
      /\ IsWidth(a.prefer) => Len(p) = 2 /\ p[1] = "prefer-vector-width=" /\ p[2] = a.prefer
      /\ ~ IsWidth(a.prefer) => Len(p) = 0
  <2>1. CASE IsWidth(a.prefer)
    BY <2>1 DEF WidthKey, WidthNames
  <2>2. CASE ~ IsWidth(a.prefer)
    BY <2>2 DEF WidthKey
  <2> QED  BY <2>1, <2>2
<1>2. /\ r \in Seq(S)
      /\ IsWidth(a.required) => Len(r) = 2 /\ r[1] = "required-vector-width=" /\ r[2] = a.required
      /\ ~ IsWidth(a.required) => Len(r) = 0
  <2>1. CASE IsWidth(a.required)
    BY <2>1 DEF WidthKey, WidthNames
  <2>2. CASE ~ IsWidth(a.required)
    BY <2>2 DEF WidthKey
  <2> QED  BY <2>1, <2>2
<1>3. Widths(a) = p \o r
  BY DEF Widths
<1> HIDE DEF p, r
<1>4. /\ p \o r \in Seq(S)
      /\ Len(p \o r) = Len(p) + Len(r)
      /\ \A i \in 1 .. Len(p) + Len(r) : (p \o r)[i] = IF i <= Len(p) THEN p[i] ELSE r[i - Len(p)]
  BY <1>1, <1>2, ConcatProperties
<1>5. CASE IsWidth(a.prefer) /\ IsWidth(a.required)
  <2>0. Len(p) = 2 /\ Len(r) = 2
    BY <1>1, <1>2, <1>5
  <2>1. Len(p \o r) = 4 /\ (p \o r)[1] = p[1] /\ (p \o r)[2] = p[2] /\ (p \o r)[4] = r[2]
    BY <2>0, <1>4
  <2> QED  BY <1>1, <1>2, <1>3, <1>4, <1>5, <2>1
<1>6. CASE IsWidth(a.prefer) /\ ~ IsWidth(a.required)
  <2>1. Len(p \o r) = 2 /\ (p \o r)[1] = p[1] /\ (p \o r)[2] = p[2]
    BY <1>1, <1>2, <1>4, <1>6
  <2> QED  BY <1>1, <1>3, <1>4, <1>6, <2>1
<1>7. CASE ~ IsWidth(a.prefer) /\ IsWidth(a.required)
  <2>1. Len(p) = 0 /\ Len(r) = 2
    BY <1>1, <1>2, <1>7
  <2>2. Len(p \o r) = 2
    BY <2>1, <1>4
  <2>3. (p \o r)[1] = r[1] /\ (p \o r)[2] = r[2]
    BY <2>1, <1>4
  <2>4. r[1] = "required-vector-width=" /\ r[2] = a.required
    BY <1>2, <1>7
  <2>5. /\ Widths(a) \in Seq(S) /\ Len(Widths(a)) = 2
        /\ Widths(a)[1] = "required-vector-width=" /\ Widths(a)[2] = a.required
    BY <1>3, <1>4, <2>2, <2>3, <2>4
  <2> QED  BY <1>7, <2>5
<1>8. CASE ~ IsWidth(a.prefer) /\ ~ IsWidth(a.required)
  <2>1. Len(p \o r) = 0
    BY <1>1, <1>2, <1>4, <1>8
  <2> QED  BY <1>3, <1>4, <1>8, <2>1
<1> QED  BY <1>5, <1>6, <1>7, <1>8

\* The key in its three parts.
LEMMA KeyShape ==
  ASSUME NEW a, Known(a)
  PROVE  LET k == Key(a)  l == Len(Fragments(a))  w == Widths(a)
         IN  /\ l \in Nat /\ Len(w) \in {0, 2, 4} /\ Len(k) = 1 + l + Len(w)
             /\ DOMAIN k = 1 .. Len(k)
             /\ k[1] = CPUOf(a)
             /\ \A i \in 1 .. l : k[1 + i] = Fragments(a)[i]
             /\ \A i \in 1 .. Len(w) : k[1 + l + i] = w[i]
             /\ Len(w) > 0 => w[1] \in WidthNames
             /\ SubSeq(k, 2, 1 + l) = Fragments(a)
<1> DEFINE k == Key(a)
           fr == Fragments(a)
           l == Len(fr)
           w == Widths(a)
           cpu == CPUOf(a)
           S == Strings \cup {cpu} \cup WidthNames \cup {a.prefer, a.required}
<1>1. fr \in Seq(Strings)
  BY DEF Known
<1>2. fr \in Seq(S)
  BY <1>1
<1>3. /\ w \in Seq(S) /\ Len(w) \in {0, 2, 4} /\ (Len(w) > 0 => w[1] \in WidthNames)
  <2> HIDE DEF w
  <2>1. WidthNames \cup {a.prefer, a.required} \subseteq S
    OBVIOUS
  <2> HIDE DEF S
  <2> QED  BY <2>1, WidthsShape DEF w, WidthNames
<1>4. cpu \in S /\ <<cpu>> \in Seq(S)
  OBVIOUS
<1>5. k = (<<cpu>> \o fr) \o w
  BY DEF Key
<1> HIDE DEF k, fr, w, cpu, S
<1>l. l \in Nat /\ Len(w) \in Nat
  BY <1>1, <1>3
<1> DEFINE h == <<cpu>> \o fr
<1>6. h \in Seq(S) /\ Len(h) = 1 + l /\ h[1] = cpu /\ \A i \in 1 .. l : h[1 + i] = fr[i]
  <2>1. Len(<<cpu>>) = 1 /\ <<cpu>>[1] = cpu
    OBVIOUS
  <2>2. /\ h \in Seq(S) /\ Len(h) = 1 + l
        /\ \A i \in 1 .. 1 + l : h[i] = IF i <= 1 THEN <<cpu>>[i] ELSE fr[i - 1]
    BY <1>2, <1>4, <2>1, ConcatProperties
  <2> HIDE DEF h
  <2>3. \A i \in 1 .. l : 1 + i \in 1 .. 1 + l /\ ~ (1 + i <= 1) /\ (1 + i) - 1 = i
    BY <1>l
  <2>4. 1 \in 1 .. 1 + l
    BY <1>l
  <2> QED  BY <2>1, <2>2, <2>3, <2>4
<1> HIDE DEF h
<1>7. k = h \o w
  BY <1>5 DEF h
<1>8. /\ k \in Seq(S) /\ Len(k) = 1 + l + Len(w)
      /\ \A i \in 1 .. 1 + l : k[i] = h[i]
      /\ \A i \in 1 .. Len(w) : k[1 + l + i] = w[i]
  <2>1. /\ k \in Seq(S) /\ Len(k) = 1 + l + Len(w)
        /\ \A i \in 1 .. 1 + l + Len(w) : k[i] = IF i <= 1 + l THEN h[i] ELSE w[i - (1 + l)]
    <3>1. /\ k \in Seq(S) /\ Len(k) = Len(h) + Len(w)
          /\ \A i \in 1 .. Len(h) + Len(w) : k[i] = IF i <= Len(h) THEN h[i] ELSE w[i - Len(h)]
      <4>1. h \in Seq(S) /\ w \in Seq(S)
        BY <1>3, <1>6
      <4>2. /\ h \o w \in Seq(S) /\ Len(h \o w) = Len(h) + Len(w)
            /\ \A i \in 1 .. Len(h) + Len(w) : (h \o w)[i] = IF i <= Len(h) THEN h[i] ELSE w[i - Len(h)]
        BY <4>1, ConcatProperties
      <4> QED  BY <4>2, <1>7
    <3>2. Len(h) = 1 + l
      BY <1>6
    <3> QED  BY <3>1, <3>2
  <2>2. \A i \in 1 .. Len(w) : 1 + l + i \in 1 .. 1 + l + Len(w) /\ ~ (1 + l + i <= 1 + l) /\ (1 + l + i) - (1 + l) = i
    BY <1>l
  <2>3. \A i \in 1 .. 1 + l : i \in 1 .. 1 + l + Len(w) /\ i <= 1 + l
    BY <1>l
  <2> QED  BY <2>1, <2>2, <2>3
<1>9. k[1] = cpu /\ \A i \in 1 .. l : k[1 + i] = fr[i]
  BY <1>6, <1>8, <1>l
<1>10. SubSeq(k, 2, 1 + l) = fr
  <2> DEFINE s == SubSeq(k, 2, 1 + l)
  <2>1. 2 \in Int /\ 1 + l \in Int /\ 1 + l <= Len(k) /\ 1 + l - 2 + 1 = l
    BY <1>8, <1>l
  <2>0. /\ s \in Seq(S) /\ Len(s) = l
        /\ \A i \in 1 .. l : s[i] = k[2 + i - 1]
    <3>1. \A i \in 2 .. 1 + l : k[i] \in S
      BY <2>1, <1>l, <1>8
    <3>2. /\ s \in Seq(S) /\ Len(s) = IF 2 <= 1 + l THEN 1 + l - 2 + 1 ELSE 0
          /\ \A i \in 1 .. 1 + l - 2 + 1 : s[i] = k[2 + i - 1]
      BY <3>1, <2>1, SubSeqProperties
    <3> QED  BY <3>2, <2>1, <1>l
  <2>2. s = [i \in 1 .. l |-> k[2 + i - 1]]
    <3> HIDE DEF s
    <3> QED  BY <2>0
  <2>3. \A i \in 1 .. l : 2 + i - 1 = 1 + i
    BY <1>l
  <2>4. s = [i \in 1 .. l |-> fr[i]]
    BY <2>2, <2>3, <1>9
  <2>5. fr = [i \in 1 .. l |-> fr[i]]
    BY <1>2
  <2> QED  BY <2>4, <2>5
<1>11. DOMAIN k = 1 .. Len(k)
  BY <1>8
<1> QED  BY <1>3, <1>8, <1>9, <1>10, <1>11, <1>l DEF k, fr, w, cpu

\* No two requests share a key: neither the end of the features nor a missing
\* width can be read in two ways.  SubtargetMap is as good as no cache at all
\* only because of this.
LEMMA KeyExact ==
  ASSUME NEW a, NEW b, Known(a), Known(b), Key(a) = Key(b)
  PROVE  Asked(a) = Asked(b)
<1> DEFINE k == Key(a)
           la == Len(Fragments(a))
           lb == Len(Fragments(b))
           va == Widths(a)
           vb == Widths(b)
<1>1. /\ la \in Nat /\ Len(va) \in {0, 2, 4} /\ Len(k) = 1 + la + Len(va)
      /\ k[1] = CPUOf(a)
      /\ \A i \in 1 .. la : k[1 + i] = Fragments(a)[i]
      /\ \A i \in 1 .. Len(va) : k[1 + la + i] = va[i]
      /\ Len(va) > 0 => va[1] \in WidthNames
  BY KeyShape
<1>2. /\ lb \in Nat /\ Len(vb) \in {0, 2, 4} /\ Len(k) = 1 + lb + Len(vb)
      /\ k[1] = CPUOf(b)
      /\ \A i \in 1 .. lb : k[1 + i] = Fragments(b)[i]
      /\ \A i \in 1 .. Len(vb) : k[1 + lb + i] = vb[i]
      /\ Len(vb) > 0 => vb[1] \in WidthNames
  BY KeyShape
<1>3. /\ Fragments(a) = [i \in 1 .. la |-> Fragments(a)[i]] /\ \A i \in 1 .. la : Fragments(a)[i] \notin WidthNames
      /\ Fragments(b) = [i \in 1 .. lb |-> Fragments(b)[i]] /\ \A i \in 1 .. lb : Fragments(b)[i] \notin WidthNames
  BY DEF Known
<1> HIDE DEF k, la, lb, va, vb
<1>4. ~ (la < lb)
  <2> SUFFICES ASSUME la < lb PROVE FALSE
    OBVIOUS
  <2>1. la + 1 \in 1 .. lb /\ 1 + (la + 1) = 1 + la + 1
    BY <1>1, <1>2
  <2>2. 1 \in 1 .. Len(va)
    BY <1>1, <1>2
  <2>3. k[1 + la + 1] = va[1] /\ va[1] \in WidthNames
    BY <2>2, <1>1
  <2>4. k[1 + (la + 1)] = Fragments(b)[la + 1]
    BY <2>1, <1>2
  <2> QED  BY <2>1, <2>3, <2>4, <1>3
<1>5. ~ (lb < la)
  <2> SUFFICES ASSUME lb < la PROVE FALSE
    OBVIOUS
  <2>1. lb + 1 \in 1 .. la /\ 1 + (lb + 1) = 1 + lb + 1
    BY <1>1, <1>2
  <2>2. 1 \in 1 .. Len(vb)
    BY <1>1, <1>2
  <2>3. k[1 + lb + 1] = vb[1] /\ vb[1] \in WidthNames
    BY <2>2, <1>2
  <2>4. k[1 + (lb + 1)] = Fragments(a)[lb + 1]
    BY <2>1, <1>1
  <2> QED  BY <2>1, <2>3, <2>4, <1>3
<1>6. la = lb /\ Len(va) = Len(vb)
  BY <1>1, <1>2, <1>4, <1>5
<1>7. Fragments(a) = Fragments(b)
  BY <1>1, <1>2, <1>3, <1>6
<1>8. \A i \in 1 .. Len(va) : va[i] = vb[i]
  BY <1>1, <1>2, <1>6
<1>9. Width(a.prefer) = Width(b.prefer) /\ Width(a.required) = Width(b.required)
  <2> DEFINE S == WidthNames \cup {a.prefer, a.required, b.prefer, b.required}
  <2>1. \/ ~ IsWidth(a.prefer) /\ ~ IsWidth(a.required) /\ Len(va) = 0
        \/ /\ IsWidth(a.prefer) /\ ~ IsWidth(a.required) /\ Len(va) = 2
           /\ va[1] = "prefer-vector-width=" /\ va[2] = a.prefer
        \/ /\ ~ IsWidth(a.prefer) /\ IsWidth(a.required) /\ Len(va) = 2
           /\ va[1] = "required-vector-width=" /\ va[2] = a.required
        \/ /\ IsWidth(a.prefer) /\ IsWidth(a.required) /\ Len(va) = 4
           /\ va[1] = "prefer-vector-width=" /\ va[2] = a.prefer /\ va[4] = a.required
    <3>1. WidthNames \cup {a.prefer, a.required} \subseteq S
      OBVIOUS
    <3> HIDE DEF S
    <3> QED  BY <3>1, WidthsShape DEF va
  <2>2. \/ ~ IsWidth(b.prefer) /\ ~ IsWidth(b.required) /\ Len(vb) = 0
        \/ /\ IsWidth(b.prefer) /\ ~ IsWidth(b.required) /\ Len(vb) = 2
           /\ vb[1] = "prefer-vector-width=" /\ vb[2] = b.prefer
        \/ /\ ~ IsWidth(b.prefer) /\ IsWidth(b.required) /\ Len(vb) = 2
           /\ vb[1] = "required-vector-width=" /\ vb[2] = b.required
        \/ /\ IsWidth(b.prefer) /\ IsWidth(b.required) /\ Len(vb) = 4
           /\ vb[1] = "prefer-vector-width=" /\ vb[2] = b.prefer /\ vb[4] = b.required
    <3>1. WidthNames \cup {b.prefer, b.required} \subseteq S
      OBVIOUS
    <3> HIDE DEF S
    <3> QED  BY <3>1, WidthsShape DEF vb
  <2>3. CASE Len(va) = 0
    BY <2>1, <2>2, <2>3, <1>6 DEF Width
  <2>4. CASE Len(va) = 2
    <3>0. Len(vb) = 2
      BY <2>4, <1>6
    <3>1. va[1] = vb[1] /\ va[2] = vb[2]
      BY <2>4, <1>8
    <3>2. /\ IsWidth(a.prefer) <=> va[1] = "prefer-vector-width="
          /\ IsWidth(a.required) <=> ~ IsWidth(a.prefer)
          /\ IsWidth(a.prefer) => va[2] = a.prefer
          /\ IsWidth(a.required) => va[2] = a.required
      BY <2>1, <2>4
    <3>3. /\ IsWidth(b.prefer) <=> vb[1] = "prefer-vector-width="
          /\ IsWidth(b.required) <=> ~ IsWidth(b.prefer)
          /\ IsWidth(b.prefer) => vb[2] = b.prefer
          /\ IsWidth(b.required) => vb[2] = b.required
      BY <2>2, <3>0
    <3> QED  BY <3>1, <3>2, <3>3 DEF Width
  <2>5. CASE Len(va) = 4
    <3>0. Len(vb) = 4
      BY <2>5, <1>6
    <3>1. va[2] = vb[2] /\ va[4] = vb[4]
      BY <2>5, <1>8
    <3>2. IsWidth(a.prefer) /\ IsWidth(a.required) /\ va[2] = a.prefer /\ va[4] = a.required
      BY <2>1, <2>5
    <3>3. IsWidth(b.prefer) /\ IsWidth(b.required) /\ vb[2] = b.prefer /\ vb[4] = b.required
      BY <2>2, <3>0
    <3> QED  BY <3>1, <3>2, <3>3 DEF Width
  <2> QED  BY <2>3, <2>4, <2>5, <1>1
<1>10. CPUOf(a) = CPUOf(b)
  BY <1>1, <1>2
<1> QED  BY <1>7, <1>9, <1>10 DEF Asked

\* Requests that are alike have the same key: a width is never called "default".
LEMMA KeyComplete ==
  ASSUME NEW a, NEW b, Known(a), Known(b), Asked(a) = Asked(b)
  PROVE  Key(a) = Key(b)
<1>1. /\ CPUOf(a) = CPUOf(b) /\ Fragments(a) = Fragments(b)
      /\ Width(a.prefer) = Width(b.prefer) /\ Width(a.required) = Width(b.required)
  BY DEF Asked
<1>2. WidthKey("prefer-vector-width=", a.prefer) = WidthKey("prefer-vector-width=", b.prefer)
  BY <1>1 DEF Width, WidthKey, Known
<1>3. WidthKey("required-vector-width=", a.required) = WidthKey("required-vector-width=", b.required)
  BY <1>1 DEF Width, WidthKey, Known
<1> QED  BY <1>1, <1>2, <1>3 DEF Key, Widths

\* The features are cut out of the key where they were put in.
Made(a) == [args |-> Asked(a), flags |-> a.flags]
LEMMA NewSubtargetExact ==
  ASSUME NEW a, Known(a)
  PROVE  NewSubtarget(a) = Made(a)
<1>1. SubSeq(Key(a), 2, 1 + Len(Fragments(a))) = Fragments(a)
  BY KeyShape
<1> QED  BY <1>1 DEF NewSubtarget, ResetTargetOptions, Made, Asked

\* The functions of the module, and the thunk.
LEMMA AttrsKnown ==
  ASSUME NEW f \in Fns \cup {Thunk}
  PROVE  Known(AttrsOf(f))
<1> DEFINE a == AttrsOf(f)
<1>1. /\ a.soft \in BOOLEAN /\ (Features(a.fs) \/ a.fs = <<"none">>)
      /\ "default" \notin {a.prefer, a.required}
  BY AttrsAssumption, FunctionsAssumption DEF AttrsOf, Plain, AttrsAssumption, FunctionsAssumption
<1> HIDE DEF a
<1>2. Features(FSOf(a))
  BY <1>1, AttrsAssumption DEF FSOf, AttrsAssumption
<1> QED  BY <1>1, <1>2, FeaturesKnown DEF a

\* The invariant: what is cached under a key was made for a function that has it,
\* and every function compiled so far has what is cached under its own.
CacheInv ==
  /\ DOMAIN got \subseteq Fns \cup {Thunk}
  /\ \A k \in DOMAIN cache :
        \E f \in DOMAIN got : k = Key(AttrsOf(f)) /\ cache[k] = Made(AttrsOf(f))
  /\ \A f \in DOMAIN got : Key(AttrsOf(f)) \in DOMAIN cache /\ got[f] = cache[Key(AttrsOf(f))]

\* A hit finds the subtarget some function made; a miss makes a new one.
LEMMA SelectCacheInv ==
  ASSUME CacheInv, NEW f \in Fns \cup {Thunk}, Select(f)
  PROVE  CacheInv'
<1> DEFINE key(g) == Key(AttrsOf(g))
           made(g) == Made(AttrsOf(g))
<1>1. Known(AttrsOf(f))
  BY AttrsKnown
<1>2. cache' = SubtargetMap(AttrsOf(f)) /\ got' = Put(got, f, cache'[key(f)])
  BY DEF Select
<1>3. got' = [g \in DOMAIN got \cup {f} |-> IF g = f THEN cache'[key(f)] ELSE got[g]]
  BY <1>2 DEF Put
<1>4. /\ \A k \in DOMAIN cache : k \in DOMAIN cache' /\ cache'[k] = cache[k]
      /\ key(f) \in DOMAIN cache'
      /\ \A k \in DOMAIN cache' \ DOMAIN cache : k = key(f) /\ cache'[k] = made(f)
  <2>1. CASE key(f) \in DOMAIN cache
    BY <1>2, <2>1 DEF SubtargetMap
  <2>2. CASE key(f) \notin DOMAIN cache
    <3>1. cache' = [k \in DOMAIN cache \cup {key(f)} |-> IF k = key(f) THEN NewSubtarget(AttrsOf(f)) ELSE cache[k]]
      BY <1>2, <2>2 DEF SubtargetMap, Put
    <3>2. NewSubtarget(AttrsOf(f)) = made(f)
      BY <1>1, NewSubtargetExact
    <3> HIDE DEF key, made
    <3> QED  BY <2>2, <3>1, <3>2
  <2> QED  BY <2>1, <2>2
<1>5. /\ DOMAIN got \subseteq Fns \cup {Thunk}
      /\ \A k \in DOMAIN cache : \E g \in DOMAIN got : k = key(g) /\ cache[k] = made(g)
      /\ \A g \in DOMAIN got : key(g) \in DOMAIN cache /\ got[g] = cache[key(g)]
  BY DEF CacheInv
<1> HIDE DEF key, made
<1>6. /\ DOMAIN got' \subseteq Fns \cup {Thunk}
      /\ \A k \in DOMAIN cache' : \E g \in DOMAIN got' : k = key(g) /\ cache'[k] = made(g)
      /\ \A g \in DOMAIN got' : key(g) \in DOMAIN cache' /\ got'[g] = cache'[key(g)]
  <2>1. DOMAIN got' = DOMAIN got \cup {f}
    BY <1>3
  <2>2. ASSUME NEW k \in DOMAIN cache' PROVE \E g \in DOMAIN got' : k = key(g) /\ cache'[k] = made(g)
    <3>1. CASE k \in DOMAIN cache
      BY <1>4, <1>5, <2>1, <3>1
    <3>2. CASE k \notin DOMAIN cache
      BY <1>4, <2>1, <3>2
    <3> QED  BY <3>1, <3>2
  <2>3. ASSUME NEW g \in DOMAIN got' PROVE key(g) \in DOMAIN cache' /\ got'[g] = cache'[key(g)]
    <3>1. CASE g = f
      BY <1>3, <1>4, <2>1, <3>1
    <3>2. CASE g # f
      BY <1>3, <1>4, <1>5, <2>1, <3>2
    <3> QED  BY <3>1, <3>2
  <2> QED  BY <1>5, <2>1, <2>2, <2>3
<1> QED  BY <1>6 DEF CacheInv, key, made, Made, Key, Widths, WidthKey, IsWidth, Asked, Width, CPUOf, FSOf, Fragments, AttrsOf

\* Only the selection of a function touches the cache.
LEMMA OtherStepsCache ==
  ASSUME [Next]_vars
  PROVE  UNCHANGED <<cache, got>> \/ \E f \in Fns \cup {Thunk} : Select(f)
<1> DEFINE Kept == UNCHANGED <<cache, got>>
<1>1. ASSUME NEW name, NEW blocks, Pass(name, blocks) PROVE Kept
  BY <1>1 DEF Pass
<1>2. ASSUME RunMPX \/ RunRegAlloc \/ RunIBT \/ RunCount \/ RunXRay PROVE Kept
  BY <1>1, <1>2 DEF RunMPX, RunRegAlloc, RunIBT, RunCount, RunXRay
<1>3. ASSUME RunShadow PROVE Kept
  BY <1>1, <1>3 DEF RunShadow
<1>4. ASSUME RunThunks PROVE Kept
  BY <1>1, <1>4 DEF RunThunks
<1>5. ASSUME Emit PROVE Kept
  BY <1>5 DEF Emit
<1>6. ASSUME NEW f, Start(f) PROVE Kept
  BY <1>6 DEF Start
<1>7. ASSUME NEW r, Step(r) PROVE Kept
  BY <1>7 DEF Step
<1>8. ASSUME Quiet \/ Count \/ Write \/ Aim \/ Check \/ Compare \/ Branch \/ Prolog \/ RunEpilog \/ Leave \/ LeaveIf
      PROVE  \E r : Step(r)
  <2>1. CASE Quiet BY <2>1 DEF Quiet
  <2>2. CASE Count BY <2>2 DEF Count
  <2>3. CASE Write BY <2>3 DEF Write
  <2>4. CASE Aim BY <2>4 DEF Aim
  <2>5. CASE Check BY <2>5 DEF Check
  <2>6. CASE Compare BY <2>6 DEF Compare
  <2>7. CASE Branch BY <2>7 DEF Branch
  <2>8. CASE Prolog BY <2>8 DEF Prolog
  <2>9. CASE RunEpilog BY <2>9 DEF RunEpilog
  <2>10. CASE Leave BY <2>10 DEF Leave
  <2>11. CASE LeaveIf BY <2>11 DEF LeaveIf
  <2> QED  BY <1>8, <2>1, <2>2, <2>3, <2>4, <2>5, <2>6, <2>7, <2>8, <2>9, <2>10, <2>11
<1>9. CASE UNCHANGED vars
  BY <1>9 DEF vars
<1> HIDE DEF Kept
<1>10. ASSUME Next PROVE Kept \/ \E f \in Fns \cup {Thunk} : Select(f)
  BY <1>10, <1>2, <1>3, <1>4, <1>5, <1>6, <1>7, <1>8 DEF Next
<1> QED  BY <1>9, <1>10 DEF Kept

\* Every function is compiled for the CPU, features and widths its own attributes
\* ask for, and shares its subtarget with those that ask for the same, for every
\* module and every set of attributes: the key leaves none of these out.  Of the
\* code generation flags it leaves out all: the subtarget may be one created under
\* the flags of another function that asks for the same.
THEOREM SubtargetBlameHolds == Spec => []SubtargetBlame
<1>1. Init => CacheInv
  BY DEF Init, CacheInv
<1>2. CacheInv /\ [Next]_vars => CacheInv'
  <2> SUFFICES ASSUME CacheInv, [Next]_vars PROVE CacheInv'
    OBVIOUS
  <2>1. CASE UNCHANGED <<cache, got>>
    BY <2>1 DEF CacheInv
  <2>2. CASE \E f \in Fns \cup {Thunk} : Select(f)
    BY <2>2, SelectCacheInv
  <2> QED  BY <2>1, <2>2, OtherStepsCache
<1>3. CacheInv => SubtargetBlame
  <2> SUFFICES ASSUME CacheInv, NEW f \in DOMAIN got
               PROVE  LET alike == {g \in DOMAIN got : Asked(AttrsOf(g)) = Asked(AttrsOf(f))} IN
                      /\ got[f].args = Asked(AttrsOf(f))
                      /\ \A g \in alike : got[g] = got[f]
                      /\ got[f].flags # AttrsOf(f).flags =>
                           \E g \in alike \ {f} : got[f].flags = AttrsOf(g).flags
    BY DEF SubtargetBlame
  <2>1. PICK h \in DOMAIN got : Key(AttrsOf(f)) = Key(AttrsOf(h)) /\ got[f] = Made(AttrsOf(h))
    BY DEF CacheInv
  <2>2. \A g \in DOMAIN got : Known(AttrsOf(g))
    BY AttrsKnown DEF CacheInv
  <2>3. Asked(AttrsOf(f)) = Asked(AttrsOf(h))
    BY <2>1, <2>2, KeyExact
  <2>4. got[f].args = Asked(AttrsOf(h)) /\ got[f].flags = AttrsOf(h).flags
    BY <2>1 DEF Made
  <2>5. ASSUME NEW g \in DOMAIN got, Asked(AttrsOf(g)) = Asked(AttrsOf(f)) PROVE got[g] = got[f]
    <3>1. Key(AttrsOf(g)) = Key(AttrsOf(f))
      BY <2>2, <2>5, KeyComplete
    <3> QED  BY <3>1 DEF CacheInv
  <2> QED  BY <2>3, <2>4, <2>5
<1> QED  BY <1>1, <1>2, <1>3, PTL DEF Spec

-----------------------------------------------------------------------------
(* Compiled code. *)

\* Instructions of compiled code.
Inserted == {"spill", "count", "load", "prolog", "epilog", "epilogjmp", "check", "endbr", "enter", "sledret", "sledtail"}
All      == Program \cup Inserted
Jumps    == {"jcc", "jmp"}
Pops     == {"epilog", "epilogjmp"}
Blocks   == [ins : Seq(All), to : Nat]

\* A block that control enters, passes and leaves as the processor does.
Solid(x, n) ==
  /\ Len(x.ins) >= 1
  /\ \A k \in 1 .. Len(x.ins) - 1 : x.ins[k] \in Returns => x.ins[k] = "cctail" /\ Back(x) = "jmp"
  /\ \A k \in 1 .. Len(x.ins) : x.ins[k] \in Jumps => x.to \in 2 .. n
  /\ \A k \in 1 .. Len(x.ins) : x.ins[k] = "check" => k < Len(x.ins) /\ x.ins[k + 1] # "prolog"
Sturdy(c) ==
  /\ c \in Seq(Blocks) /\ Len(c) >= 1
  /\ \A b \in 1 .. Len(c) : Solid(c[b], Len(c))
  /\ Back(c[Len(c)]) \in {"jmp"} \cup (Returns \ {"cctail"})

\* Only a block that ends in EH_RETURN, and has no branch, aims.
Aimed(x) == \A k \in 1 .. Len(x.ins) : x.ins[k] = "aim" =>
              Back(x) = "ehret" /\ \A j \in 1 .. Len(x.ins) : x.ins[j] \notin Jumps
Aims(c) == \A b \in 1 .. Len(c) : Aimed(c[b])

\* No instruction of the code is in S.
Without(c, S) == \A b \in 1 .. Len(c) : \A k \in 1 .. Len(c[b].ins) : c[b].ins[k] \notin S
Clean(c)   == Without(c, Pops \cup {"prolog"})
Counted(c) == build.count \/ Without(c, {"count"})

\* One prolog, in front of everything but the load of r15 and XRay's sled.
Opened(c, p) ==
  /\ p \in 1 .. Len(c[1].ins) /\ c[1].ins[p] = "prolog"
  /\ \A k \in 1 .. p - 1 : c[1].ins[k] \in {"load", "enter"}
  /\ \A b \in 1 .. Len(c) : \A k \in 1 .. Len(c[b].ins) : c[b].ins[k] = "prolog" => b = 1 /\ k = p
\* An epilog in front of the last instruction of a return block, and nowhere else.
Shut(f, x) ==
  /\ \A k \in 1 .. Len(x.ins) : x.ins[k] \in Pops =>
       /\ k = Len(x.ins) - 1 /\ Back(x) \in Returns /\ ~NeverPops(f)
       /\ x.ins[k] = "epilogjmp" => build.scheme = "REG" /\ ~IsCall(Back(x))
  /\ ~NeverPops(f) /\ Back(x) \in Returns => Len(x.ins) >= 2 /\ x.ins[Len(x.ins) - 1] \in Pops
Guarded(f, c) ==
  /\ Aims(c) /\ \E p \in 1 .. Len(c[1].ins) : Opened(c, p)
  /\ \A b \in 1 .. Len(c) : Shut(f, c[b])
Spared(c) == Clean(c) /\ Without(c, {"store"})

\* The functions whose landing pad is not their first instruction.
Displaced(f, c) ==
  \/ "prolog" \in ToSet(c[1].ins) \/ build.count \/ build.xray \/ f = Thunk
  \/ build.scheme = "REG" /\ (IsGlobalConstructor(f) \/ f = Main)

\* A compiled function.
Compiled(f, c) ==
  /\ Sturdy(c) /\ Counted(c) /\ (Guarded(f, c) \/ Spared(c))
  /\ build.ibt /\ c[1].ins[1] # "endbr" => Displaced(f, c)

\* What is left of the pipeline, from each place in it on, and what the code is
\* like there.
Opt(b, p, s) == IF b THEN <<p>> \o s ELSE s
P8 == <<>>
P7 == <<"thunks">>
P6 == Opt(build.xray, "xray", P7)
P5 == <<"shadow">> \o P6
P4 == Opt(build.count, "count", P5)
P3 == Opt(build.ibt, "ibt", P4)
P2 == <<"regalloc">> \o P3
P1 == Opt(build.mpx, "mpx", P2)
Raw(c) == Sturdy(c) /\ Aims(c) /\ Clean(c) /\ Counted(c)
Landing(c) == build.ibt => c[1].ins[1] = "endbr"
Stage(f, c, ps) ==
  \/ ps \in {P1, P2, P3} /\ Raw(c)
  \/ ps = P4 /\ Raw(c) /\ Landing(c)
  \/ ps = P5 /\ Raw(c) /\ (build.count \/ Landing(c))
  \/ ps \in {P6, P7, P8} /\ Compiled(f, c)

CodeInv ==
  /\ build \in Builds
  /\ todo \subseteq Fns \cup {Thunk} /\ DOMAIN code \subseteq Fns \cup {Thunk}
  /\ current # None =>
       /\ current = [fn |-> current.fn, passes |-> current.passes]
       /\ current.fn \in DOMAIN code /\ Stage(current.fn, code[current.fn], current.passes)
  /\ \A f \in DOMAIN code : current = None \/ f # current.fn => Compiled(f, code[f])
  /\ run # None => current = None /\ todo = {}

\* The activation.
Runs == [fn : Fns \cup {Thunk}, block : Nat, k : Nat, ra : {"good", "bad", "aimed"}, by : {"none", "store", "mixed", "call"},
         ahead : Int, flags : BOOLEAN, want : BOOLEAN, past : BOOLEAN,
         left : {"no", "trap", "refused", "fault", "jmp"} \cup Returns,
         odd : SUBSET {"entry", "branch", "args", "sled", "target"}]

\* It has passed the epilog of the block it is in.
JustPopped(r, c) == ~NeverPops(r.fn) /\ Back(c[r.block]) \in Returns /\ r.k = Len(c[r.block].ins)
\* It has passed the prolog.
Begun(r, c) == \E p \in 1 .. Len(c[1].ins) : Opened(c, p) /\ (r.block = 1 => r.k > p)

Places(r, c) == r.block \in 1 .. Len(c) /\ r.k \in 1 .. Len(c[r.block].ins)
Slot(r, c) ==
  /\ r.ra = "bad" => r.by # "none" /\ (Spared(c) => r.by # "store")
  /\ r.ra = "aimed" => Without(c, Pops) \/ (Back(c[r.block]) = "ehret" /\ \A j \in 1 .. Len(c[r.block].ins) : c[r.block].ins[j] \notin Jumps)
Entries(r, c) ==
  /\ Guarded(r.fn, c) /\ Begun(r, c) =>
       /\ build.scheme = "CON" \/ NeverPops(r.fn) => r.ahead = 1
       /\ r.ahead <= 1
       /\ build.scheme # "CON" /\ JustPopped(r, c) => r.ahead <= 0
       /\ r.ahead <= 0 => r.past \/ JustPopped(r, c)
       /\ r.ahead < 0 => r.past
       /\ JustPopped(r, c) => r.ra = "good"
       /\ r.flags # r.want => r.past \/ JustPopped(r, c)
  /\ ~(Guarded(r.fn, c) /\ Begun(r, c)) => r.flags = r.want
  /\ Guarded(r.fn, c) /\ ~Begun(r, c) => r.ahead = 0
Odds(r, c) ==
  /\ r.odd \subseteq {"entry", "branch"}
  /\ "branch" \in r.odd => Guarded(r.fn, c) /\ r.past
  /\ "entry" \in r.odd => Displaced(r.fn, c)
Going(r, c) == Places(r, c) /\ Slot(r, c) /\ Entries(r, c) /\ Odds(r, c)

-----------------------------------------------------------------------------
(* Putting instructions into code. *)

Neutral == {"spill", "count", "load", "prolog", "epilog", "epilogjmp", "check", "endbr", "enter"}

\* Checks stand in front of stores, and no prolog is one they could see.
Checked(y) == \A k \in 1 .. Len(y.ins) : y.ins[k] = "check" => k < Len(y.ins) /\ y.ins[k + 1] # "prolog"

\* y is x with instructions of S put in, none of them at the end.
Woven(x, y, S) ==
  /\ y \in Blocks /\ y.to = x.to /\ Len(y.ins) >= 1 /\ Back(y) = Back(x)
  /\ \A k \in 1 .. Len(y.ins) :
       y.ins[k] \in S \/ \E j \in 1 .. Len(x.ins) : y.ins[k] = x.ins[j] /\ (k < Len(y.ins) => j < Len(x.ins))
Weaves(c, d, S) ==
  /\ d \in Seq(Blocks) /\ Len(d) = Len(c) /\ S \subseteq Neutral
  /\ \A b \in 1 .. Len(c) : Woven(c[b], d[b], S) /\ Checked(d[b])

\* Nothing put in is the simplest case.
LEMMA WovenSelf ==
  ASSUME NEW x \in Blocks, Len(x.ins) >= 1, NEW S
  PROVE  Woven(x, x, S)
BY DEF Woven, Blocks

\* What the passes put in neither leaves, jumps nor aims.
LEMMA NeutralFacts ==
  ASSUME NEW i \in Neutral
  PROVE  i \in All /\ i \notin Returns /\ i \notin Jumps /\ i # "aim"
BY DEF Neutral, All, Inserted, Returns, Jumps

\* A block stays solid, if no check that is put in meets a prolog's store.
LEMMA WovenSolid ==
  ASSUME NEW x \in Blocks, NEW y, NEW S \in SUBSET Neutral, NEW n, Solid(x, n), Woven(x, y, S), Checked(y)
  PROVE  Solid(y, n)
<1>1. y.ins \in Seq(All) /\ Len(y.ins) \in Nat /\ x.ins \in Seq(All) /\ Len(x.ins) \in Nat
  BY DEF Woven, Blocks
<1>2. ASSUME NEW k \in 1 .. Len(y.ins) - 1, y.ins[k] \in Returns
      PROVE  y.ins[k] = "cctail" /\ Back(y) = "jmp"
  <2>1. k \in 1 .. Len(y.ins) /\ k < Len(y.ins) /\ y.ins[k] \notin S
    BY <1>1, <1>2, NeutralFacts
  <2>2. PICK j \in 1 .. Len(x.ins) : y.ins[k] = x.ins[j] /\ j < Len(x.ins)
    BY <2>1 DEF Woven
  <2>3. j \in 1 .. Len(x.ins) - 1
    BY <1>1, <2>2
  <2> QED  BY <1>2, <2>2, <2>3 DEF Solid, Woven
<1>3. ASSUME NEW k \in 1 .. Len(y.ins), y.ins[k] \in Jumps
      PROVE  y.to \in 2 .. n
  <2>1. PICK j \in 1 .. Len(x.ins) : y.ins[k] = x.ins[j]
    BY <1>3, NeutralFacts DEF Woven
  <2> QED  BY <1>3, <2>1 DEF Solid, Woven
<1> QED  BY <1>2, <1>3 DEF Solid, Woven, Checked

\* EH_RETURN's block stays one without branches.
LEMMA WovenAimed ==
  ASSUME NEW x \in Blocks, NEW y, NEW S \in SUBSET Neutral, Aimed(x), Woven(x, y, S)
  PROVE  Aimed(y)
<1> SUFFICES ASSUME NEW k \in 1 .. Len(y.ins), y.ins[k] = "aim"
             PROVE  Back(y) = "ehret" /\ \A j \in 1 .. Len(y.ins) : y.ins[j] \notin Jumps
  BY DEF Aimed
<1>1. PICK j \in 1 .. Len(x.ins) : y.ins[k] = x.ins[j]
  BY NeutralFacts DEF Woven
<1>2. Back(x) = "ehret" /\ \A i \in 1 .. Len(x.ins) : x.ins[i] \notin Jumps
  BY <1>1 DEF Aimed
<1>3. ASSUME NEW i \in 1 .. Len(y.ins), y.ins[i] \in Jumps PROVE FALSE
  <2>1. PICK l \in 1 .. Len(x.ins) : y.ins[i] = x.ins[l]
    BY <1>3, NeutralFacts DEF Woven
  <2> QED  BY <1>2, <1>3, <2>1
<1> QED  BY <1>2, <1>3 DEF Woven

\* Code stays sturdy.
LEMMA WeaveSturdy ==
  ASSUME NEW c, NEW d, NEW S, Sturdy(c), Weaves(c, d, S)
  PROVE  Sturdy(d)
<1>1. c \in Seq(Blocks) /\ Len(c) \in Nat /\ Len(c) >= 1 /\ Len(d) = Len(c) /\ d \in Seq(Blocks) /\ S \in SUBSET Neutral
  BY DEF Sturdy, Weaves
<1>2. ASSUME NEW b \in 1 .. Len(c) PROVE Solid(d[b], Len(d))
  <2>1. c[b] \in Blocks /\ Solid(c[b], Len(c)) /\ Woven(c[b], d[b], S) /\ Checked(d[b])
    BY <1>1, <1>2 DEF Sturdy, Weaves
  <2> QED  BY <1>1, <2>1, WovenSolid
<1>3. Back(d[Len(d)]) = Back(c[Len(c)])
  BY <1>1 DEF Weaves, Woven
<1> QED  BY <1>1, <1>2, <1>3 DEF Sturdy

\* The aiming blocks stay what they are.
LEMMA WeaveAims ==
  ASSUME NEW c, NEW d, NEW S, Sturdy(c), Weaves(c, d, S), Aims(c)
  PROVE  Aims(d)
<1> SUFFICES ASSUME NEW b \in 1 .. Len(d) PROVE Aimed(d[b])
  BY DEF Aims
<1>1. b \in 1 .. Len(c) /\ c[b] \in Blocks /\ S \in SUBSET Neutral /\ Aimed(c[b]) /\ Woven(c[b], d[b], S)
  BY DEF Sturdy, Weaves, Aims
<1> QED  BY <1>1, WovenAimed

\* No instruction appears that the pass does not put in.
LEMMA WeaveWithout ==
  ASSUME NEW c, NEW d, NEW S, NEW T, Weaves(c, d, S), Without(c, T), S \cap T = {}
  PROVE  Without(d, T)
<1> SUFFICES ASSUME NEW b \in 1 .. Len(d), NEW k \in 1 .. Len(d[b].ins), d[b].ins[k] \in T PROVE FALSE
  BY DEF Without
<1>1. b \in 1 .. Len(c) /\ Woven(c[b], d[b], S) /\ d[b].ins[k] \notin S
  BY DEF Weaves
<1>2. PICK j \in 1 .. Len(c[b].ins) : d[b].ins[k] = c[b].ins[j]
  BY <1>1 DEF Woven
<1> QED  BY <1>1, <1>2 DEF Without

\* What survives any pass that only puts instructions in.
LEMMA WeaveRaw ==
  ASSUME NEW c, NEW d, NEW S, Raw(c), Weaves(c, d, S), S \cap (Pops \cup {"prolog"}) = {},
         build.count \/ "count" \notin S
  PROVE  Raw(d)
<1>1. Sturdy(d) /\ Aims(d) /\ Clean(d)
  BY WeaveSturdy, WeaveAims, WeaveWithout DEF Raw, Clean
<1>2. Counted(d)
  <2>1. CASE build.count
    BY <2>1 DEF Counted
  <2>2. CASE ~build.count
    BY <2>2, WeaveWithout DEF Raw, Counted
  <2> QED  BY <2>1, <2>2
<1> QED  BY <1>1, <1>2 DEF Raw

\* A sequence behind one more element.
LEMMA InFront ==
  ASSUME NEW s \in Seq(All), NEW i \in All, NEW t, t = <<i>> \o s
  PROVE  /\ t \in Seq(All) /\ Len(t) = Len(s) + 1 /\ t[1] = i /\ Len(s) \in Nat
         /\ \A k \in 1 .. Len(s) : t[k + 1] = s[k]
         /\ \A k \in 1 .. Len(t) : k = 1 \/ (k - 1 \in 1 .. Len(s) /\ t[k] = s[k - 1])
<1>1. <<i>> \in Seq(All) /\ Len(<<i>>) = 1 /\ <<i>>[1] = i /\ Len(s) \in Nat
  OBVIOUS
<1>2. /\ t \in Seq(All) /\ Len(t) = Len(s) + 1
      /\ \A k \in 1 .. Len(t) : t[k] = IF k <= 1 THEN <<i>>[k] ELSE s[k - 1]
  BY <1>1, ConcatProperties
<1>3. \A k \in 1 .. Len(s) : k + 1 \in 1 .. Len(t) /\ ~(k + 1 <= 1) /\ (k + 1) - 1 = k
  BY <1>1, <1>2
<1>4. \A k \in 1 .. Len(t) : k = 1 \/ (~(k <= 1) /\ k - 1 \in 1 .. Len(s))
  BY <1>1, <1>2
<1>5. 1 \in 1 .. Len(t) /\ 1 <= 1
  BY <1>1, <1>2
<1> QED  BY <1>1, <1>2, <1>3, <1>4, <1>5

\* What putting an instruction in front does, as one fact.
Fronted(c, d, i) ==
  /\ Len(d) = Len(c) /\ Len(c[1].ins) \in Nat /\ Len(d[1].ins) = Len(c[1].ins) + 1 /\ d[1].ins[1] = i
  /\ \A k \in 1 .. Len(c[1].ins) : d[1].ins[k + 1] = c[1].ins[k]
  /\ \A k \in 1 .. Len(d[1].ins) : k = 1 \/ (k - 1 \in 1 .. Len(c[1].ins) /\ d[1].ins[k] = c[1].ins[k - 1])
  /\ \A b \in 1 .. Len(c) : b # 1 => d[b] = c[b]

\* BuildMI() at the begin of the first block.
LEMMA AtEntryIs ==
  ASSUME NEW c, NEW i \in Neutral, i # "check", Sturdy(c), NEW d, d = AtEntry(c, i)
  PROVE  Weaves(c, d, {i}) /\ Fronted(c, d, i)
<1>1. c \in Seq(Blocks) /\ Len(c) \in Nat /\ 1 \in 1 .. Len(c) /\ \A b \in 1 .. Len(c) : c[b] \in Blocks /\ Solid(c[b], Len(c))
  BY DEF Sturdy
<1>2. PICK s : s = c[1].ins
  OBVIOUS
<1>3. PICK t : t = <<i>> \o s
  OBVIOUS
<1>4. s \in Seq(All) /\ i \in All /\ c[1].to \in Nat /\ c[1] = [ins |-> s, to |-> c[1].to]
  BY <1>1, <1>2, NeutralFacts DEF Blocks
<1>5. d = [c EXCEPT ![1] = [ins |-> t, to |-> c[1].to]]
  <2>1. d = [c EXCEPT ![1] = [c[1] EXCEPT !.ins = t]]
    BY <1>2, <1>3 DEF AtEntry
  <2>2. [c[1] EXCEPT !.ins = t] = [ins |-> t, to |-> c[1].to]
    BY <1>4
  <2> QED  BY <2>1, <2>2
<1>6. /\ t \in Seq(All) /\ Len(t) = Len(s) + 1 /\ t[1] = i /\ Len(s) \in Nat
      /\ \A k \in 1 .. Len(s) : t[k + 1] = s[k]
      /\ \A k \in 1 .. Len(t) : k = 1 \/ (k - 1 \in 1 .. Len(s) /\ t[k] = s[k - 1])
  BY <1>3, <1>4, InFront
<1>7. [ins |-> t, to |-> c[1].to] \in Blocks
  BY <1>4, <1>6 DEF Blocks
<1>8. d \in Seq(Blocks) /\ Len(d) = Len(c) /\ d[1] = [ins |-> t, to |-> c[1].to] /\ \A b \in 1 .. Len(c) : b # 1 => d[b] = c[b]
  BY <1>1, <1>5, <1>7
<1>9. d[1].ins = t /\ d[1].to = c[1].to
  BY <1>8
<1>10. Len(s) >= 1 /\ Solid(c[1], Len(c))
  BY <1>1, <1>2 DEF Solid
<1>11. Back(d[1]) = Back(c[1])
  <2>1. Len(s) \in 1 .. Len(s) /\ Len(t) = Len(s) + 1
    BY <1>6, <1>10
  <2> QED  BY <1>2, <1>6, <1>9, <2>1 DEF Back
<1>12. Woven(c[1], d[1], {i})
  <2>1. ASSUME NEW k \in 1 .. Len(t)
        PROVE  t[k] \in {i} \/ \E j \in 1 .. Len(s) : t[k] = s[j] /\ (k < Len(t) => j < Len(s))
    <3>1. CASE k = 1
      BY <1>6, <3>1
    <3>2. CASE k # 1
      <4>1. k - 1 \in 1 .. Len(s) /\ t[k] = s[k - 1] /\ (k < Len(t) => k - 1 < Len(s))
        BY <1>6, <3>2
      <4> QED  BY <4>1
    <3> QED  BY <3>1, <3>2
  <2>2. Len(t) >= 1
    BY <1>6
  <2> QED  BY <1>2, <1>7, <1>8, <1>9, <1>11, <2>1, <2>2 DEF Woven
<1>13. Checked(d[1])
  <2> SUFFICES ASSUME NEW k \in 1 .. Len(t), t[k] = "check" PROVE k < Len(t) /\ t[k + 1] # "prolog"
    BY <1>9 DEF Checked
  <2>1. k - 1 \in 1 .. Len(s) /\ s[k - 1] = "check"
    BY <1>6
  <2>2. k - 1 < Len(s) /\ s[(k - 1) + 1] # "prolog"
    BY <1>2, <1>10, <2>1 DEF Solid
  <2>3. k \in 1 .. Len(s) /\ (k - 1) + 1 = k
    BY <1>6, <2>1, <2>2
  <2> QED  BY <1>6, <2>2, <2>3
<1>14. ASSUME NEW b \in 1 .. Len(c) PROVE Woven(c[b], d[b], {i}) /\ Checked(d[b])
  <2>1. CASE b = 1
    BY <1>12, <1>13, <2>1
  <2>2. CASE b # 1
    <3>1. d[b] = c[b] /\ c[b] \in Blocks /\ Len(c[b].ins) >= 1 /\ Checked(c[b])
      BY <1>1, <1>8, <2>2 DEF Solid, Checked
    <3> QED  BY <3>1, WovenSelf
  <2> QED  BY <2>1, <2>2
<1>15. Weaves(c, d, {i})
  BY <1>8, <1>14 DEF Weaves
<1>16. Fronted(c, d, i)
  BY <1>2, <1>6, <1>8, <1>9 DEF Fronted
<1> QED  BY <1>15, <1>16

\* The passes in front of the shadow stack's.
LEMMA RawAtEntry ==
  ASSUME NEW c, NEW i \in {"spill", "endbr", "count", "load"}, Raw(c), i = "count" => build.count
  PROVE  Raw(AtEntry(c, i)) /\ AtEntry(c, i)[1].ins[1] = i
<1>1. i \in Neutral /\ i # "check" /\ Sturdy(c)
  BY DEF Neutral, Raw
<1>2. PICK d : d = AtEntry(c, i)
  OBVIOUS
<1>3. Weaves(c, d, {i}) /\ Fronted(c, d, i)
  BY <1>1, <1>2, AtEntryIs
<1>4. {i} \cap (Pops \cup {"prolog"}) = {} /\ (build.count \/ "count" \notin {i})
  BY DEF Pops
<1>5. d[1].ins[1] = i
  BY <1>3 DEF Fronted
<1>6. Raw(d)
  BY <1>1, <1>3, <1>4, WeaveRaw
<1> QED  BY <1>2, <1>5, <1>6

\* A spill at the entry changes nothing that the later passes rely on.
LEMMA RawRegAlloc ==
  ASSUME NEW c, Raw(c)
  PROVE  Raw(RegAlloc(c))
BY RawAtEntry DEF RegAlloc

-----------------------------------------------------------------------------
(* Flattening. *)

\* A set of naturals has a least element.
LEMMA LeastNat ==
  ASSUME NEW T \in SUBSET Nat, T # {}
  PROVE  \E m \in T : \A k \in T : m <= k
<1>1. PICK m \in T : \A k \in T : ~ (<<k, m>> \in OpToRel(<, Nat))
  BY WFMin, NatLessThanWellFounded, Zenon
<1>2. \A k \in T : ~ (k < m)
  BY <1>1, Zenon DEF OpToRel
<1>3. \A k \in T : k \in Nat /\ m \in Nat
  OBVIOUS
<1> QED  BY <1>2, <1>3

\* Induction, about a set.
LEMMA NatSet ==
  ASSUME NEW T, 0 \in T, \A k \in Nat : k \in T => k + 1 \in T
  PROVE  \A k \in Nat : k \in T
<1> SUFFICES ASSUME NEW k \in Nat, k \notin T PROVE FALSE
  OBVIOUS
<1> DEFINE U == {j \in Nat : j \notin T}
<1>1. U \subseteq Nat /\ U # {}
  OBVIOUS
<1> HIDE DEF U
<1>2. PICK m \in U : \A j \in U : m <= j
  BY <1>1, LeastNat
<1>3. m \in Nat /\ m # 0 /\ m \notin T
  BY <1>2 DEF U
<1>4. m - 1 \in Nat /\ m - 1 \notin U
  BY <1>2, <1>3
<1>5. m - 1 \in T
  BY <1>4 DEF U
<1>6. m = (m - 1) + 1
  BY <1>3
<1> QED  BY <1>3, <1>4, <1>5, <1>6

\* The function FlattenSeq builds exists.
LEMMA FlattenExists ==
  ASSUME NEW q, NEW n \in Nat
  PROVE  \E g : g = [i \in 1 .. n |-> IF i = 1 THEN q[i] ELSE g[i - 1] \o q[i]]
<1> DEFINE T == {m \in Nat : \E g : g = [i \in 1 .. m |-> IF i = 1 THEN q[i] ELSE g[i - 1] \o q[i]]}
<1>1. 0 \in T
  <2>1. PICK g : g = [i \in 1 .. 0 |-> q[i]]
    OBVIOUS
  <2>2. g = [i \in 1 .. 0 |-> IF i = 1 THEN q[i] ELSE g[i - 1] \o q[i]]
    BY <2>1
  <2> QED  BY <2>2
<1>2. ASSUME NEW m \in Nat, m \in T PROVE m + 1 \in T
  <2>1. PICK g : g = [i \in 1 .. m |-> IF i = 1 THEN q[i] ELSE g[i - 1] \o q[i]]
    BY <1>2
  <2>2. PICK h : h = [i \in 1 .. m + 1 |-> IF i = 1 THEN q[i] ELSE g[i - 1] \o q[i]]
    OBVIOUS
  <2>3. ASSUME NEW i \in 1 .. m + 1, i # 1 PROVE h[i - 1] = g[i - 1]
    <3>1. i - 1 \in 1 .. m /\ i - 1 \in 1 .. m + 1
      BY <2>3
    <3> QED  BY <2>1, <2>2, <3>1
  <2>4. h = [i \in 1 .. m + 1 |-> IF i = 1 THEN q[i] ELSE h[i - 1] \o q[i]]
    BY <2>2, <2>3
  <2>5. m + 1 \in Nat
    OBVIOUS
  <2>6. \E f : f = [i \in 1 .. m + 1 |-> IF i = 1 THEN q[i] ELSE f[i - 1] \o q[i]]
    BY <2>4
  <2> QED  BY <2>5, <2>6
<1> HIDE DEF T
<1>3. n \in T
  BY <1>1, <1>2, NatSet
<1> QED  BY <1>3 DEF T

\* FlattenSeq is the last value of the function it builds.
LEMMA FlattenIs ==
  ASSUME NEW q, Len(q) \in Nat, Len(q) >= 1
  PROVE  \E g : /\ g = [i \in 1 .. Len(q) |-> IF i = 1 THEN q[i] ELSE g[i - 1] \o q[i]]
                /\ FlattenSeq(q) = g[Len(q)]
<1> DEFINE g == CHOOSE h : h = [i \in 1 .. Len(q) |-> IF i = 1 THEN q[i] ELSE h[i - 1] \o q[i]]
<1>1. g = [i \in 1 .. Len(q) |-> IF i = 1 THEN q[i] ELSE g[i - 1] \o q[i]]
  BY FlattenExists
<1>2. Len(q) # 0
  OBVIOUS
<1>3. FlattenSeq(q) = g[Len(q)]
  BY <1>2 DEF FlattenSeq
<1> QED  BY <1>1, <1>3

Watched == {"gstore", "mixed", "store", "spill", "prolog"}
Guards(s) == [k \in DOMAIN s |-> IF s[k] \in Watched THEN <<"check", s[k]>> ELSE <<s[k]>>]

\* The last part of a sequence, appended.
LEMMA Appended ==
  ASSUME NEW s \in Seq(All), NEW t \in Seq(All), Len(t) >= 1, NEW u, u = s \o t
  PROVE  /\ u \in Seq(All) /\ Len(s) \in Nat /\ Len(t) \in Nat /\ Len(u) = Len(s) + Len(t) /\ u[Len(u)] = t[Len(t)]
         /\ \A k \in 1 .. Len(u) : \/ k \in 1 .. Len(s) /\ u[k] = s[k]
                                   \/ k - Len(s) \in 1 .. Len(t) /\ u[k] = t[k - Len(s)]
<1>1. /\ u \in Seq(All) /\ Len(u) = Len(s) + Len(t) /\ Len(s) \in Nat /\ Len(t) \in Nat
      /\ \A k \in 1 .. Len(u) : u[k] = IF k <= Len(s) THEN s[k] ELSE t[k - Len(s)]
  BY ConcatProperties
<1>2. Len(u) \in 1 .. Len(u) /\ ~(Len(u) <= Len(s)) /\ Len(u) - Len(s) = Len(t)
  BY <1>1
<1>3. \A k \in 1 .. Len(u) : \/ k <= Len(s) /\ k \in 1 .. Len(s)
                             \/ ~(k <= Len(s)) /\ k - Len(s) \in 1 .. Len(t)
  BY <1>1
<1> QED  BY <1>1, <1>2, <1>3

\* What has been flattened so far.
Flat(s, y, m) ==
  /\ y \in Seq(All) /\ Len(y) >= 1 /\ y[Len(y)] = s[m]
  /\ \A k \in 1 .. Len(y) : y[k] = "check" \/ \E j \in 1 .. m : y[k] = s[j] /\ (k < Len(y) => j < m)

\* One more part.
LEMMA FlatNext ==
  ASSUME NEW s \in Seq(All), NEW m \in Nat, m >= 1, m + 1 \in 1 .. Len(s), NEW y, Flat(s, y, m)
  PROVE  Flat(s, y \o Guards(s)[m + 1], m + 1)
<1>1. PICK t : t = Guards(s)[m + 1]
  OBVIOUS
<1>2. PICK z : z = y \o t
  OBVIOUS
<1>3. s[m + 1] \in All /\ "check" \in All /\ m + 1 \in DOMAIN s
  BY DEF All, Inserted
<1>4. t = <<"check", s[m + 1]>> \/ t = <<s[m + 1]>>
  BY <1>1, <1>3 DEF Guards
<1>5. /\ t \in Seq(All) /\ Len(t) \in Nat /\ Len(t) >= 1 /\ t[Len(t)] = s[m + 1]
      /\ \A k \in 1 .. Len(t) : t[k] = "check" \/ (t[k] = s[m + 1] /\ k = Len(t))
  <2>1. CASE t = <<"check", s[m + 1]>>
    BY <1>3, <2>1
  <2>2. CASE t = <<s[m + 1]>>
    BY <1>3, <2>2
  <2> QED  BY <1>4, <2>1, <2>2
<1>6. /\ z \in Seq(All) /\ Len(y) \in Nat /\ Len(z) = Len(y) + Len(t) /\ z[Len(z)] = t[Len(t)]
      /\ \A k \in 1 .. Len(z) : \/ k \in 1 .. Len(y) /\ z[k] = y[k]
                                \/ k - Len(y) \in 1 .. Len(t) /\ z[k] = t[k - Len(y)]
  BY <1>2, <1>5, Appended DEF Flat
<1>7. ASSUME NEW k \in 1 .. Len(z)
      PROVE  z[k] = "check" \/ \E j \in 1 .. m + 1 : z[k] = s[j] /\ (k < Len(z) => j < m + 1)
  <2>1. CASE k \in 1 .. Len(y) /\ z[k] = y[k]
    <3>1. CASE y[k] = "check"
      BY <2>1, <3>1
    <3>2. CASE y[k] # "check"
      <4>1. PICK j \in 1 .. m : y[k] = s[j]
        BY <2>1, <3>2 DEF Flat
      <4>2. j \in 1 .. m + 1 /\ j < m + 1
        OBVIOUS
      <4> QED  BY <2>1, <4>1, <4>2
    <3> QED  BY <3>1, <3>2
  <2>2. CASE k - Len(y) \in 1 .. Len(t) /\ z[k] = t[k - Len(y)]
    <3>1. CASE t[k - Len(y)] = "check"
      BY <2>2, <3>1
    <3>2. CASE t[k - Len(y)] # "check"
      <4>1. z[k] = s[m + 1] /\ k - Len(y) = Len(t)
        BY <1>5, <2>2, <3>2
      <4>2. m + 1 \in 1 .. m + 1 /\ ~(k < Len(z))
        BY <1>5, <1>6, <4>1
      <4> QED  BY <4>1, <4>2
    <3> QED  BY <3>1, <3>2
  <2> QED  BY <1>6, <2>1, <2>2
<1>8. Len(z) >= 1 /\ z[Len(z)] = s[m + 1]
  BY <1>5, <1>6
<1> QED  BY <1>1, <1>2, <1>6, <1>7, <1>8 DEF Flat

\* The first part.
LEMMA FlatFirst ==
  ASSUME NEW s \in Seq(All), Len(s) >= 1
  PROVE  Flat(s, Guards(s)[1], 1)
<1>1. s[1] \in All /\ "check" \in All /\ 1 \in DOMAIN s /\ 1 \in 1 .. 1
  BY DEF All, Inserted
<1>2. PICK t : t = Guards(s)[1]
  OBVIOUS
<1>3. t = <<"check", s[1]>> \/ t = <<s[1]>>
  BY <1>1, <1>2 DEF Guards
<1>4. /\ t \in Seq(All) /\ Len(t) \in Nat /\ Len(t) >= 1 /\ t[Len(t)] = s[1]
      /\ \A k \in 1 .. Len(t) : t[k] = "check" \/ (t[k] = s[1] /\ ~(k < Len(t)))
  <2>1. CASE t = <<"check", s[1]>>
    BY <1>1, <2>1
  <2>2. CASE t = <<s[1]>>
    BY <1>1, <2>2
  <2> QED  BY <1>3, <2>1, <2>2
<1>5. \A k \in 1 .. Len(t) : t[k] = "check" \/ \E j \in 1 .. 1 : t[k] = s[j] /\ (k < Len(t) => j < 1)
  BY <1>1, <1>4
<1> QED  BY <1>2, <1>4, <1>5 DEF Flat

\* MPX's checks, in front of the stores they check, and nothing else.
LEMMA FlatAll ==
  ASSUME NEW s \in Seq(All), Len(s) >= 1
  PROVE  Flat(s, FlattenSeq(Guards(s)), Len(s))
<1>1. PICK q : q = Guards(s)
  OBVIOUS
<1>2. Len(q) = Len(s) /\ Len(s) \in Nat /\ Len(q) \in Nat /\ Len(q) >= 1
  BY <1>1 DEF Guards
<1>3. PICK g : /\ g = [i \in 1 .. Len(q) |-> IF i = 1 THEN q[i] ELSE g[i - 1] \o q[i]]
               /\ FlattenSeq(q) = g[Len(q)]
  BY <1>2, FlattenIs
<1> DEFINE T == {m \in Nat : m + 1 \in 1 .. Len(s) => Flat(s, g[m + 1], m + 1)}
<1>4. 0 \in T
  <2>1. 1 \in 1 .. Len(q) /\ g[1] = q[1]
    BY <1>2, <1>3
  <2>2. Flat(s, g[0 + 1], 0 + 1)
    BY <1>1, <2>1, FlatFirst
  <2> QED  BY <2>2
<1>5. ASSUME NEW m \in Nat, m \in T PROVE m + 1 \in T
  <2>1. ASSUME (m + 1) + 1 \in 1 .. Len(s) PROVE Flat(s, g[(m + 1) + 1], (m + 1) + 1)
    <3>1. m + 1 \in 1 .. Len(s) /\ m + 1 \in Nat /\ m + 1 >= 1
      BY <1>2, <2>1
    <3>2. Flat(s, g[m + 1], m + 1)
      BY <1>5, <3>1
    <3>3. g[(m + 1) + 1] = g[m + 1] \o q[(m + 1) + 1]
      <4>1. (m + 1) + 1 \in 1 .. Len(q) /\ (m + 1) + 1 # 1 /\ ((m + 1) + 1) - 1 = m + 1
        BY <1>2, <2>1
      <4> QED  BY <1>3, <4>1
    <3> QED  BY <1>1, <2>1, <3>1, <3>2, <3>3, FlatNext
  <2>2. m + 1 \in Nat
    OBVIOUS
  <2> QED  BY <2>1, <2>2
<1> HIDE DEF T
<1>6. Len(s) - 1 \in T
  BY <1>2, <1>4, <1>5, NatSet
<1>7. (Len(s) - 1) + 1 = Len(s) /\ Len(s) \in 1 .. Len(s)
  BY <1>2
<1>8. Flat(s, g[Len(s)], Len(s))
  BY <1>6, <1>7 DEF T
<1> QED  BY <1>1, <1>2, <1>3, <1>8

\* X86ShadowStackMPX runs before there is a prolog, so no check meets one.
LEMMA RawMPX ==
  ASSUME NEW c, Raw(c)
  PROVE  Raw(MPX(c))
<1>1. /\ c \in Seq(Blocks) /\ Len(c) \in Nat /\ DOMAIN c = 1 .. Len(c)
      /\ \A b \in 1 .. Len(c) : c[b] \in Blocks /\ Len(c[b].ins) >= 1
  BY DEF Raw, Sturdy, Solid
<1>2. PICK d : d = MPX(c)
  OBVIOUS
<1>3. d = [b \in 1 .. Len(c) |-> [c[b] EXCEPT !.ins = FlattenSeq(Guards(c[b].ins))]]
  BY <1>1, <1>2 DEF MPX, EachBlock, Guards, Watched
<1>4. ASSUME NEW b \in 1 .. Len(c)
      PROVE  d[b] \in Blocks /\ Woven(c[b], d[b], {"check"}) /\ Checked(d[b])
  <2>1. PICK s : s = c[b].ins
    OBVIOUS
  <2>2. PICK y : y = FlattenSeq(Guards(s))
    OBVIOUS
  <2>3. s \in Seq(All) /\ Len(s) >= 1 /\ c[b].to \in Nat /\ c[b] = [ins |-> s, to |-> c[b].to]
    BY <1>1, <2>1 DEF Blocks
  <2>4. Flat(s, y, Len(s))
    BY <2>2, <2>3, FlatAll
  <2>5. d[b] = [ins |-> y, to |-> c[b].to]
    <3>1. d[b] = [c[b] EXCEPT !.ins = y]
      BY <1>3, <2>1, <2>2
    <3> QED  BY <2>3, <3>1
  <2>6. d[b] \in Blocks /\ d[b].ins = y /\ d[b].to = c[b].to
    BY <2>3, <2>4, <2>5 DEF Flat, Blocks
  <2>7. Back(d[b]) = Back(c[b]) /\ Len(y) \in Nat
    BY <2>1, <2>4, <2>6 DEF Back, Flat
  <2>8. Woven(c[b], d[b], {"check"})
    BY <2>1, <2>4, <2>6, <2>7 DEF Woven, Flat
  <2>9. Checked(d[b])
    <3>1. ASSUME NEW k \in 1 .. Len(y) PROVE y[k] # "prolog"
      <4>1. \A j \in 1 .. Len(s) : s[j] # "prolog"
        BY <2>1 DEF Raw, Clean, Without
      <4> QED  BY <2>4, <4>1 DEF Flat
    <3>2. y[Len(y)] # "check"
      <4>1. Solid(c[b], Len(c)) /\ Len(s) \in 1 .. Len(s) /\ ~(Len(s) < Len(s))
        BY <2>3 DEF Raw, Sturdy
      <4>2. s[Len(s)] # "check"
        BY <2>1, <4>1 DEF Solid
      <4> QED  BY <2>4, <4>2 DEF Flat
    <3>3. ASSUME NEW k \in 1 .. Len(y), y[k] = "check" PROVE k < Len(y) /\ k + 1 \in 1 .. Len(y)
      BY <2>7, <3>2, <3>3
    <3> QED  BY <2>6, <3>1, <3>3 DEF Checked
  <2> QED  BY <2>6, <2>8, <2>9
<1>5. d \in Seq(Blocks) /\ Len(d) = Len(c)
  <2>1. d \in [1 .. Len(c) -> Blocks]
    BY <1>3, <1>4
  <2> QED  BY <1>1, <2>1
<1>6. Weaves(c, d, {"check"})
  BY <1>4, <1>5 DEF Weaves, Neutral
<1>7. {"check"} \cap (Pops \cup {"prolog"}) = {} /\ "count" \notin {"check"}
  BY DEF Pops
<1> QED  BY <1>2, <1>6, <1>7, WeaveRaw

-----------------------------------------------------------------------------
(* Prologs and epilogs. *)

\* The front of a sequence.
LEMMA Leading ==
  ASSUME NEW S, NEW s \in Seq(S), NEW n \in Nat, n <= Len(s), NEW t, t = SubSeq(s, 1, n)
  PROVE  t \in Seq(S) /\ Len(t) = n /\ \A k \in 1 .. n : t[k] = s[k]
<1>1. \A k \in 1 .. n : s[k] \in S
  OBVIOUS
<1> QED  BY <1>1, SubSeqProperties

\* One instruction in front of the last.
LEMMA BeforeBackIs ==
  ASSUME NEW x \in Blocks, Len(x.ins) >= 1, NEW i \in All, NEW y, y = BeforeBack(x, i)
  PROVE  /\ y \in Seq(All) /\ Len(x.ins) \in Nat /\ Len(y) = Len(x.ins) + 1
         /\ \A k \in 1 .. Len(x.ins) - 1 : y[k] = x.ins[k]
         /\ y[Len(x.ins)] = i /\ y[Len(x.ins) + 1] = Back(x)
<1>1. PICK s : s = x.ins
  OBVIOUS
<1>2. s \in Seq(All) /\ Len(s) \in Nat /\ Len(s) - 1 \in Nat /\ Len(s) - 1 <= Len(s) /\ Len(s) \in 1 .. Len(s)
  BY <1>1 DEF Blocks
<1>3. Back(x) = s[Len(s)] /\ Back(x) \in All
  BY <1>1, <1>2 DEF Back
<1>4. PICK t : t = SubSeq(s, 1, Len(s) - 1)
  OBVIOUS
<1>5. t \in Seq(All) /\ Len(t) = Len(s) - 1 /\ \A k \in 1 .. Len(s) - 1 : t[k] = s[k]
  <2>1. PICK m : m = Len(s) - 1
    OBVIOUS
  <2>2. s \in Seq(All) /\ m \in Nat /\ m <= Len(s) /\ t = SubSeq(s, 1, m)
    BY <1>2, <1>4, <2>1
  <2>3. t \in Seq(All) /\ Len(t) = m /\ \A k \in 1 .. m : t[k] = s[k]
    BY <2>2, Leading
  <2> QED  BY <2>1, <2>3
<1>6. PICK u : u = <<i, Back(x)>>
  OBVIOUS
<1>7. u \in Seq(All) /\ Len(u) = 2 /\ u[1] = i /\ u[2] = Back(x)
  BY <1>3, <1>6
<1>8. y = t \o u
  BY <1>1, <1>4, <1>6 DEF BeforeBack
<1>9. /\ y \in Seq(All) /\ Len(y) = Len(t) + Len(u)
      /\ \A k \in 1 .. Len(y) : y[k] = IF k <= Len(t) THEN t[k] ELSE u[k - Len(t)]
  <2>1. t \in Seq(All) /\ u \in Seq(All)
    BY <1>5, <1>7
  <2> QED  BY <1>8, <2>1, ConcatProperties
<1>10. Len(y) = Len(s) + 1
  BY <1>2, <1>5, <1>7, <1>9
<1>11. ASSUME NEW k \in 1 .. Len(s) - 1 PROVE y[k] = s[k]
  <2>1. k \in 1 .. Len(y) /\ k <= Len(t)
    BY <1>2, <1>5, <1>10
  <2> QED  BY <1>5, <1>9, <2>1
<1>12. y[Len(s)] = i
  <2>1. Len(s) \in 1 .. Len(y) /\ ~(Len(s) <= Len(t)) /\ Len(s) - Len(t) = 1
    BY <1>2, <1>5, <1>10
  <2> QED  BY <1>7, <1>9, <2>1
<1>13. y[Len(s) + 1] = Back(x)
  <2>1. Len(s) + 1 \in 1 .. Len(y) /\ ~(Len(s) + 1 <= Len(t)) /\ (Len(s) + 1) - Len(t) = 2
    BY <1>2, <1>5, <1>10
  <2> QED  BY <1>7, <1>9, <2>1
<1> QED  BY <1>1, <1>2, <1>9, <1>10, <1>11, <1>12, <1>13

\* An epilog in front of a return.
LEMMA EpilogWoven ==
  ASSUME NEW x \in Blocks, NEW n, Solid(x, n), NEW i \in Pops, NEW z, z = [x EXCEPT !.ins = BeforeBack(x, i)]
  PROVE  z \in Blocks /\ Woven(x, z, Pops) /\ Checked(z)
<1>1. PICK s : s = x.ins
  OBVIOUS
<1>2. PICK y : y = BeforeBack(x, i)
  OBVIOUS
<1>3. i \in All /\ i # "check" /\ i # "prolog" /\ Len(s) >= 1 /\ s \in Seq(All)
  BY <1>1 DEF Pops, All, Inserted, Solid, Blocks
<1>4. /\ y \in Seq(All) /\ Len(s) \in Nat /\ Len(y) = Len(s) + 1
      /\ \A k \in 1 .. Len(s) - 1 : y[k] = s[k]
      /\ y[Len(s)] = i /\ y[Len(s) + 1] = Back(x)
  BY <1>1, <1>2, <1>3, BeforeBackIs
<1>5. x = [ins |-> s, to |-> x.to] /\ x.to \in Nat
  BY <1>1 DEF Blocks
<1>6. z = [ins |-> y, to |-> x.to]
  BY <1>2, <1>5
<1>7. z \in Blocks /\ z.ins = y /\ z.to = x.to
  BY <1>4, <1>5, <1>6 DEF Blocks
<1>8. Back(z) = Back(x)
  BY <1>4, <1>7 DEF Back
<1>9. ASSUME NEW k \in 1 .. Len(y)
      PROVE  y[k] \in Pops \/ \E j \in 1 .. Len(s) : y[k] = s[j] /\ (k < Len(y) => j < Len(s))
  <2>1. CASE k <= Len(s) - 1
    <3>1. k \in 1 .. Len(s) - 1 /\ k \in 1 .. Len(s) /\ k < Len(s)
      BY <1>4, <2>1
    <3> QED  BY <1>4, <3>1
  <2>2. CASE k = Len(s)
    BY <1>4, <2>2
  <2>3. CASE k = Len(s) + 1
    <3>1. y[k] = s[Len(s)] /\ Len(s) \in 1 .. Len(s) /\ ~(k < Len(y))
      BY <1>1, <1>3, <1>4, <2>3 DEF Back
    <3> QED  BY <3>1
  <2> QED  BY <1>4, <2>1, <2>2, <2>3
<1>10. Woven(x, z, Pops)
  BY <1>1, <1>4, <1>7, <1>8, <1>9 DEF Woven
<1>11. ASSUME NEW k \in 1 .. Len(y), y[k] = "check" PROVE k < Len(y) /\ y[k + 1] # "prolog"
  <2>1. k # Len(s)
    BY <1>3, <1>4, <1>11
  <2>2. k # Len(s) + 1
    <3>1. Len(s) \in 1 .. Len(s) /\ ~(Len(s) < Len(s))
      BY <1>3, <1>4
    <3>2. s[Len(s)] # "check"
      BY <1>1, <3>1 DEF Solid
    <3> QED  BY <1>1, <1>4, <1>11, <3>2 DEF Back
  <2>3. k \in 1 .. Len(s) - 1 /\ k \in 1 .. Len(s) /\ k < Len(y)
    BY <1>4, <2>1, <2>2
  <2>4. s[k + 1] # "prolog"
    BY <1>1, <1>4, <1>11, <2>3 DEF Solid
  <2>5. CASE k + 1 = Len(s)
    BY <1>3, <1>4, <2>3, <2>5
  <2>6. CASE k + 1 # Len(s)
    <3>1. k + 1 \in 1 .. Len(s) - 1
      BY <1>4, <2>3, <2>6
    <3> QED  BY <1>4, <2>3, <2>4, <3>1
  <2> QED  BY <2>5, <2>6
<1> QED  BY <1>7, <1>10, <1>11 DEF Checked

\* The epilogs of a function without any.
LEMMA EpilogsAre ==
  ASSUME NEW c, Sturdy(c), NEW e, e = Epilogs(c)
  PROVE  /\ Weaves(c, e, Pops)
         /\ \A b \in 1 .. Len(c) :
              IF Back(c[b]) \in Returns THEN e[b] = [c[b] EXCEPT !.ins = BeforeBack(c[b], Epilog(c[b]))]
                                        ELSE e[b] = c[b]
<1>1. /\ c \in Seq(Blocks) /\ Len(c) \in Nat /\ DOMAIN c = 1 .. Len(c)
      /\ \A b \in 1 .. Len(c) : c[b] \in Blocks /\ Solid(c[b], Len(c)) /\ Len(c[b].ins) >= 1
  BY DEF Sturdy, Solid
<1>2. e = [b \in 1 .. Len(c) |-> [c[b] EXCEPT !.ins = IF Back(c[b]) \in Returns THEN BeforeBack(c[b], Epilog(c[b])) ELSE c[b].ins]]
  BY <1>1 DEF Epilogs, EachBlock, IsReturnBlock
<1>3. ASSUME NEW b \in 1 .. Len(c)
      PROVE  /\ e[b] \in Blocks /\ Woven(c[b], e[b], Pops) /\ Checked(e[b])
             /\ IF Back(c[b]) \in Returns THEN e[b] = [c[b] EXCEPT !.ins = BeforeBack(c[b], Epilog(c[b]))]
                                          ELSE e[b] = c[b]
  <2>1. CASE Back(c[b]) \in Returns
    <3>1. e[b] = [c[b] EXCEPT !.ins = BeforeBack(c[b], Epilog(c[b]))]
      BY <1>2, <2>1
    <3>2. Epilog(c[b]) \in Pops
      BY DEF Epilog, Pops
    <3> QED  BY <1>1, <2>1, <3>1, <3>2, EpilogWoven
  <2>2. CASE Back(c[b]) \notin Returns
    <3>1. e[b] = [c[b] EXCEPT !.ins = c[b].ins]
      BY <1>2, <2>2
    <3>2. e[b] = c[b]
      BY <1>1, <3>1 DEF Blocks
    <3>3. Checked(c[b])
      BY <1>1 DEF Solid, Checked
    <3> QED  BY <1>1, <2>2, <3>2, <3>3, WovenSelf
  <2> QED  BY <2>1, <2>2
<1>4. e \in Seq(Blocks) /\ Len(e) = Len(c)
  <2>1. e \in [1 .. Len(c) -> Blocks]
    BY <1>2, <1>3
  <2> QED  BY <1>1, <2>1
<1>5. Pops \subseteq Neutral
  BY DEF Pops, Neutral
<1>6. Weaves(c, e, Pops)
  BY <1>3, <1>4, <1>5 DEF Weaves
<1> QED  BY <1>3, <1>6

\* A function with its prolog, before it gets its epilogs.
Ready(c, p) == Sturdy(c) /\ Aims(c) /\ Counted(c) /\ Without(c, Pops) /\ Opened(c, p)

\* A load or a sled in front of the prolog leaves it the only one.
LEMMA OpenedFront ==
  ASSUME NEW c, Sturdy(c), NEW p, Opened(c, p), NEW i \in {"load", "enter"}, NEW d, d = AtEntry(c, i)
  PROVE  Opened(d, p + 1)
<1>1. i \in Neutral /\ i # "check" /\ i # "prolog"
  BY DEF Neutral
<1>2. Fronted(c, d, i)
  BY <1>1, AtEntryIs
<1>3. p \in 1 .. Len(c[1].ins) /\ c[1].ins[p] = "prolog" /\ \A k \in 1 .. p - 1 : c[1].ins[k] \in {"load", "enter"}
  BY DEF Opened
<1>4. p + 1 \in 1 .. Len(d[1].ins) /\ d[1].ins[p + 1] = "prolog"
  BY <1>2, <1>3 DEF Fronted
<1>6. ASSUME NEW k \in 1 .. (p + 1) - 1 PROVE d[1].ins[k] \in {"load", "enter"}
  <2>1. CASE k = 1
    BY <1>2, <2>1 DEF Fronted
  <2>2. CASE k # 1
    <3>1. k \in 1 .. Len(d[1].ins) /\ k - 1 \in 1 .. p - 1
      BY <1>2, <1>3, <2>2 DEF Fronted
    <3>2. d[1].ins[k] = c[1].ins[k - 1]
      BY <1>2, <2>2, <3>1 DEF Fronted
    <3> QED  BY <1>3, <3>1, <3>2
  <2> QED  BY <2>1, <2>2
<1>7. ASSUME NEW b \in 1 .. Len(d), NEW k \in 1 .. Len(d[b].ins), d[b].ins[k] = "prolog"
      PROVE  b = 1 /\ k = p + 1
  <2>0. b \in 1 .. Len(c)
    BY <1>2 DEF Fronted
  <2>1. CASE b = 1
    <3>1. k # 1
      BY <1>1, <1>2, <1>7, <2>1 DEF Fronted
    <3>2. k - 1 \in 1 .. Len(c[1].ins) /\ c[1].ins[k - 1] = "prolog"
      BY <1>2, <1>7, <2>1, <3>1 DEF Fronted
    <3>3. k - 1 = p
      BY <2>0, <2>1, <3>2 DEF Opened
    <3> QED  BY <1>3, <2>1, <3>3
  <2>2. CASE b # 1
    BY <1>2, <1>7, <2>0, <2>2 DEF Opened, Fronted
  <2> QED  BY <2>1, <2>2
<1> QED  BY <1>4, <1>6, <1>7 DEF Opened

\* No count, no epilog, nothing that aims comes in with it.
LEMMA FrontKeeps ==
  ASSUME NEW c, NEW i \in {"prolog", "load", "enter"}, Sturdy(c), Counted(c), NEW d, d = AtEntry(c, i)
  PROVE  /\ Sturdy(d) /\ Counted(d) /\ (Aims(c) => Aims(d))
         /\ \A T : i \notin T /\ Without(c, T) => Without(d, T)
<1>1. i \in Neutral /\ i # "check" /\ i # "count"
  BY DEF Neutral
<1>2. Weaves(c, d, {i})
  BY <1>1, AtEntryIs
<1>3. Sturdy(d) /\ (Aims(c) => Aims(d))
  BY <1>2, WeaveSturdy, WeaveAims
<1>4. ASSUME NEW T, i \notin T, Without(c, T) PROVE Without(d, T)
  <2>1. {i} \cap T = {}
    BY <1>4
  <2> QED  BY <1>2, <1>4, <2>1, WeaveWithout
<1>5. Counted(d)
  BY <1>1, <1>4 DEF Counted
<1> QED  BY <1>3, <1>4, <1>5

\* The prolog goes to the front.
LEMMA ReadyFirst ==
  ASSUME NEW c, Raw(c), NEW d, d = AtEntry(c, "prolog")
  PROVE  Ready(d, 1)
<1>1. Sturdy(c) /\ Aims(c) /\ Counted(c) /\ "prolog" \in Neutral /\ "prolog" # "check" /\ "prolog" \in {"prolog", "load", "enter"}
  BY DEF Raw, Neutral
<1>2. Fronted(c, d, "prolog")
  BY <1>1, AtEntryIs
<1>3. \A b \in 1 .. Len(c) : \A k \in 1 .. Len(c[b].ins) : c[b].ins[k] # "prolog"
  BY DEF Raw, Clean, Without
<1>4. Sturdy(d) /\ Counted(d) /\ Aims(d) /\ Without(d, Pops)
  <2>1. Without(c, Pops) /\ "prolog" \notin Pops
    BY DEF Raw, Clean, Without, Pops
  <2> QED  BY <1>1, <2>1, FrontKeeps
<1>5. ASSUME NEW b \in 1 .. Len(d), NEW k \in 1 .. Len(d[b].ins), d[b].ins[k] = "prolog"
      PROVE  b = 1 /\ k = 1
  <2>0. b \in 1 .. Len(c) /\ 1 \in 1 .. Len(c)
    BY <1>1, <1>2 DEF Fronted, Sturdy
  <2>1. CASE b # 1
    BY <1>2, <1>3, <1>5, <2>0, <2>1 DEF Fronted
  <2>2. CASE b = 1 /\ k # 1
    <3>1. k - 1 \in 1 .. Len(c[1].ins) /\ c[1].ins[k - 1] = "prolog"
      BY <1>2, <1>5, <2>2 DEF Fronted
    <3> QED  BY <1>3, <2>0, <3>1
  <2> QED  BY <2>1, <2>2
<1>6. 1 \in 1 .. Len(d[1].ins) /\ \A k \in 1 .. 1 - 1 : d[1].ins[k] \in {"load", "enter"}
  BY <1>2 DEF Fronted
<1> QED  BY <1>2, <1>4, <1>5, <1>6 DEF Ready, Opened, Fronted

\* REG's load of r15 goes in front of the prolog.
LEMMA ReadyLoad ==
  ASSUME NEW c, NEW p, Ready(c, p), NEW d, d = AtEntry(c, "load")
  PROVE  Ready(d, p + 1)
<1>1. Opened(d, p + 1)
  BY OpenedFront DEF Ready
<1>2. "load" \notin Pops
  BY DEF Pops
<1>3. Sturdy(d) /\ Counted(d) /\ Aims(d) /\ Without(d, Pops)
  BY <1>2, FrontKeeps DEF Ready
<1> QED  BY <1>1, <1>3 DEF Ready

\* A constructor under REG stays as it is.
LEMMA GuardedOpen ==
  ASSUME NEW f, NeverPops(f), NEW c, NEW p, Ready(c, p)
  PROVE  Guarded(f, c)
<1>1. p \in 1 .. Len(c[1].ins)
  BY DEF Ready, Opened
<1>2. ASSUME NEW b \in 1 .. Len(c) PROVE Shut(f, c[b])
  BY DEF Ready, Without, Shut
<1> QED  BY <1>1, <1>2 DEF Ready, Guarded

\* Any other function gets an epilog in front of each return.
LEMMA GuardedShut ==
  ASSUME NEW f, ~NeverPops(f), NEW c, NEW p, Ready(c, p), NEW e, e = Epilogs(c)
  PROVE  Guarded(f, e) /\ Sturdy(e) /\ Counted(e)
<1>0. Sturdy(c) /\ Aims(c) /\ Counted(c) /\ Without(c, Pops) /\ Opened(c, p)
  BY DEF Ready
<1>1. /\ Weaves(c, e, Pops)
      /\ \A b \in 1 .. Len(c) :
           IF Back(c[b]) \in Returns THEN e[b] = [c[b] EXCEPT !.ins = BeforeBack(c[b], Epilog(c[b]))]
                                     ELSE e[b] = c[b]
  BY <1>0, EpilogsAre
<1>2. Sturdy(e) /\ Aims(e) /\ Len(e) = Len(c)
  BY <1>0, <1>1, WeaveSturdy, WeaveAims DEF Weaves
<1>3. Counted(e)
  <2>1. Pops \cap {"count"} = {}
    BY DEF Pops
  <2> QED  BY <1>0, <1>1, <2>1, WeaveWithout DEF Counted
<1>4. ASSUME NEW b \in 1 .. Len(c), Back(c[b]) \in Returns
      PROVE  /\ Len(c[b].ins) \in Nat /\ Len(c[b].ins) >= 1 /\ Len(e[b].ins) = Len(c[b].ins) + 1
             /\ \A k \in 1 .. Len(c[b].ins) - 1 : e[b].ins[k] = c[b].ins[k]
             /\ e[b].ins[Len(c[b].ins)] = Epilog(c[b]) /\ e[b].ins[Len(c[b].ins) + 1] = Back(c[b])
             /\ Back(e[b]) = Back(c[b])
  <2>1. c[b] \in Blocks /\ Len(c[b].ins) >= 1
    BY <1>0, <1>4 DEF Sturdy, Solid
  <2>2. PICK y : y = BeforeBack(c[b], Epilog(c[b]))
    OBVIOUS
  <2>3. Epilog(c[b]) \in All
    BY DEF Epilog, All, Inserted
  <2>4. /\ Len(c[b].ins) \in Nat /\ Len(y) = Len(c[b].ins) + 1
        /\ \A k \in 1 .. Len(c[b].ins) - 1 : y[k] = c[b].ins[k]
        /\ y[Len(c[b].ins)] = Epilog(c[b]) /\ y[Len(c[b].ins) + 1] = Back(c[b])
    BY <2>1, <2>2, <2>3, BeforeBackIs
  <2>5. e[b] = [c[b] EXCEPT !.ins = y]
    BY <1>1, <1>4, <2>2
  <2>6. e[b].ins = y
    BY <2>1, <2>5 DEF Blocks
  <2>7. Back(e[b]) = Back(c[b])
    BY <1>1 DEF Weaves, Woven
  <2> QED  BY <2>1, <2>4, <2>6, <2>7
<1>5. ASSUME NEW b \in 1 .. Len(c), Back(c[b]) \notin Returns PROVE e[b] = c[b]
  BY <1>1, <1>5
<1>6. ASSUME NEW b \in 1 .. Len(c) PROVE Shut(f, e[b])
  <2>1. CASE Back(c[b]) \in Returns
    <3>1. ASSUME NEW k \in 1 .. Len(e[b].ins), e[b].ins[k] \in Pops PROVE k = Len(e[b].ins) - 1
      <4>1. k \notin 1 .. Len(c[b].ins) - 1
        <5> SUFFICES ASSUME k \in 1 .. Len(c[b].ins) - 1 PROVE FALSE
          OBVIOUS
        <5>1. k \in 1 .. Len(c[b].ins) /\ c[b].ins[k] \in Pops
          BY <1>4, <2>1, <3>1
        <5> QED  BY <1>0, <5>1 DEF Without
      <4>2. k # Len(c[b].ins) + 1
        BY <1>4, <2>1, <3>1 DEF Pops, Returns
      <4>3. /\ Len(c[b].ins) \in Nat /\ Len(c[b].ins) >= 1 /\ Len(e[b].ins) = Len(c[b].ins) + 1
        BY <1>4, <2>1
      <4>4. PICK n, m : n = Len(c[b].ins) /\ m = Len(e[b].ins)
        OBVIOUS
      <4>5. n \in Nat /\ n >= 1 /\ m = n + 1 /\ k \in 1 .. m /\ k \notin 1 .. n - 1 /\ k # n + 1
        BY <4>1, <4>2, <4>3, <4>4
      <4>6. k = m - 1
        BY <4>5
      <4> QED  BY <4>4, <4>6
    <3>2. /\ Len(e[b].ins) - 1 = Len(c[b].ins) /\ Len(e[b].ins) >= 2
          /\ e[b].ins[Len(e[b].ins) - 1] = Epilog(c[b]) /\ Back(e[b]) = Back(c[b])
      BY <1>4, <2>1
    <3>3. Epilog(c[b]) \in Pops /\ (Epilog(c[b]) = "epilogjmp" => build.scheme = "REG" /\ ~IsCall(Back(c[b])))
      BY DEF Epilog, Pops
    <3> QED  BY <2>1, <3>1, <3>2, <3>3 DEF Shut
  <2>2. CASE Back(c[b]) \notin Returns
    BY <1>0, <1>5, <2>2 DEF Shut, Without
  <2> QED  BY <2>1, <2>2
<1>7. Opened(e, p)
  <2>0. /\ p \in 1 .. Len(c[1].ins) /\ c[1].ins[p] = "prolog"
        /\ \A k \in 1 .. p - 1 : c[1].ins[k] \in {"load", "enter"}
        /\ \A b \in 1 .. Len(c) : \A k \in 1 .. Len(c[b].ins) : c[b].ins[k] = "prolog" => b = 1 /\ k = p
    BY <1>0 DEF Opened
  <2>1. 1 \in 1 .. Len(c)
    BY <1>0 DEF Sturdy
  <2>2. ASSUME Back(c[1]) \in Returns
        PROVE  p \in 1 .. Len(c[1].ins) - 1 /\ \A k \in 1 .. p : e[1].ins[k] = c[1].ins[k]
    <3>1. c[1].ins[Len(c[1].ins)] # "prolog"
      BY <2>2 DEF Back, Returns
    <3>2. p \in 1 .. Len(c[1].ins) - 1
      BY <1>4, <2>0, <2>1, <2>2, <3>1
    <3>3. \A k \in 1 .. p : k \in 1 .. Len(c[1].ins) - 1
      BY <1>4, <2>1, <2>2, <3>2
    <3> QED  BY <1>4, <2>1, <2>2, <3>2, <3>3
  <2>3. p \in 1 .. Len(e[1].ins) /\ p \in 1 .. p /\ \A k \in 1 .. p : e[1].ins[k] = c[1].ins[k]
    <3>1. CASE Back(c[1]) \in Returns
      BY <1>4, <2>0, <2>1, <2>2, <3>1
    <3>2. CASE Back(c[1]) \notin Returns
      BY <1>5, <2>0, <2>1, <3>2
    <3> QED  BY <3>1, <3>2
  <2>4. \A k \in 1 .. p - 1 : k \in 1 .. p
    BY <2>0
  <2>5. ASSUME NEW b \in 1 .. Len(c), NEW k \in 1 .. Len(e[b].ins), e[b].ins[k] = "prolog"
        PROVE  k \in 1 .. Len(c[b].ins) /\ c[b].ins[k] = "prolog"
    <3>1. CASE Back(c[b]) \in Returns
      <4>1. k # Len(c[b].ins) /\ k # Len(c[b].ins) + 1
        BY <1>4, <2>5, <3>1 DEF Epilog, Returns
      <4>2. k \in 1 .. Len(c[b].ins) - 1 /\ k \in 1 .. Len(c[b].ins)
        BY <1>4, <2>5, <3>1, <4>1
      <4> QED  BY <1>4, <2>5, <3>1, <4>2
    <3>2. CASE Back(c[b]) \notin Returns
      BY <1>5, <2>5, <3>2
    <3> QED  BY <3>1, <3>2
  <2>6. p \in 1 .. Len(e[1].ins) /\ e[1].ins[p] = "prolog"
    BY <2>0, <2>3
  <2>7. \A k \in 1 .. p - 1 : e[1].ins[k] \in {"load", "enter"}
    BY <2>0, <2>3, <2>4
  <2>8. \A b \in 1 .. Len(e) : \A k \in 1 .. Len(e[b].ins) : e[b].ins[k] = "prolog" => b = 1 /\ k = p
    BY <1>2, <2>0, <2>5
  <2> QED  BY <2>6, <2>7, <2>8 DEF Opened
<1>8. \E q \in 1 .. Len(e[1].ins) : Opened(e, q)
  BY <1>7 DEF Opened
<1> QED  BY <1>2, <1>3, <1>6, <1>8 DEF Guarded

-----------------------------------------------------------------------------
(* The shadow stack passes. *)

\* A function without a store that could hit its slot is spared.
LEMMA SparedOnes ==
  ASSUME NEW c, Raw(c), ~MayWriteMem(c)
  PROVE  Spared(c)
<1>1. Clean(c) /\ c \in Seq(Blocks)
  BY DEF Raw, Sturdy
<1>2. ASSUME NEW b \in 1 .. Len(c), NEW k \in 1 .. Len(c[b].ins), c[b].ins[k] = "store" PROVE FALSE
  <2>1. b \in DOMAIN c /\ c[b] \in Blocks
    BY <1>1
  <2>2. k \in DOMAIN c[b].ins
    BY <2>1 DEF Blocks
  <2>3. "store" \in ToSet(c[b].ins)
    BY <1>2, <2>2 DEF ToSet
  <2>4. ~IsPush("store") /\ "store" \in Stores /\ ~IsGlobalVarAccess("store")
    BY DEF IsPush, Stores, IsGlobalVarAccess
  <2> QED  BY <2>1, <2>3, <2>4 DEF MayWriteMem
<1>3. Without(c, {"store"})
  BY <1>2 DEF Without
<1> QED  BY <1>1, <1>3 DEF Spared

\* A prolog displaces the landing pad.
LEMMA GuardedDisplaced ==
  ASSUME NEW f, NEW c, Sturdy(c), Guarded(f, c)
  PROVE  Displaced(f, c)
<1>1. PICK p \in 1 .. Len(c[1].ins) : Opened(c, p)
  BY DEF Guarded
<1>2. c[1] \in Blocks
  BY DEF Sturdy
<1>3. p \in DOMAIN c[1].ins /\ c[1].ins[p] = "prolog"
  BY <1>1, <1>2 DEF Opened, Blocks
<1> QED  BY <1>3 DEF Displaced, ToSet

\* The shadow stack pass of each scheme leaves guarded or spared code.
Shadow(f, c) == IF build.scheme = "REG" THEN ShadowStackReg(f, c) ELSE ShadowStack(c)

\* A function with a store that could hit its slot gets one prolog, and an epilog for
\* each return block unless it is a constructor under REG.
LEMMA ShadowGuards ==
  ASSUME NEW f, NEW c, Raw(c), MayWriteMem(c), NEW e, e = Shadow(f, c)
  PROVE  Guarded(f, e) /\ Sturdy(e) /\ Counted(e)
<1>1. PICK d : d = AtEntry(c, "prolog")
  OBVIOUS
<1>2. Ready(d, 1)
  BY <1>1, ReadyFirst
<1>3. CASE build.scheme # "REG"
  <2>1. e = Epilogs(d) /\ ~NeverPops(f)
    BY <1>1, <1>3 DEF Shadow, ShadowStack, NeverPops
  <2> QED  BY <1>2, <2>1, GuardedShut
<1>4. CASE build.scheme = "REG"
  <2>1. PICK l : l = IF IsGlobalConstructor(f) \/ f = Main THEN AtEntry(d, "load") ELSE d
    OBVIOUS
  <2>2. e = IF ~IsGlobalConstructor(f) THEN Epilogs(l) ELSE l
    BY <1>1, <1>4, <2>1 DEF Shadow, ShadowStackReg
  <2>3. \E p : Ready(l, p)
    <3>1. CASE IsGlobalConstructor(f) \/ f = Main
      BY <1>2, <2>1, <3>1, ReadyLoad
    <3>2. CASE ~(IsGlobalConstructor(f) \/ f = Main)
      BY <1>2, <2>1, <3>2
    <3> QED  BY <3>1, <3>2
  <2>4. PICK p : Ready(l, p)
    BY <2>3
  <2>5. CASE IsGlobalConstructor(f)
    <3>1. NeverPops(f) /\ e = l
      BY <1>4, <2>2, <2>5 DEF NeverPops
    <3> QED  BY <2>4, <3>1, GuardedOpen DEF Ready
  <2>6. CASE ~IsGlobalConstructor(f)
    <3>1. ~NeverPops(f) /\ e = Epilogs(l)
      BY <2>2, <2>6 DEF NeverPops
    <3> QED  BY <2>4, <3>1, GuardedShut
  <2> QED  BY <2>5, <2>6
<1> QED  BY <1>3, <1>4

\* The shadow stack pass leaves guarded code, or code that needs no guard.
LEMMA ShadowCompiles ==
  ASSUME NEW f, NEW c, Raw(c), build.count \/ Landing(c), NEW e, e = Shadow(f, c)
  PROVE  Compiled(f, e)
<1>1. CASE MayWriteMem(c)
  <2>1. Guarded(f, e) /\ Sturdy(e) /\ Counted(e)
    BY <1>1, ShadowGuards
  <2> QED  BY <2>1, GuardedDisplaced DEF Compiled
<1>2. CASE ~MayWriteMem(c)
  <2>1. Spared(c) /\ Sturdy(c) /\ Counted(c)
    BY <1>2, SparedOnes DEF Raw
  <2>2. CASE build.scheme = "REG" /\ (IsGlobalConstructor(f) \/ f = Main)
    <3>1. e = AtEntry(c, "load")
      BY <1>2, <2>2 DEF Shadow, ShadowStackReg
    <3>2. Raw(e)
      BY <3>1, RawAtEntry
    <3>3. "load" \notin {"store"}
      OBVIOUS
    <3>4. Without(e, {"store"})
      BY <2>1, <3>1, <3>3, FrontKeeps DEF Spared
    <3>5. Displaced(f, e)
      BY <2>2 DEF Displaced
    <3> QED  BY <3>2, <3>4, <3>5 DEF Compiled, Spared, Raw
  <2>3. CASE ~(build.scheme = "REG" /\ (IsGlobalConstructor(f) \/ f = Main))
    <3>1. e = c
      BY <1>2, <2>3 DEF Shadow, ShadowStackReg, ShadowStack
    <3>2. build.ibt /\ c[1].ins[1] # "endbr" => Displaced(f, c)
      BY DEF Landing, Displaced
    <3> QED  BY <2>1, <3>1, <3>2 DEF Compiled
  <2> QED  BY <2>2, <2>3
<1> QED  BY <1>1, <1>2

\* XRay renames the returns and tail calls it puts sleds around.
Sled(i) == IF i = "ret" THEN "sledret" ELSE IF i = "tail" THEN "sledtail" ELSE i
Sledded(c) == [b \in DOMAIN c |-> [c[b] EXCEPT !.ins = [k \in DOMAIN c[b].ins |-> Sled(c[b].ins[k])]]]

\* The names keep what they are.
LEMMA SledFacts ==
  ASSUME NEW i \in All
  PROVE  /\ Sled(i) \in All
         /\ Sled(i) \in Returns <=> i \in Returns
         /\ i \notin {"ret", "tail"} => Sled(i) = i
         /\ Sled(i) \notin {"sledret", "sledtail"} => Sled(i) = i
         /\ Sled(i) \in Jumps <=> i \in Jumps
BY DEF Sled, All, Program, Inserted, Returns, Jumps

\* XRay's renaming, instruction by instruction.
LEMMA SleddedIs ==
  ASSUME NEW c, Sturdy(c), NEW m, m = Sledded(c)
  PROVE  /\ m \in Seq(Blocks) /\ Len(m) = Len(c)
         /\ \A b \in 1 .. Len(c) :
              /\ m[b].to = c[b].to /\ Len(m[b].ins) = Len(c[b].ins) /\ Len(c[b].ins) \in Nat /\ Len(c[b].ins) >= 1
              /\ \A k \in 1 .. Len(c[b].ins) : c[b].ins[k] \in All /\ m[b].ins[k] = Sled(c[b].ins[k])
              /\ Back(m[b]) = Sled(Back(c[b])) /\ Back(c[b]) \in All
<1>1. c \in Seq(Blocks) /\ Len(c) \in Nat /\ DOMAIN c = 1 .. Len(c) /\ \A b \in 1 .. Len(c) : c[b] \in Blocks /\ Len(c[b].ins) >= 1
  BY DEF Sturdy, Solid
<1>2. ASSUME NEW b \in 1 .. Len(c)
      PROVE  /\ m[b] \in Blocks
             /\ m[b].to = c[b].to /\ Len(m[b].ins) = Len(c[b].ins) /\ Len(c[b].ins) \in Nat /\ Len(c[b].ins) >= 1
             /\ \A k \in 1 .. Len(c[b].ins) : c[b].ins[k] \in All /\ m[b].ins[k] = Sled(c[b].ins[k])
             /\ Back(m[b]) = Sled(Back(c[b])) /\ Back(c[b]) \in All
  <2>1. PICK s : s = c[b].ins
    OBVIOUS
  <2>2. s \in Seq(All) /\ Len(s) \in Nat /\ Len(s) >= 1 /\ DOMAIN s = 1 .. Len(s) /\ c[b].to \in Nat
        /\ c[b] = [ins |-> s, to |-> c[b].to]
    BY <1>1, <2>1 DEF Blocks
  <2>3. PICK t : t = [k \in 1 .. Len(s) |-> Sled(s[k])]
    OBVIOUS
  <2>4. \A k \in 1 .. Len(s) : s[k] \in All /\ t[k] = Sled(s[k]) /\ t[k] \in All
    BY <2>2, <2>3, SledFacts
  <2>5. t \in Seq(All) /\ Len(t) = Len(s)
    <3>1. t \in [1 .. Len(s) -> All]
      BY <2>3, <2>4
    <3> QED  BY <2>2, <3>1
  <2>6. m[b] = [ins |-> t, to |-> c[b].to]
    <3>1. m[b] = [c[b] EXCEPT !.ins = t]
      BY <1>1, <2>1, <2>2, <2>3 DEF Sledded
    <3> QED  BY <2>2, <3>1
  <2>7. m[b] \in Blocks /\ m[b].ins = t /\ m[b].to = c[b].to
    BY <2>2, <2>5, <2>6 DEF Blocks
  <2>8. Len(s) \in 1 .. Len(s)
    BY <2>2
  <2>9. Back(m[b]) = Sled(Back(c[b])) /\ Back(c[b]) \in All
    BY <2>1, <2>4, <2>5, <2>7, <2>8 DEF Back
  <2> QED  BY <2>1, <2>2, <2>4, <2>5, <2>7, <2>9
<1>3. m \in Seq(Blocks) /\ Len(m) = Len(c)
  <2>1. m \in [1 .. Len(c) -> Blocks]
    BY <1>1, <1>2 DEF Sledded
  <2> QED  BY <1>1, <2>1
<1> QED  BY <1>2, <1>3

-----------------------------------------------------------------------------
(* XRay and the thunks. *)

\* The renaming keeps prologs, epilogs and branches where they are.
LEMMA SleddedKeeps ==
  ASSUME NEW f, NEW c, Sturdy(c), NEW m, m = Sledded(c)
  PROVE  /\ Sturdy(m) /\ (Guarded(f, c) => Guarded(f, m))
         /\ \A T : T \cap {"sledret", "sledtail"} = {} /\ Without(c, T) => Without(m, T)
<1>1. /\ c \in Seq(Blocks) /\ Len(c) \in Nat /\ Len(c) >= 1
      /\ \A b \in 1 .. Len(c) : Solid(c[b], Len(c))
      /\ Back(c[Len(c)]) \in {"jmp"} \cup (Returns \ {"cctail"})
  BY DEF Sturdy
<1>2. m \in Seq(Blocks) /\ Len(m) = Len(c)
  BY SleddedIs
<1>3. ASSUME NEW b \in 1 .. Len(c)
      PROVE  /\ m[b].to = c[b].to /\ Len(m[b].ins) = Len(c[b].ins) /\ Len(c[b].ins) \in Nat /\ Len(c[b].ins) >= 1
             /\ \A k \in 1 .. Len(c[b].ins) : c[b].ins[k] \in All /\ m[b].ins[k] = Sled(c[b].ins[k])
             /\ Back(m[b]) = Sled(Back(c[b])) /\ Back(c[b]) \in All
  BY SleddedIs
<1>4. ASSUME NEW b \in 1 .. Len(c) PROVE Solid(m[b], Len(m))
  <2>1. ASSUME NEW k \in 1 .. Len(m[b].ins) - 1, m[b].ins[k] \in Returns
        PROVE  m[b].ins[k] = "cctail" /\ Back(m[b]) = "jmp"
    <3>1. k \in 1 .. Len(c[b].ins) - 1 /\ k \in 1 .. Len(c[b].ins)
      BY <1>3, <2>1
    <3>2. c[b].ins[k] \in Returns
      BY <1>3, <2>1, <3>1, SledFacts
    <3>3. c[b].ins[k] = "cctail" /\ Back(c[b]) = "jmp"
      BY <1>1, <3>1, <3>2 DEF Solid
    <3> QED  BY <1>3, <3>1, <3>3 DEF Sled
  <2>2. ASSUME NEW k \in 1 .. Len(m[b].ins), m[b].ins[k] \in Jumps PROVE m[b].to \in 2 .. Len(m)
    <3>1. k \in 1 .. Len(c[b].ins) /\ c[b].ins[k] \in Jumps
      BY <1>3, <2>2, SledFacts
    <3> QED  BY <1>1, <1>2, <1>3, <3>1 DEF Solid
  <2>3. ASSUME NEW k \in 1 .. Len(m[b].ins), m[b].ins[k] = "check" PROVE k < Len(m[b].ins) /\ m[b].ins[k + 1] # "prolog"
    <3>1. k \in 1 .. Len(c[b].ins) /\ c[b].ins[k] = "check"
      BY <1>3, <2>3 DEF Sled
    <3>2. k < Len(c[b].ins) /\ c[b].ins[k + 1] # "prolog"
      BY <1>1, <3>1 DEF Solid
    <3>3. k + 1 \in 1 .. Len(c[b].ins)
      BY <1>3, <3>1, <3>2
    <3> QED  BY <1>3, <3>2, <3>3 DEF Sled
  <2> QED  BY <1>3, <2>1, <2>2, <2>3 DEF Solid
<1>5. Back(m[Len(m)]) \in {"jmp"} \cup (Returns \ {"cctail"})
  <2>1. Len(c) \in 1 .. Len(c)
    BY <1>1
  <2> QED  BY <1>1, <1>2, <1>3, <2>1 DEF Sled, Returns
<1>6. Sturdy(m)
  BY <1>1, <1>2, <1>4, <1>5 DEF Sturdy
<1>7. ASSUME NEW T, T \cap {"sledret", "sledtail"} = {}, Without(c, T) PROVE Without(m, T)
  <2> SUFFICES ASSUME NEW b \in 1 .. Len(m), NEW k \in 1 .. Len(m[b].ins), m[b].ins[k] \in T PROVE FALSE
    BY DEF Without
  <2>1. b \in 1 .. Len(c) /\ k \in 1 .. Len(c[b].ins) /\ m[b].ins[k] = Sled(c[b].ins[k])
    BY <1>2, <1>3
  <2>2. m[b].ins[k] = c[b].ins[k]
    BY <1>7, <2>1 DEF Sled
  <2> QED  BY <1>7, <2>1, <2>2 DEF Without
<1>8. ASSUME Guarded(f, c) PROVE Guarded(f, m)
  <2>1. Aims(m)
    <3> SUFFICES ASSUME NEW b \in 1 .. Len(m), NEW k \in 1 .. Len(m[b].ins), m[b].ins[k] = "aim"
                 PROVE  Back(m[b]) = "ehret" /\ \A j \in 1 .. Len(m[b].ins) : m[b].ins[j] \notin Jumps
      BY DEF Aims, Aimed
    <3>1. b \in 1 .. Len(c) /\ k \in 1 .. Len(c[b].ins) /\ c[b].ins[k] = "aim"
      BY <1>2, <1>3 DEF Sled
    <3>2. Back(c[b]) = "ehret" /\ \A j \in 1 .. Len(c[b].ins) : c[b].ins[j] \notin Jumps
      BY <1>8, <3>1 DEF Guarded, Aims, Aimed
    <3>3. Back(m[b]) = "ehret"
      BY <1>3, <3>1, <3>2 DEF Sled
    <3>4. \A j \in 1 .. Len(m[b].ins) : m[b].ins[j] \notin Jumps
      BY <1>3, <3>1, <3>2, SledFacts
    <3> QED  BY <3>3, <3>4
  <2>2. PICK p \in 1 .. Len(c[1].ins) : Opened(c, p)
    BY <1>8 DEF Guarded
  <2>3. 1 \in 1 .. Len(c)
    BY <1>1
  <2>4. p \in 1 .. Len(m[1].ins) /\ m[1].ins[p] = "prolog"
    BY <1>3, <2>2, <2>3 DEF Opened, Sled
  <2>5. \A k \in 1 .. p - 1 : m[1].ins[k] \in {"load", "enter"}
    <3>1. \A k \in 1 .. p - 1 : k \in 1 .. Len(c[1].ins)
      BY <1>3, <2>2, <2>3
    <3> QED  BY <1>3, <2>2, <2>3, <3>1 DEF Opened, Sled
  <2>6. ASSUME NEW b \in 1 .. Len(m), NEW k \in 1 .. Len(m[b].ins), m[b].ins[k] = "prolog"
        PROVE  b = 1 /\ k = p
    <3>1. b \in 1 .. Len(c) /\ k \in 1 .. Len(c[b].ins) /\ c[b].ins[k] = "prolog"
      BY <1>2, <1>3, <2>6 DEF Sled
    <3> QED  BY <2>2, <3>1 DEF Opened
  <2>7. Opened(m, p)
    BY <2>4, <2>5, <2>6 DEF Opened
  <2>8. ASSUME NEW b \in 1 .. Len(m) PROVE Shut(f, m[b])
    <3>1. b \in 1 .. Len(c) /\ Shut(f, c[b])
      BY <1>2, <1>8 DEF Guarded
    <3>2. Back(m[b]) \in Returns <=> Back(c[b]) \in Returns
      BY <1>3, <3>1, SledFacts
    <3>3. IsCall(Back(m[b])) => IsCall(Back(c[b]))
      BY <1>3, <3>1 DEF IsCall, Sled
    <3>4. \A k \in 1 .. Len(c[b].ins) : /\ m[b].ins[k] \in Pops <=> c[b].ins[k] \in Pops
                                        /\ c[b].ins[k] \in Pops => m[b].ins[k] = c[b].ins[k]
      BY <1>3, <3>1 DEF Sled, Pops
    <3>5. Len(m[b].ins) = Len(c[b].ins) /\ Len(c[b].ins) \in Nat
      BY <1>3, <3>1
    <3>6. ASSUME NEW k \in 1 .. Len(m[b].ins), m[b].ins[k] \in Pops
          PROVE  /\ k = Len(m[b].ins) - 1 /\ Back(m[b]) \in Returns /\ ~NeverPops(f)
                 /\ m[b].ins[k] = "epilogjmp" => build.scheme = "REG" /\ ~IsCall(Back(m[b]))
      BY <3>1, <3>2, <3>3, <3>4, <3>5, <3>6 DEF Shut
    <3>7. ASSUME ~NeverPops(f), Back(m[b]) \in Returns
          PROVE  Len(m[b].ins) >= 2 /\ m[b].ins[Len(m[b].ins) - 1] \in Pops
      <4>1. Len(c[b].ins) >= 2 /\ c[b].ins[Len(c[b].ins) - 1] \in Pops
        BY <3>1, <3>2, <3>7 DEF Shut
      <4>2. Len(c[b].ins) - 1 \in 1 .. Len(c[b].ins)
        BY <3>5, <4>1
      <4> QED  BY <3>4, <3>5, <4>1, <4>2
    <3> QED  BY <3>6, <3>7 DEF Shut
  <2> QED  BY <2>1, <2>4, <2>7, <2>8 DEF Guarded
<1> QED  BY <1>6, <1>7, <1>8

\* XRay's own sled in front, or the load of r15.
LEMMA GuardedFront ==
  ASSUME NEW f, NEW c, Sturdy(c), Counted(c), Guarded(f, c), NEW i \in {"load", "enter"}, NEW d, d = AtEntry(c, i)
  PROVE  Guarded(f, d)
<1>1. i \in Neutral /\ i # "check" /\ i \notin Pops
  BY DEF Neutral, Pops
<1>2. Weaves(c, d, {i}) /\ Fronted(c, d, i)
  BY <1>1, AtEntryIs
<1>3. Aims(d)
  BY FrontKeeps DEF Guarded
<1>4. PICK p \in 1 .. Len(c[1].ins) : Opened(c, p)
  BY DEF Guarded
<1>5. Opened(d, p + 1)
  BY <1>4, OpenedFront
<1>6. \E q \in 1 .. Len(d[1].ins) : Opened(d, q)
  BY <1>5 DEF Opened
<1>7. ASSUME NEW b \in 1 .. Len(d) PROVE Shut(f, d[b])
  <2>1. b \in 1 .. Len(c) /\ Shut(f, c[b])
    BY <1>2 DEF Fronted, Guarded
  <2>2. CASE b # 1
    BY <1>2, <2>1, <2>2 DEF Fronted
  <2>3. CASE b = 1
    <3>1. Back(d[1]) = Back(c[1])
      BY <1>2, <2>1, <2>3 DEF Weaves, Woven
    <3>2. /\ Len(c[1].ins) \in Nat /\ Len(d[1].ins) = Len(c[1].ins) + 1 /\ d[1].ins[1] \notin Pops
          /\ \A k \in 1 .. Len(c[1].ins) : d[1].ins[k + 1] = c[1].ins[k]
          /\ \A k \in 1 .. Len(d[1].ins) : k = 1 \/ (k - 1 \in 1 .. Len(c[1].ins) /\ d[1].ins[k] = c[1].ins[k - 1])
      BY <1>1, <1>2 DEF Fronted
    <3>3. ASSUME NEW k \in 1 .. Len(d[1].ins), d[1].ins[k] \in Pops
          PROVE  /\ k = Len(d[1].ins) - 1 /\ Back(d[1]) \in Returns /\ ~NeverPops(f)
                 /\ d[1].ins[k] = "epilogjmp" => build.scheme = "REG" /\ ~IsCall(Back(d[1]))
      <4>1. k - 1 \in 1 .. Len(c[1].ins) /\ d[1].ins[k] = c[1].ins[k - 1]
        BY <3>2, <3>3
      <4>2. k - 1 = Len(c[1].ins) - 1
        BY <2>1, <2>3, <3>3, <4>1 DEF Shut
      <4>3. k = Len(d[1].ins) - 1
        BY <3>2, <4>2
      <4>4. /\ Back(c[1]) \in Returns /\ ~NeverPops(f)
            /\ c[1].ins[k - 1] = "epilogjmp" => build.scheme = "REG" /\ ~IsCall(Back(c[1]))
        <5>1. \A j \in 1 .. Len(c[1].ins) : c[1].ins[j] \in Pops =>
                /\ Back(c[1]) \in Returns /\ ~NeverPops(f)
                /\ c[1].ins[j] = "epilogjmp" => build.scheme = "REG" /\ ~IsCall(Back(c[1]))
          BY <2>1, <2>3 DEF Shut
        <5>2. c[1].ins[k - 1] \in Pops
          BY <3>3, <4>1
        <5> QED  BY <4>1, <5>1, <5>2
      <4> QED  BY <3>1, <4>1, <4>3, <4>4
    <3>4. ASSUME ~NeverPops(f), Back(d[1]) \in Returns
          PROVE  Len(d[1].ins) >= 2 /\ d[1].ins[Len(d[1].ins) - 1] \in Pops
      <4>1. Len(c[1].ins) >= 2 /\ c[1].ins[Len(c[1].ins) - 1] \in Pops
        BY <2>1, <2>3, <3>1, <3>4 DEF Shut
      <4>2. Len(c[1].ins) - 1 \in 1 .. Len(c[1].ins) /\ (Len(c[1].ins) - 1) + 1 = Len(d[1].ins) - 1
        BY <3>2, <4>1
      <4>3. d[1].ins[(Len(c[1].ins) - 1) + 1] = c[1].ins[Len(c[1].ins) - 1]
        BY <3>2, <4>2
      <4>4. Len(d[1].ins) >= 2
        BY <3>2, <4>1
      <4> QED  BY <4>1, <4>2, <4>3, <4>4
    <3> QED  BY <2>3, <3>3, <3>4 DEF Shut
  <2> QED  BY <2>2, <2>3
<1> QED  BY <1>3, <1>6, <1>7 DEF Guarded

\* XRay leaves guarded code guarded and spared code spared.
LEMMA XRayCompiles ==
  ASSUME NEW f, NEW c, Compiled(f, c), build.xray, NEW e, e = XRay(c)
  PROVE  Compiled(f, e)
<1>1. Sturdy(c) /\ Counted(c) /\ (Guarded(f, c) \/ Spared(c))
  BY DEF Compiled
<1>2. PICK m : m = Sledded(c)
  OBVIOUS
<1>3. e = AtEntry(m, "enter")
  BY <1>2 DEF XRay, EachBlock, Sledded, Sled
<1>4. /\ Sturdy(m) /\ (Guarded(f, c) => Guarded(f, m))
      /\ \A T : T \cap {"sledret", "sledtail"} = {} /\ Without(c, T) => Without(m, T)
  BY <1>1, <1>2, SleddedKeeps
<1>5. Counted(m)
  <2>1. {"count"} \cap {"sledret", "sledtail"} = {}
    OBVIOUS
  <2> QED  BY <1>1, <1>4, <2>1 DEF Counted
<1>6. "enter" \in {"prolog", "load", "enter"} /\ "enter" \in {"load", "enter"}
  OBVIOUS
<1>7. Sturdy(e) /\ Counted(e)
  BY <1>3, <1>4, <1>5, <1>6, FrontKeeps
<1>8. CASE Guarded(f, c)
  <2>1. Guarded(f, e)
    BY <1>3, <1>4, <1>5, <1>6, <1>8, GuardedFront
  <2> QED  BY <1>7, <2>1 DEF Compiled, Displaced
<1>9. CASE Spared(c)
  <2>1. (Pops \cup {"prolog"}) \cap {"sledret", "sledtail"} = {} /\ {"store"} \cap {"sledret", "sledtail"} = {}
    BY DEF Pops
  <2>2. Without(m, Pops \cup {"prolog"}) /\ Without(m, {"store"})
    BY <1>4, <1>9, <2>1 DEF Spared, Clean
  <2>3. "enter" \notin Pops \cup {"prolog"} /\ "enter" \notin {"store"}
    BY DEF Pops
  <2>4. \A T : "enter" \notin T /\ Without(m, T) => Without(e, T)
    BY <1>3, <1>4, <1>5, <1>6, FrontKeeps
  <2>5. Spared(e)
    BY <2>2, <2>3, <2>4 DEF Spared, Clean
  <2> QED  BY <1>7, <2>5 DEF Compiled, Displaced
<1> QED  BY <1>1, <1>8, <1>9

\* The thunk's placeholder is replaced by code that nothing guards and that
\* stores nowhere but to its own return address.
LEMMA ThunksCompile ==
  ASSUME NEW f, NEW c, Compiled(f, c), NEW e, e = RetpolineThunks(f, c)
  PROVE  Compiled(f, e)
<1>1. CASE f # Thunk
  BY <1>1 DEF RetpolineThunks
<1>2. CASE f = Thunk
  <2>1. PICK s : s = <<"aim", "ret">>
    OBVIOUS
  <2>2. s \in Seq(All) /\ Len(s) = 2 /\ s[1] = "aim" /\ s[2] = "ret" /\ \A k \in 1 .. Len(s) : k \in {1, 2}
    BY <2>1 DEF All, Program
  <2>3. PICK x : x = [ins |-> s, to |-> 0]
    OBVIOUS
  <2>4. x \in Blocks /\ x.ins = s /\ Back(x) = "ret"
    BY <2>2, <2>3 DEF Blocks, Back
  <2>5. e = <<x>>
    BY <1>2, <2>1, <2>3 DEF RetpolineThunks
  <2>6. e \in Seq(Blocks) /\ Len(e) = 1 /\ e[1] = x /\ \A b \in 1 .. Len(e) : b = 1
    BY <2>4, <2>5
  <2>7. Solid(x, 1)
    <3>1. Len(x.ins) = 2 /\ x.ins[1] = "aim" /\ x.ins[2] = "ret"
      BY <2>2, <2>4
    <3>2. \A k \in 1 .. 1 : x.ins[k] \notin Returns
      BY <3>1 DEF Returns
    <3>3. \A k \in 1 .. 2 : x.ins[k] \notin Jumps /\ x.ins[k] # "check"
      <4>1. \A k \in 1 .. 2 : k = 1 \/ k = 2
        OBVIOUS
      <4> QED  BY <3>1, <4>1 DEF Jumps
    <3>4. Len(x.ins) - 1 = 1
      BY <3>1
    <3> QED  BY <3>1, <3>2, <3>3, <3>4 DEF Solid
  <2>8. Sturdy(e)
    BY <2>4, <2>6, <2>7 DEF Sturdy, Returns
  <2>9. \A T : T \cap {"aim", "ret"} = {} => Without(e, T)
    BY <2>2, <2>4, <2>6 DEF Without
  <2>10. (Pops \cup {"prolog"}) \cap {"aim", "ret"} = {} /\ {"store"} \cap {"aim", "ret"} = {} /\ {"count"} \cap {"aim", "ret"} = {}
    BY DEF Pops
  <2>11. Without(e, Pops \cup {"prolog"}) /\ Without(e, {"store"}) /\ Without(e, {"count"})
    BY <2>9, <2>10
  <2> QED  BY <1>2, <2>8, <2>11 DEF Compiled, Spared, Clean, Counted, Displaced
<1> QED  BY <1>1, <1>2

-----------------------------------------------------------------------------
(* The pipeline. *)

\* The pipeline, seen from each pass.
Names == {"mpx", "regalloc", "ibt", "count", "shadow", "xray", "thunks"}

\* Head and tail of a list of passes.
LEMMA ConsIs ==
  ASSUME NEW p \in Names, NEW s \in Seq(Names), NEW t, t = <<p>> \o s
  PROVE  t \in Seq(Names) /\ t # <<>> /\ Head(t) = p /\ Tail(t) = s
<1>1. <<p>> \in Seq(Names) /\ Len(<<p>>) = 1 /\ <<p>>[1] = p /\ Len(s) \in Nat
  OBVIOUS
<1>2. /\ t \in Seq(Names) /\ Len(t) = Len(s) + 1
      /\ \A k \in 1 .. Len(t) : t[k] = IF k <= 1 THEN <<p>>[k] ELSE s[k - 1]
  BY <1>1, ConcatProperties
<1>3. t # <<>> /\ Head(t) = p
  BY <1>1, <1>2
<1>4. Tail(t) \in Seq(Names) /\ Len(Tail(t)) = Len(s) /\ \A i \in 1 .. Len(Tail(t)) : Tail(t)[i] = t[i + 1]
  BY <1>1, <1>2, <1>3, HeadTailProperties
<1>5. ASSUME NEW i \in 1 .. Len(s) PROVE Tail(t)[i] = s[i]
  <2>1. i + 1 \in 1 .. Len(t) /\ ~(i + 1 <= 1) /\ (i + 1) - 1 = i
    BY <1>1, <1>2
  <2> QED  BY <1>2, <1>4, <2>1
<1>6. Tail(t) = s
  BY <1>1, <1>4, <1>5
<1> QED  BY <1>2, <1>3, <1>6

\* What is first in each rest of the pipeline, and what is left behind it.
LEMMA Heads ==
  /\ P8 = <<>>
  /\ P7 # <<>> /\ Head(P7) = "thunks" /\ Tail(P7) = P8
  /\ IF build.xray THEN P6 # <<>> /\ Head(P6) = "xray" /\ Tail(P6) = P7 ELSE P6 = P7
  /\ P5 # <<>> /\ Head(P5) = "shadow" /\ Tail(P5) = P6
  /\ IF build.count THEN P4 # <<>> /\ Head(P4) = "count" /\ Tail(P4) = P5 ELSE P4 = P5
  /\ IF build.ibt THEN P3 # <<>> /\ Head(P3) = "ibt" /\ Tail(P3) = P4 ELSE P3 = P4
  /\ P2 # <<>> /\ Head(P2) = "regalloc" /\ Tail(P2) = P3
  /\ IF build.mpx THEN P1 # <<>> /\ Head(P1) = "mpx" /\ Tail(P1) = P2 ELSE P1 = P2
<1>0. "mpx" \in Names /\ "regalloc" \in Names /\ "ibt" \in Names /\ "count" \in Names /\ "shadow" \in Names
      /\ "xray" \in Names /\ "thunks" \in Names
  BY DEF Names
<1>8. P8 = <<>> /\ P8 \in Seq(Names)
  BY DEF P8
<1>7. P7 \in Seq(Names) /\ P7 # <<>> /\ Head(P7) = "thunks" /\ Tail(P7) = P8
  <2>1. P7 = <<"thunks">>
    BY DEF P7
  <2>2. P7 = <<"thunks">> \o P8
    BY <2>1, <1>8
  <2> QED  BY <1>0, <1>8, <2>2, ConsIs
<1>6. P6 \in Seq(Names) /\ IF build.xray THEN P6 # <<>> /\ Head(P6) = "xray" /\ Tail(P6) = P7 ELSE P6 = P7
  <2>1. CASE build.xray
    <3>1. P6 = <<"xray">> \o P7
      BY <2>1 DEF P6, Opt
    <3> QED  BY <1>0, <1>7, <2>1, <3>1, ConsIs
  <2>2. CASE ~build.xray
    <3>1. P6 = P7
      BY <2>2 DEF P6, Opt
    <3> QED  BY <1>7, <2>2, <3>1
  <2> QED  BY <2>1, <2>2
<1>5. P5 \in Seq(Names) /\ P5 # <<>> /\ Head(P5) = "shadow" /\ Tail(P5) = P6
  <2>1. P5 = <<"shadow">> \o P6
    BY DEF P5
  <2> QED  BY <1>0, <1>6, <2>1, ConsIs
<1>4. P4 \in Seq(Names) /\ IF build.count THEN P4 # <<>> /\ Head(P4) = "count" /\ Tail(P4) = P5 ELSE P4 = P5
  <2>1. CASE build.count
    <3>1. P4 = <<"count">> \o P5
      BY <2>1 DEF P4, Opt
    <3> QED  BY <1>0, <1>5, <2>1, <3>1, ConsIs
  <2>2. CASE ~build.count
    <3>1. P4 = P5
      BY <2>2 DEF P4, Opt
    <3> QED  BY <1>5, <2>2, <3>1
  <2> QED  BY <2>1, <2>2
<1>3. P3 \in Seq(Names) /\ IF build.ibt THEN P3 # <<>> /\ Head(P3) = "ibt" /\ Tail(P3) = P4 ELSE P3 = P4
  <2>1. CASE build.ibt
    <3>1. P3 = <<"ibt">> \o P4
      BY <2>1 DEF P3, Opt
    <3> QED  BY <1>0, <1>4, <2>1, <3>1, ConsIs
  <2>2. CASE ~build.ibt
    <3>1. P3 = P4
      BY <2>2 DEF P3, Opt
    <3> QED  BY <1>4, <2>2, <3>1
  <2> QED  BY <2>1, <2>2
<1>2. P2 \in Seq(Names) /\ P2 # <<>> /\ Head(P2) = "regalloc" /\ Tail(P2) = P3
  <2>1. P2 = <<"regalloc">> \o P3
    BY DEF P2
  <2> QED  BY <1>0, <1>3, <2>1, ConsIs
<1>1. P1 \in Seq(Names) /\ IF build.mpx THEN P1 # <<>> /\ Head(P1) = "mpx" /\ Tail(P1) = P2 ELSE P1 = P2
  <2>1. CASE build.mpx
    <3>1. P1 = <<"mpx">> \o P2
      BY <2>1 DEF P1, Opt
    <3> QED  BY <1>0, <1>2, <2>1, <3>1, ConsIs
  <2>2. CASE ~build.mpx
    <3>1. P1 = P2
      BY <2>2 DEF P1, Opt
    <3> QED  BY <1>2, <2>2, <3>1
  <2> QED  BY <2>1, <2>2
<1> QED  BY <1>1, <1>2, <1>3, <1>4, <1>5, <1>6, <1>7, <1>8

\* The rests are those of the pipeline the model schedules.
LEMMA PipelineIs == Pipeline = P1
<1>0. PICK M : M = IF build.mpx THEN <<"mpx">> ELSE <<>>
  OBVIOUS
<1>1. PICK I : I = IF build.ibt THEN <<"ibt">> ELSE <<>>
  OBVIOUS
<1>2. PICK C : C = IF build.count THEN <<"count">> ELSE <<>>
  OBVIOUS
<1>3. PICK X : X = IF build.xray THEN <<"xray">> ELSE <<>>
  OBVIOUS
<1>4. PICK R : R = <<"regalloc">>
  OBVIOUS
<1>5. PICK S : S = <<"shadow">>
  OBVIOUS
<1>6. PICK T : T = <<"thunks">>
  OBVIOUS
<1>7. M \in Seq(Names)
  <2>1. CASE build.mpx
    <3>1. M = <<"mpx">>
      BY <1>0, <2>1
    <3> QED  BY <3>1 DEF Names
  <2>2. CASE ~build.mpx
    <3>1. M = <<>>
      BY <1>0, <2>2
    <3> QED  BY <3>1
  <2> QED  BY <2>1, <2>2
<1>8. I \in Seq(Names)
  <2>1. CASE build.ibt
    <3>1. I = <<"ibt">>
      BY <1>1, <2>1
    <3> QED  BY <3>1 DEF Names
  <2>2. CASE ~build.ibt
    <3>1. I = <<>>
      BY <1>1, <2>2
    <3> QED  BY <3>1
  <2> QED  BY <2>1, <2>2
<1>9. C \in Seq(Names)
  <2>1. CASE build.count
    <3>1. C = <<"count">>
      BY <1>2, <2>1
    <3> QED  BY <3>1 DEF Names
  <2>2. CASE ~build.count
    <3>1. C = <<>>
      BY <1>2, <2>2
    <3> QED  BY <3>1
  <2> QED  BY <2>1, <2>2
<1>10. X \in Seq(Names)
  <2>1. CASE build.xray
    <3>1. X = <<"xray">>
      BY <1>3, <2>1
    <3> QED  BY <3>1 DEF Names
  <2>2. CASE ~build.xray
    <3>1. X = <<>>
      BY <1>3, <2>2
    <3> QED  BY <3>1
  <2> QED  BY <2>1, <2>2
<1>11. R \in Seq(Names) /\ S \in Seq(Names) /\ T \in Seq(Names)
  BY <1>4, <1>5, <1>6 DEF Names
<1>12. Pipeline = (((((M \o R) \o I) \o C) \o S) \o X) \o T
  BY <1>0, <1>1, <1>2, <1>3, <1>4, <1>5, <1>6 DEF Pipeline
<1>13. \A a \in Seq(Names), b \in Seq(Names) : a \o b \in Seq(Names)
  BY ConcatProperties
<1>a. \A a \in Seq(Names), b \in Seq(Names), c \in Seq(Names) : (a \o b) \o c = a \o (b \o c)
  BY ConcatAssociative
<1>14. \A s \in Seq(Names) : <<>> \o s = s
  BY ConcatEmptySeq
<1>15. P7 = T
  BY <1>6 DEF P7
<1>16. P6 = X \o T
  BY <1>3, <1>11, <1>14, <1>15 DEF P6, Opt
<1>17. P5 = S \o (X \o T) /\ P5 \in Seq(Names) /\ X \o T \in Seq(Names)
  BY <1>5, <1>10, <1>11, <1>13, <1>16 DEF P5
<1>18. P4 = C \o P5 /\ P4 \in Seq(Names)
  <2>1. P4 = C \o P5
    BY <1>2, <1>14, <1>17 DEF P4, Opt
  <2> QED  BY <1>9, <1>13, <1>17, <2>1
<1>19. P3 = I \o P4 /\ P3 \in Seq(Names)
  <2>1. P3 = I \o P4
    BY <1>1, <1>14, <1>18 DEF P3, Opt
  <2> QED  BY <1>8, <1>13, <1>18, <2>1
<1>20. P2 = R \o P3 /\ P2 \in Seq(Names)
  BY <1>4, <1>11, <1>13, <1>19 DEF P2
<1>21. P1 = M \o P2
  BY <1>0, <1>14, <1>20 DEF P1, Opt
<1>22. M \o R \in Seq(Names) /\ (M \o R) \o I \in Seq(Names) /\ ((M \o R) \o I) \o C \in Seq(Names)
       /\ (((M \o R) \o I) \o C) \o S \in Seq(Names)
  BY <1>7, <1>8, <1>9, <1>11, <1>13
<1>23. Pipeline = ((((M \o R) \o I) \o C) \o S) \o (X \o T)
  <2>1. PICK z : z = ((((M \o R) \o I) \o C) \o S)
    OBVIOUS
  <2>2. z \in Seq(Names) /\ X \in Seq(Names) /\ T \in Seq(Names)
    BY <1>10, <1>11, <1>22, <2>1
  <2>3. (z \o X) \o T = z \o (X \o T)
    BY <1>a, <2>2
  <2>4. Pipeline = (z \o X) \o T
    BY <1>12, <2>1
  <2> QED  BY <2>1, <2>3, <2>4
<1>24. Pipeline = (((M \o R) \o I) \o C) \o P5
  <2>1. PICK z : z = (((M \o R) \o I) \o C)
    OBVIOUS
  <2>2. z \in Seq(Names) /\ S \in Seq(Names) /\ (X \o T) \in Seq(Names)
    BY <1>11, <1>17, <1>22, <2>1
  <2>3. (z \o S) \o (X \o T) = z \o (S \o (X \o T))
    BY <1>a, <2>2
  <2>4. Pipeline = (z \o S) \o (X \o T)
    BY <1>23, <2>1
  <2> QED  BY <1>17, <2>1, <2>3, <2>4
<1>25. Pipeline = ((M \o R) \o I) \o P4
  <2>1. PICK z : z = ((M \o R) \o I)
    OBVIOUS
  <2>2. z \in Seq(Names) /\ C \in Seq(Names) /\ P5 \in Seq(Names)
    BY <1>9, <1>17, <1>22, <2>1
  <2>3. (z \o C) \o P5 = z \o (C \o P5)
    BY <1>a, <2>2
  <2>4. Pipeline = (z \o C) \o P5
    BY <1>24, <2>1
  <2> QED  BY <1>18, <2>1, <2>3, <2>4
<1>26. Pipeline = (M \o R) \o P3
  <2>1. PICK z : z = (M \o R)
    OBVIOUS
  <2>2. z \in Seq(Names) /\ I \in Seq(Names) /\ P4 \in Seq(Names)
    BY <1>8, <1>18, <1>22, <2>1
  <2>3. (z \o I) \o P4 = z \o (I \o P4)
    BY <1>a, <2>2
  <2>4. Pipeline = (z \o I) \o P4
    BY <1>25, <2>1
  <2> QED  BY <1>19, <2>1, <2>3, <2>4
<1>27. Pipeline = M \o P2
  <2>1. PICK z : z = M
    OBVIOUS
  <2>2. z \in Seq(Names) /\ R \in Seq(Names) /\ P3 \in Seq(Names)
    BY <1>7, <1>11, <1>19, <2>1
  <2>3. (z \o R) \o P3 = z \o (R \o P3)
    BY <1>a, <2>2
  <2>4. Pipeline = (z \o R) \o P3
    BY <1>26, <2>1
  <2> QED  BY <1>20, <2>1, <2>3, <2>4
<1> QED  BY <1>21, <1>27

\* What the code is like when a pass is next.
LEMMA PassNext ==
  ASSUME NEW f, NEW c, NEW ps, Stage(f, c, ps), ps # <<>>
  PROVE  \/ Head(ps) = "mpx" /\ Raw(c) /\ Tail(ps) = P2
         \/ Head(ps) = "regalloc" /\ Raw(c) /\ Tail(ps) = P3
         \/ Head(ps) = "ibt" /\ Raw(c) /\ Tail(ps) = P4 /\ build.ibt
         \/ Head(ps) = "count" /\ Raw(c) /\ Tail(ps) = P5 /\ build.count
         \/ Head(ps) = "shadow" /\ Raw(c) /\ (build.count \/ Landing(c)) /\ Tail(ps) = P6
         \/ Head(ps) = "xray" /\ Compiled(f, c) /\ Tail(ps) = P7 /\ build.xray
         \/ Head(ps) = "thunks" /\ Compiled(f, c) /\ Tail(ps) = P8
<1>1. ~build.ibt => Landing(c)
  BY DEF Landing
<1>8. ps # P8
  BY Heads
<1>7. ASSUME ps = P7, Compiled(f, c)
      PROVE  Head(ps) = "thunks" /\ Tail(ps) = P8
  BY <1>7, Heads
<1>6. ASSUME ps = P6, Compiled(f, c)
      PROVE  \/ Head(ps) = "xray" /\ Tail(ps) = P7 /\ build.xray
             \/ Head(ps) = "thunks" /\ Tail(ps) = P8
  <2>1. CASE build.xray
    BY <1>6, <2>1, Heads
  <2>2. CASE ~build.xray
    BY <1>6, <1>7, <2>2, Heads
  <2> QED  BY <2>1, <2>2
<1>5. ASSUME ps = P5
      PROVE  Head(ps) = "shadow" /\ Tail(ps) = P6
  BY <1>5, Heads
<1>4. ASSUME ps = P4
      PROVE  \/ Head(ps) = "count" /\ Tail(ps) = P5 /\ build.count
             \/ Head(ps) = "shadow" /\ Tail(ps) = P6
  <2>1. CASE build.count
    BY <1>4, <2>1, Heads
  <2>2. CASE ~build.count
    BY <1>4, <1>5, <2>2, Heads
  <2> QED  BY <2>1, <2>2
<1>3. ASSUME ps = P3
      PROVE  \/ Head(ps) = "ibt" /\ Tail(ps) = P4 /\ build.ibt
             \/ Head(ps) = "count" /\ Tail(ps) = P5 /\ build.count /\ Landing(c)
             \/ Head(ps) = "shadow" /\ Tail(ps) = P6 /\ Landing(c)
  <2>1. CASE build.ibt
    BY <1>3, <2>1, Heads
  <2>2. CASE ~build.ibt
    BY <1>1, <1>3, <1>4, <2>2, Heads
  <2> QED  BY <2>1, <2>2
<1>2. ASSUME ps = P2
      PROVE  Head(ps) = "regalloc" /\ Tail(ps) = P3
  BY <1>2, Heads
<1>9. ASSUME ps = P1
      PROVE  \/ Head(ps) = "mpx" /\ Tail(ps) = P2
             \/ Head(ps) = "regalloc" /\ Tail(ps) = P3
  <2>1. CASE build.mpx
    BY <1>9, <2>1, Heads
  <2>2. CASE ~build.mpx
    BY <1>2, <1>9, <2>2, Heads
  <2> QED  BY <2>1, <2>2
<1>10. \/ ps \in {P1, P2, P3} /\ Raw(c)
       \/ ps = P4 /\ Raw(c) /\ Landing(c)
       \/ ps = P5 /\ Raw(c) /\ (build.count \/ Landing(c))
       \/ ps \in {P6, P7, P8} /\ Compiled(f, c)
  BY DEF Stage
<1>11. CASE ps \in {P1, P2, P3} /\ Raw(c)
  BY <1>2, <1>3, <1>9, <1>11
<1>12. CASE ps = P4 /\ Raw(c) /\ Landing(c)
  BY <1>4, <1>12
<1>13. CASE ps = P5 /\ Raw(c) /\ (build.count \/ Landing(c))
  BY <1>5, <1>13
<1>14. CASE ps \in {P6, P7, P8} /\ Compiled(f, c)
  BY <1>6, <1>7, <1>8, <1>14
<1> QED  BY <1>10, <1>11, <1>12, <1>13, <1>14

\* Behind the last pass a function is compiled.
LEMMA AllPassed ==
  ASSUME NEW f, NEW c, Stage(f, c, <<>>)
  PROVE  Compiled(f, c)
<1>1. <<>> \notin {P1, P2, P3, P4, P5}
  BY Heads, Zenon
<1> QED  BY <1>1 DEF Stage

\* The judgements on code depend on the build and on who is a constructor.
LEMMA JudgedSame ==
  ASSUME build' = build, \A f : IsGlobalConstructor(f)' <=> IsGlobalConstructor(f), NEW f, NEW c
  PROVE  /\ Compiled(f, c)' <=> Compiled(f, c)
         /\ Guarded(f, c)' <=> Guarded(f, c)
         /\ Raw(c)' <=> Raw(c)
         /\ Landing(c)' <=> Landing(c)
         /\ NeverPops(f)' <=> NeverPops(f)
         /\ Displaced(f, c)' <=> Displaced(f, c)
<1>1. NeverPops(f)' <=> NeverPops(f)
  BY DEF NeverPops
<1>2. Displaced(f, c)' <=> Displaced(f, c)
  BY DEF Displaced
<1>3. Counted(c)' <=> Counted(c)
  BY DEF Counted
<1>4. \A x : Shut(f, x)' <=> Shut(f, x)
  BY <1>1 DEF Shut
<1>5. Guarded(f, c)' <=> Guarded(f, c)
  BY <1>4 DEF Guarded
<1>6. Compiled(f, c)' <=> Compiled(f, c)
  BY <1>2, <1>3, <1>5 DEF Compiled
<1>7. Raw(c)' <=> Raw(c)
  BY <1>3 DEF Raw
<1>8. Landing(c)' <=> Landing(c)
  BY DEF Landing
<1> QED  BY <1>1, <1>2, <1>5, <1>6, <1>7, <1>8

\* The rests depend on the build alone.
LEMMA PlacesSame ==
  ASSUME build' = build
  PROVE  P1' = P1 /\ P2' = P2 /\ P3' = P3 /\ P4' = P4 /\ P5' = P5 /\ P6' = P6 /\ P7' = P7 /\ P8' = P8
BY DEF P1, P2, P3, P4, P5, P6, P7, P8

\* And so does the stage of a function.
LEMMA StageSame ==
  ASSUME build' = build, \A f : IsGlobalConstructor(f)' <=> IsGlobalConstructor(f), NEW f, NEW c, NEW ps
  PROVE  Stage(f, c, ps)' <=> Stage(f, c, ps)
BY JudgedSame, PlacesSame DEF Stage

\* What a pass makes of the current function.
Rewritten(name, f, c) ==
  CASE name = "mpx"      -> MPX(c)
    [] name = "regalloc" -> RegAlloc(c)
    [] name = "ibt"      -> IndirectBranchTracking(c)
    [] name = "count"    -> FunctionCount(c)
    [] name = "shadow"   -> Shadow(f, c)
    [] name = "xray"     -> XRay(c)
    [] name = "thunks"   -> RetpolineThunks(f, c)

\* Every pass leaves what the next one, or the program, expects.
LEMMA PassKeeps ==
  ASSUME NEW f, NEW c, NEW ps, Stage(f, c, ps), ps # <<>>, NEW e, e = Rewritten(Head(ps), f, c)
  PROVE  Stage(f, e, Tail(ps))
<1>1. CASE Head(ps) = "mpx" /\ Raw(c) /\ Tail(ps) = P2
  <2>1. e = MPX(c)
    BY <1>1 DEF Rewritten
  <2> QED  BY <1>1, <2>1, RawMPX DEF Stage
<1>2. CASE Head(ps) = "regalloc" /\ Raw(c) /\ Tail(ps) = P3
  <2>1. e = RegAlloc(c)
    BY <1>2 DEF Rewritten
  <2> QED  BY <1>2, <2>1, RawRegAlloc DEF Stage
<1>3. CASE Head(ps) = "ibt" /\ Raw(c) /\ Tail(ps) = P4 /\ build.ibt
  <2>1. e = AtEntry(c, "endbr")
    BY <1>3 DEF Rewritten, IndirectBranchTracking
  <2>2. Raw(e) /\ e[1].ins[1] = "endbr"
    BY <1>3, <2>1, RawAtEntry
  <2> QED  BY <1>3, <2>2 DEF Stage, Landing
<1>4. CASE Head(ps) = "count" /\ Raw(c) /\ Tail(ps) = P5 /\ build.count
  <2>1. e = AtEntry(c, "count")
    BY <1>4 DEF Rewritten, FunctionCount
  <2>2. Raw(e)
    BY <1>4, <2>1, RawAtEntry
  <2> QED  BY <1>4, <2>2 DEF Stage
<1>5. CASE Head(ps) = "shadow" /\ Raw(c) /\ (build.count \/ Landing(c)) /\ Tail(ps) = P6
  <2>1. e = Shadow(f, c)
    BY <1>5 DEF Rewritten
  <2>2. Compiled(f, e)
    BY <1>5, <2>1, ShadowCompiles
  <2> QED  BY <1>5, <2>2 DEF Stage
<1>6. CASE Head(ps) = "xray" /\ Compiled(f, c) /\ Tail(ps) = P7 /\ build.xray
  <2>1. e = XRay(c)
    BY <1>6 DEF Rewritten
  <2>2. Compiled(f, e)
    BY <1>6, <2>1, XRayCompiles
  <2> QED  BY <1>6, <2>2 DEF Stage
<1>7. CASE Head(ps) = "thunks" /\ Compiled(f, c) /\ Tail(ps) = P8
  <2>1. e = RetpolineThunks(f, c)
    BY <1>7 DEF Rewritten
  <2>2. Compiled(f, e)
    BY <1>7, <2>1, ThunksCompile
  <2> QED  BY <1>7, <2>2 DEF Stage
<1> QED  BY <1>1, <1>2, <1>3, <1>4, <1>5, <1>6, <1>7, PassNext

\* What instruction selection hands over.
LEMMA BodyRaw ==
  ASSUME NEW f \in Fns \cup {Thunk}
  PROVE  Raw(BodyOf(f))
<1>0. Program \subseteq All /\ Program \cap (Pops \cup {"prolog"}) = {} /\ "count" \notin Program /\ "check" \notin Program
  BY DEF All, Program, Pops
<1>1. CASE f = Thunk
  <2>1. PICK s : s = <<"ret">>
    OBVIOUS
  <2>2. s \in Seq(All) /\ Len(s) = 1 /\ s[1] = "ret" /\ \A k \in 1 .. Len(s) : s[k] = "ret"
    BY <2>1 DEF All, Program
  <2>3. PICK x : x = [ins |-> s, to |-> 0]
    OBVIOUS
  <2>4. x \in Blocks /\ x.ins = s /\ Back(x) = "ret"
    BY <2>2, <2>3 DEF Blocks, Back
  <2>5. PICK e : e = BodyOf(f)
    OBVIOUS
  <2>6. e = <<x>>
    BY <1>1, <2>1, <2>3, <2>5 DEF BodyOf
  <2>7. e \in Seq(Blocks) /\ Len(e) = 1 /\ e[1] = x /\ \A b \in 1 .. Len(e) : b = 1
    BY <2>4, <2>6
  <2>8. Solid(x, 1)
    <3>1. Len(x.ins) = 1 /\ \A k \in 1 .. Len(x.ins) : x.ins[k] = "ret"
      BY <2>2, <2>4
    <3>2. \A k \in 1 .. Len(x.ins) - 1 : FALSE
      BY <3>1
    <3> QED  BY <3>1, <3>2 DEF Solid, Jumps
  <2>9. Sturdy(e)
    BY <2>4, <2>7, <2>8 DEF Sturdy, Returns
  <2>10. Aims(e)
    BY <2>2, <2>4, <2>7 DEF Aims, Aimed
  <2>11. \A T : "ret" \notin T => Without(e, T)
    BY <2>2, <2>4, <2>7 DEF Without
  <2>12. "ret" \notin Pops \cup {"prolog"} /\ "ret" \notin {"count"}
    BY DEF Pops
  <2> QED  BY <2>5, <2>9, <2>10, <2>11, <2>12 DEF Raw, Clean, Counted
<1>2. CASE f \in Fns
  <2>1. PICK e : e = BodyOf(f)
    OBVIOUS
  <2>2. WellFormed(e)
    BY <1>2, <2>1, FunctionsAssumption DEF BodyOf
  <2>3. /\ e \in Seq([ins : Seq(Program), to : Nat]) /\ e # <<>> /\ DOMAIN e = 1 .. Len(e)
        /\ Back(e[Len(e)]) \in {"jmp", "ret", "retn", "ehret", "tail"}
    BY <2>2 DEF WellFormed
  <2>4. ASSUME NEW b \in 1 .. Len(e)
        PROVE  /\ e[b] \in Blocks /\ e[b].ins \in Seq(Program) /\ e[b].ins # <<>> /\ Len(e[b].ins) \in Nat /\ Len(e[b].ins) >= 1
               /\ \A k \in 1 .. Len(e[b].ins) : e[b].ins[k] \in Program
               /\ \A k \in 1 .. Len(e[b].ins) - 1 : e[b].ins[k] \in Returns => e[b].ins[k] = "cctail" /\ Back(e[b]) = "jmp"
               /\ \A k \in 1 .. Len(e[b].ins) :
                    /\ e[b].ins[k] \in {"jcc", "jmp"} => e[b].to \in 2 .. Len(e)
                    /\ e[b].ins[k] = "aim" => /\ Back(e[b]) = "ehret"
                                              /\ \A j \in 1 .. Len(e[b].ins) : e[b].ins[j] \notin {"jcc", "jmp"}
    <3>0. PICK R : R = [ins : Seq(Program), to : Nat]
      OBVIOUS
    <3>a. e \in Seq(R) /\ b \in DOMAIN e
      BY <2>3, <3>0
    <3>b. e[b] \in R
      BY <3>a
    <3>1. e[b] \in [ins : Seq(Program), to : Nat] /\ b \in DOMAIN e
      BY <3>0, <3>a, <3>b
    <3>2. e[b].ins \in Seq(Program) /\ e[b].to \in Nat /\ e[b] = [ins |-> e[b].ins, to |-> e[b].to]
      BY <3>1
    <3>3. e[b].ins \in Seq(All)
      BY <1>0, <3>2
    <3>4. e[b] \in Blocks
      BY <3>2, <3>3 DEF Blocks
    <3>5. DOMAIN e[b].ins = 1 .. Len(e[b].ins) /\ Len(e[b].ins) \in Nat /\ e[b].ins # <<>>
      BY <2>2, <3>1, <3>2 DEF WellFormed
    <3>6. Len(e[b].ins) >= 1 /\ \A k \in 1 .. Len(e[b].ins) : e[b].ins[k] \in Program
      BY <3>2, <3>5
    <3>7. \A k \in 1 .. Len(e[b].ins) - 1 : e[b].ins[k] \in Returns => e[b].ins[k] = "cctail" /\ Back(e[b]) = "jmp"
      BY <2>2, <3>1 DEF WellFormed
    <3>8. \A k \in 1 .. Len(e[b].ins) :
                    /\ e[b].ins[k] \in {"jcc", "jmp"} => e[b].to \in 2 .. Len(e)
                    /\ e[b].ins[k] = "aim" => /\ Back(e[b]) = "ehret"
                                              /\ \A j \in 1 .. Len(e[b].ins) : e[b].ins[j] \notin {"jcc", "jmp"}
      BY <2>2, <3>1, <3>5 DEF WellFormed
    <3> QED  BY <3>2, <3>4, <3>5, <3>6, <3>7, <3>8
  <2>5. ASSUME NEW b \in 1 .. Len(e) PROVE Solid(e[b], Len(e)) /\ Aimed(e[b])
    <3>1. \A k \in 1 .. Len(e[b].ins) : e[b].ins[k] # "check"
      BY <1>0, <2>4
    <3>2. Solid(e[b], Len(e))
      BY <2>4, <3>1 DEF Solid, Jumps
    <3>3. Aimed(e[b])
      BY <2>4 DEF Aimed, Jumps
    <3> QED  BY <3>2, <3>3
  <2>6. e \in Seq(Blocks) /\ Len(e) >= 1
    <3>0. PICK R : R = [ins : Seq(Program), to : Nat]
      OBVIOUS
    <3>1. e \in Seq(R) /\ Len(e) \in Nat
      BY <2>3, <3>0
    <3>2. e \in [1 .. Len(e) -> R]
      BY <3>1
    <3>3. e \in [1 .. Len(e) -> Blocks]
      BY <2>4, <3>2
    <3>4. e \in Seq(Blocks)
      BY <3>1, <3>3
    <3>5. Len(e) # 0
      BY <2>3, <3>1
    <3> QED  BY <3>1, <3>4, <3>5
  <2>7. Sturdy(e) /\ Aims(e)
    BY <2>3, <2>5, <2>6 DEF Sturdy, Aims, Returns
  <2>8. \A T : T \cap Program = {} => Without(e, T)
    BY <2>4 DEF Without
  <2>9. Clean(e) /\ Counted(e)
    <3>1. (Pops \cup {"prolog"}) \cap Program = {} /\ {"count"} \cap Program = {}
      BY <1>0
    <3> QED  BY <2>8, <3>1 DEF Clean, Counted
  <2> QED  BY <2>1, <2>7, <2>9 DEF Raw
<1> QED  BY <1>1, <1>2

\* The one pass that a step runs.
APass(name) == Pass(name, Rewritten(name, current.fn, Now)) /\ todo' \subseteq todo \cup {Thunk} /\ todo \subseteq todo'

\* The seven actions are steps of one kind.
LEMMA SomePass ==
  ASSUME RunMPX \/ RunRegAlloc \/ RunIBT \/ RunCount \/ RunShadow \/ RunXRay \/ RunThunks
  PROVE  \E name \in Names : APass(name)
<1>1. CASE RunMPX
  <2>1. APass("mpx") /\ "mpx" \in Names
    BY <1>1 DEF RunMPX, APass, Rewritten, Names
  <2> QED  BY <2>1
<1>2. CASE RunRegAlloc
  <2>1. APass("regalloc") /\ "regalloc" \in Names
    BY <1>2 DEF RunRegAlloc, APass, Rewritten, Names
  <2> QED  BY <2>1
<1>3. CASE RunIBT
  <2>1. APass("ibt") /\ "ibt" \in Names
    BY <1>3 DEF RunIBT, APass, Rewritten, Names
  <2> QED  BY <2>1
<1>4. CASE RunCount
  <2>1. APass("count") /\ "count" \in Names
    BY <1>4 DEF RunCount, APass, Rewritten, Names
  <2> QED  BY <2>1
<1>5. CASE RunShadow
  <2>1. APass("shadow") /\ "shadow" \in Names
    BY <1>5 DEF RunShadow, APass, Rewritten, Names, Shadow
  <2> QED  BY <2>1
<1>6. CASE RunXRay
  <2>1. APass("xray") /\ "xray" \in Names
    BY <1>6 DEF RunXRay, APass, Rewritten, Names
  <2> QED  BY <2>1
<1>7. CASE RunThunks
  <2>1. APass("thunks") /\ "thunks" \in Names
    BY <1>7 DEF RunThunks, APass, Rewritten, Names
  <2> QED  BY <2>1
<1> QED  BY <1>1, <1>2, <1>3, <1>4, <1>5, <1>6, <1>7

\* Adding the thunk to a module makes nothing a constructor and leaves constructors
\* what they are.
LEMMA CtorsSame ==
  ASSUME Module' \subseteq Module \cup {Thunk}, Module \subseteq Module'
  PROVE  \A f : IsGlobalConstructor(f)' <=> IsGlobalConstructor(f)
<1>1. Thunk \notin Ctors
  BY FunctionsAssumption
<1>2. Ctors \cap Module' = Ctors \cap Module
  BY <1>1
<1> QED  BY <1>2 DEF IsGlobalConstructor

\* Nothing is compiled at first.
LEMMA InitCode ==
  ASSUME Init
  PROVE  CodeInv
<1>1. DOMAIN code = {}
  BY DEF Init
<1> QED  BY <1>1 DEF Init, CodeInv

\* A pass moves the current function one stage on, and disturbs no other: not even
\* X86RetpolineThunks, which adds a function to the module.
LEMMA PassCode ==
  ASSUME CodeInv, NEW name \in Names, APass(name)
  PROVE  CodeInv'
<1>1. /\ current # None /\ current.passes # <<>> /\ Head(current.passes) = name
      /\ code' = [code EXCEPT ![current.fn] = Rewritten(name, current.fn, Now)]
      /\ current' = [current EXCEPT !.passes = Tail(@)]
      /\ build' = build /\ run' = run
      /\ todo' \subseteq todo \cup {Thunk} /\ todo \subseteq todo'
  BY DEF APass, Pass
<1>2. PICK f : f = current.fn
  OBVIOUS
<1>3. PICK ps : ps = current.passes
  OBVIOUS
<1>4. /\ current = [fn |-> f, passes |-> ps] /\ f \in DOMAIN code /\ Stage(f, code[f], ps)
      /\ build \in Builds /\ todo \subseteq Fns \cup {Thunk} /\ DOMAIN code \subseteq Fns \cup {Thunk} /\ run = None
      /\ \A g \in DOMAIN code : g # f => Compiled(g, code[g])
  BY <1>1, <1>2, <1>3 DEF CodeInv
<1>5. current' = [fn |-> f, passes |-> Tail(ps)]
  BY <1>1, <1>4
<1>6. current'.fn = f /\ current'.passes = Tail(ps) /\ current' = [fn |-> current'.fn, passes |-> current'.passes]
  BY <1>5
<1>7. PICK c : c = code[f]
  OBVIOUS
<1>8. PICK e : e = Rewritten(name, f, c)
  OBVIOUS
<1>9. code' = [code EXCEPT ![f] = e]
  BY <1>1, <1>2, <1>7, <1>8 DEF Now
<1>10. DOMAIN code' = DOMAIN code /\ code'[f] = e /\ \A g \in DOMAIN code : g # f => code'[g] = code[g]
  BY <1>4, <1>9
<1>11. Stage(f, e, Tail(ps))
  BY <1>1, <1>3, <1>4, <1>7, <1>8, PassKeeps
<1>12. \A g : IsGlobalConstructor(g)' <=> IsGlobalConstructor(g)
  <2>1. Module' \subseteq Module \cup {Thunk} /\ Module \subseteq Module'
    BY <1>1, <1>10 DEF Module
  <2> QED  BY <2>1, CtorsSame
<1>13. Stage(f, e, Tail(ps))'
  BY <1>1, <1>11, <1>12, StageSame
<1>14. ASSUME NEW g \in DOMAIN code, g # f PROVE Compiled(g, code[g])'
  <2>1. PICK d : d = code[g]
    OBVIOUS
  <2>2. Compiled(g, d)
    BY <1>4, <1>14, <2>1
  <2>3. Compiled(g, d)'
    BY <1>1, <1>12, <2>2, JudgedSame
  <2>4. d = code'[g]
    BY <1>10, <1>14, <2>1
  <2> QED  BY <2>3, <2>4
<1>15. (current # None =>
          /\ current = [fn |-> current.fn, passes |-> current.passes]
          /\ current.fn \in DOMAIN code /\ Stage(current.fn, code[current.fn], current.passes))'
  BY <1>4, <1>6, <1>10, <1>13
<1>16. current' # None
  <2>1. "passes" \in DOMAIN current' /\ "passes" \notin DOMAIN None
    BY <1>5 DEF None
  <2> QED  BY <2>1
<1>17. (\A g \in DOMAIN code : current = None \/ g # current.fn => Compiled(g, code[g]))'
  BY <1>6, <1>10, <1>14, <1>16
<1>18. build' \in Builds /\ todo' \subseteq Fns \cup {Thunk} /\ DOMAIN code' \subseteq Fns \cup {Thunk} /\ run' = None
  BY <1>1, <1>4, <1>10
<1> QED  BY <1>15, <1>17, <1>18 DEF CodeInv

\* A selected function is at the head of the pipeline.
LEMMA SelectCode ==
  ASSUME CodeInv, NEW f \in Fns \cup {Thunk}, Select(f)
  PROVE  CodeInv'
<1>1. /\ current = None /\ f \in todo /\ todo' = todo \ {f} /\ code' = Put(code, f, BodyOf(f))
      /\ current' = [fn |-> f, passes |-> Pipeline] /\ build' = build /\ run' = run
  BY DEF Select
<1>2. /\ build \in Builds /\ todo \subseteq Fns \cup {Thunk} /\ DOMAIN code \subseteq Fns \cup {Thunk}
      /\ \A g \in DOMAIN code : Compiled(g, code[g])
      /\ run = None
  BY <1>1 DEF CodeInv
<1>3. PICK e : e = BodyOf(f)
  OBVIOUS
<1>4. DOMAIN code' = DOMAIN code \cup {f} /\ code'[f] = e /\ \A g \in DOMAIN code : g # f => code'[g] = code[g]
  BY <1>1, <1>3 DEF Put
<1>5. Raw(e)
  BY <1>3, BodyRaw
<1>6. PICK ps : ps = Pipeline
  OBVIOUS
<1>7. Stage(f, e, ps)
  BY <1>5, <1>6, PipelineIs DEF Stage
<1>8. \A g : IsGlobalConstructor(g)' <=> IsGlobalConstructor(g)
  <2>1. Module' \subseteq Module \cup {Thunk} /\ Module \subseteq Module'
    BY <1>1, <1>4 DEF Module
  <2> QED  BY <2>1, CtorsSame
<1>9. Stage(f, e, ps)'
  BY <1>1, <1>7, <1>8, StageSame
<1>10. current' = [fn |-> f, passes |-> ps]
  BY <1>1, <1>6
<1>11. current'.fn = f /\ current'.passes = ps /\ current' = [fn |-> current'.fn, passes |-> current'.passes]
  BY <1>10
<1>12. ASSUME NEW g \in DOMAIN code, g # f PROVE Compiled(g, code[g])'
  <2>1. PICK d : d = code[g]
    OBVIOUS
  <2>2. Compiled(g, d)
    BY <1>2, <2>1
  <2>3. Compiled(g, d)'
    BY <1>1, <1>8, <2>2, JudgedSame
  <2>4. d = code'[g]
    BY <1>4, <1>12, <2>1
  <2> QED  BY <2>3, <2>4
<1>13. (current # None =>
          /\ current = [fn |-> current.fn, passes |-> current.passes]
          /\ current.fn \in DOMAIN code /\ Stage(current.fn, code[current.fn], current.passes))'
  BY <1>4, <1>9, <1>11
<1>14. current' # None
  <2>1. "passes" \in DOMAIN current' /\ "passes" \notin DOMAIN None
    BY <1>10 DEF None
  <2> QED  BY <2>1
<1>15. (\A g \in DOMAIN code : current = None \/ g # current.fn => Compiled(g, code[g]))'
  BY <1>4, <1>11, <1>12, <1>14
<1>16. build' \in Builds /\ todo' \subseteq Fns \cup {Thunk} /\ DOMAIN code' \subseteq Fns \cup {Thunk} /\ run' = None
  BY <1>1, <1>2, <1>4
<1> QED  BY <1>13, <1>15, <1>16 DEF CodeInv

\* An emitted function is compiled.
LEMMA EmitCode ==
  ASSUME CodeInv, Emit
  PROVE  CodeInv'
<1>1. current # None /\ current.passes = <<>> /\ current' = None /\ UNCHANGED <<build, todo, code, run>>
  BY DEF Emit
<1>2. PICK f : f = current.fn
  OBVIOUS
<1>3. PICK c : c = code[f]
  OBVIOUS
<1>4. Compiled(f, c)
  <2>1. Stage(f, c, <<>>)
    BY <1>1, <1>2, <1>3 DEF CodeInv
  <2> QED  BY <2>1, AllPassed
<1>5. \A g : IsGlobalConstructor(g)' <=> IsGlobalConstructor(g)
  BY <1>1 DEF IsGlobalConstructor, Module
<1>6. ASSUME NEW g \in DOMAIN code PROVE Compiled(g, code[g])'
  <2>1. PICK d : d = code[g]
    OBVIOUS
  <2>2. Compiled(g, d)
    BY <1>1, <1>2, <1>3, <1>4, <2>1 DEF CodeInv
  <2>3. Compiled(g, d)'
    BY <1>1, <1>5, <2>2, JudgedSame
  <2> QED  BY <1>1, <2>1, <2>3
<1> QED  BY <1>1, <1>6 DEF CodeInv

\* The steps of an activation change nothing but the activation.
LEMMA QuietCode ==
  ASSUME CodeInv, UNCHANGED <<build, todo, current, code>>, current = None /\ todo = {}
  PROVE  CodeInv'
<1>1. \A g : IsGlobalConstructor(g)' <=> IsGlobalConstructor(g)
  BY DEF IsGlobalConstructor, Module
<1>2. ASSUME NEW g \in DOMAIN code PROVE Compiled(g, code[g])'
  <2>1. PICK d : d = code[g]
    OBVIOUS
  <2>2. Compiled(g, d)
    BY <2>1 DEF CodeInv
  <2>3. Compiled(g, d)'
    BY <1>1, <2>2, JudgedSame
  <2> QED  BY <2>1, <2>3
<1> QED  BY <1>2 DEF CodeInv

-----------------------------------------------------------------------------
(* The activation: where it is and where it goes. *)

\* Where an activation is, and the instruction it is at.
At(r, c) == c[r.block].ins[r.k]
Same(q, r) ==
  /\ r.fn = q.fn /\ r.ra = q.ra /\ r.by = q.by /\ r.ahead = q.ahead /\ r.flags = q.flags /\ r.want = q.want
  /\ r.past = q.past /\ r.left = q.left /\ r.odd = q.odd
Onto(q, c) == IF q.k < Len(c[q.block].ins) THEN [q EXCEPT !.k = @ + 1] ELSE [q EXCEPT !.block = @ + 1, !.k = 1]
Along(q, c) == [q EXCEPT !.block = c[q.block].to, !.k = 1]
Moved(q, r, c) ==
  \/ r.block = q.block /\ r.k = q.k + 1 /\ q.k < Len(c[q.block].ins)
  \/ r.block \in 2 .. Len(c) /\ r.k = 1 /\ (q.k = Len(c[q.block].ins) \/ At(q, c) \in Jumps)

\* What a place in sturdy code is.
LEMMA PlaceFacts ==
  ASSUME NEW c, Sturdy(c), NEW q \in Runs, Places(q, c)
  PROVE  /\ q.block \in 1 .. Len(c) /\ Len(c) \in Nat /\ Len(c) >= 1 /\ c[q.block] \in Blocks /\ Solid(c[q.block], Len(c))
         /\ Len(c[q.block].ins) \in Nat /\ q.k \in 1 .. Len(c[q.block].ins) /\ Len(c[q.block].ins) >= 1
         /\ At(q, c) \in All /\ (q.k = Len(c[q.block].ins) => At(q, c) = Back(c[q.block]))
<1>1. q.block \in 1 .. Len(c) /\ c \in Seq(Blocks) /\ Len(c) \in Nat /\ Len(c) >= 1 /\ q.k \in 1 .. Len(c[q.block].ins)
  BY DEF Places, Sturdy
<1>2. c[q.block] \in Blocks /\ Solid(c[q.block], Len(c))
  BY <1>1 DEF Sturdy
<1>3. c[q.block].ins \in Seq(All)
  BY <1>2 DEF Blocks
<1>4. At(q, c) \in All /\ Len(c[q.block].ins) \in Nat
  BY <1>1, <1>3 DEF At
<1>5. q.k = Len(c[q.block].ins) => At(q, c) = Back(c[q.block])
  BY DEF At, Back
<1>6. Len(c[q.block].ins) >= 1
  BY <1>2 DEF Solid
<1> QED  BY <1>1, <1>2, <1>4, <1>5, <1>6

\* A record of an activation with another place.
Replace(q, b, k) == [q EXCEPT !.block = b, !.k = k]

\* Nothing else changes with it.
LEMMA Replaced ==
  ASSUME NEW q \in Runs, NEW b \in Nat, NEW k \in Nat, NEW r, r = Replace(q, b, k)
  PROVE  r \in Runs /\ Same(q, r) /\ r.block = b /\ r.k = k
<1>1. PICK s : s = [q EXCEPT !.block = b]
  OBVIOUS
<1>2. s \in Runs /\ Same(q, s) /\ s.block = b
  BY <1>1 DEF Runs, Same
<1>3. r = [s EXCEPT !.k = k]
  BY <1>1 DEF Replace
<1>4. r \in Runs /\ Same(s, r) /\ r.block = b /\ r.k = k
  BY <1>2, <1>3 DEF Runs, Same
<1> QED  BY <1>2, <1>4 DEF Same

\* The last block does not run out.
LEMMA Advance ==
  ASSUME NEW c, Sturdy(c), NEW q \in Runs, Places(q, c), At(q, c) \notin {"jmp"} \cup (Returns \ {"cctail"}),
         NEW r, r = Onto(q, c)
  PROVE  r \in Runs /\ Same(q, r) /\ Places(r, c) /\ Moved(q, r, c)
<1>1. /\ q.block \in 1 .. Len(c) /\ Len(c) \in Nat /\ Len(c) >= 1
      /\ Len(c[q.block].ins) \in Nat /\ q.k \in 1 .. Len(c[q.block].ins)
      /\ (q.k = Len(c[q.block].ins) => At(q, c) = Back(c[q.block]))
  BY PlaceFacts
<1>2. CASE q.k < Len(c[q.block].ins)
  <2>1. r = [q EXCEPT !.k = @ + 1]
    BY <1>2 DEF Onto
  <2>2. q.k + 1 \in Nat /\ q.k + 1 \in 1 .. Len(c[q.block].ins)
    BY <1>1, <1>2
  <2>3. r \in Runs /\ Same(q, r) /\ r.block = q.block /\ r.k = q.k + 1
    BY <2>1, <2>2 DEF Runs, Same
  <2> QED  BY <1>1, <1>2, <2>2, <2>3 DEF Places, Moved
<1>3. CASE ~(q.k < Len(c[q.block].ins))
  <2>1. r = [q EXCEPT !.block = @ + 1, !.k = 1]
    BY <1>3 DEF Onto
  <2>2. q.k = Len(c[q.block].ins)
    BY <1>1, <1>3
  <2>3. q.block # Len(c)
    BY <1>1, <2>2 DEF Sturdy
  <2>4. q.block + 1 \in Nat /\ q.block + 1 \in 2 .. Len(c) /\ q.block + 1 \in 1 .. Len(c)
    BY <1>1, <2>3
  <2>5. r \in Runs /\ Same(q, r) /\ r.block = q.block + 1 /\ r.k = 1
    <3>1. PICK b : b = q.block + 1
      OBVIOUS
    <3>2. b \in Nat /\ 1 \in Nat /\ r = Replace(q, b, 1)
      BY <2>1, <2>4, <3>1 DEF Replace
    <3>3. r \in Runs /\ Same(q, r) /\ r.block = b /\ r.k = 1
      BY <3>2, Replaced
    <3> QED  BY <3>1, <3>3
  <2>6. 1 \in 1 .. Len(c[r.block].ins)
    BY <2>4, <2>5 DEF Sturdy, Solid
  <2> QED  BY <2>2, <2>4, <2>5, <2>6 DEF Places, Moved
<1> QED  BY <1>2, <1>3

\* A branch leads to the begin of a block that is not the first.
LEMMA Jumped ==
  ASSUME NEW c, Sturdy(c), NEW q \in Runs, Places(q, c), At(q, c) \in Jumps, NEW r, r = Along(q, c)
  PROVE  r \in Runs /\ Same(q, r) /\ Places(r, c) /\ Moved(q, r, c)
<1>1. q.block \in 1 .. Len(c) /\ Len(c) \in Nat /\ Solid(c[q.block], Len(c)) /\ q.k \in 1 .. Len(c[q.block].ins)
  BY PlaceFacts
<1>2. c[q.block].to \in 2 .. Len(c)
  BY <1>1 DEF Solid, At
<1>3. PICK t : t = c[q.block].to
  OBVIOUS
<1>4. t \in Nat /\ t \in 1 .. Len(c) /\ t \in 2 .. Len(c)
  BY <1>1, <1>2, <1>3
<1>5. 1 \in Nat /\ r = Replace(q, t, 1)
  BY <1>3 DEF Along, Replace
<1>6. r \in Runs /\ Same(q, r) /\ r.block = t /\ r.k = 1
  <2>1. t \in Nat /\ 1 \in Nat /\ r = Replace(q, t, 1)
    BY <1>4, <1>5
  <2> QED  BY <2>1, Replaced
<1>7. 1 \in 1 .. Len(c[t].ins)
  BY <1>4 DEF Sturdy, Solid
<1> QED  BY <1>4, <1>6, <1>7 DEF Places, Moved

\* There is one prolog to have passed.
LEMMA BegunIs ==
  ASSUME NEW c, Sturdy(c), NEW p, Opened(c, p), NEW r
  PROVE  Begun(r, c) <=> (r.block = 1 => r.k > p)
<1>1. 1 \in 1 .. Len(c) /\ p \in 1 .. Len(c[1].ins)
  BY DEF Sturdy, Opened
<1>2. ASSUME NEW q \in 1 .. Len(c[1].ins), Opened(c, q) PROVE q = p
  BY <1>1, <1>2 DEF Opened
<1>3. ASSUME Begun(r, c), r.block = 1 PROVE r.k > p
  BY <1>2, <1>3 DEF Begun
<1>4. ASSUME r.block = 1 => r.k > p PROVE Begun(r, c)
  BY <1>1, <1>4 DEF Begun
<1> QED  BY <1>3, <1>4

\* Anything but what stands in front of the prolog is behind it.
LEMMA Behind ==
  ASSUME NEW f, NEW c, Sturdy(c), Guarded(f, c), NEW q \in Runs, Places(q, c), At(q, c) \notin {"load", "enter", "prolog"}
  PROVE  Begun(q, c)
<1>1. PICK p \in 1 .. Len(c[1].ins) : Opened(c, p)
  BY DEF Guarded
<1>2. p \in Nat /\ \A k \in 1 .. p - 1 : c[1].ins[k] \in {"load", "enter"}
  BY <1>1 DEF Opened
<1>3. ASSUME q.block = 1 PROVE q.k > p
  <2>1. q.k \in Nat /\ q.k >= 1
    BY PlaceFacts
  <2>2. q.k \notin 1 .. p - 1
    BY <1>2, <1>3 DEF At
  <2>3. q.k # p
    BY <1>1, <1>3 DEF At, Opened
  <2> QED  BY <1>2, <2>1, <2>2, <2>3
<1> QED  BY <1>1, <1>3, BegunIs

\* A step from anything but a prolog or an epilog passes neither.
LEMMA Elsewhere ==
  ASSUME NEW f, NEW c, Sturdy(c), Guarded(f, c), NEW q \in Runs, q.fn = f, Places(q, c),
         At(q, c) \notin Pops \cup {"prolog"}, NEW r \in Runs, r.fn = f, Places(r, c), Moved(q, r, c)
  PROVE  (Begun(r, c) <=> Begun(q, c)) /\ ~JustPopped(r, c)
<1>1. PICK p \in 1 .. Len(c[1].ins) : Opened(c, p)
  BY DEF Guarded
<1>2. /\ q.block \in 1 .. Len(c) /\ Len(c) \in Nat /\ Len(c) >= 1 /\ Len(c[q.block].ins) \in Nat
      /\ q.k \in 1 .. Len(c[q.block].ins)
  BY PlaceFacts
<1>3. /\ r.block \in 1 .. Len(c) /\ Len(c[r.block].ins) \in Nat /\ r.k \in 1 .. Len(c[r.block].ins)
  BY PlaceFacts
<1>4. p \in Nat /\ p \in 1 .. Len(c[1].ins) /\ c[1].ins[p] = "prolog"
  BY <1>1 DEF Opened
<1>5. /\ Begun(r, c) <=> (r.block = 1 => r.k > p)
      /\ Begun(q, c) <=> (q.block = 1 => q.k > p)
  BY <1>1, BegunIs
<1>6. Shut(f, c[r.block]) /\ (Back(c[r.block]) \in Returns /\ ~NeverPops(f) => Len(c[r.block].ins) >= 2)
  BY <1>3 DEF Guarded, Shut
<1>7. CASE r.block = q.block /\ r.k = q.k + 1 /\ q.k < Len(c[q.block].ins)
  <2>1. q.block = 1 => q.k # p
    BY <1>4 DEF At
  <2>2. Begun(r, c) <=> Begun(q, c)
    BY <1>2, <1>4, <1>5, <1>7, <2>1
  <2>3. ASSUME JustPopped(r, c) PROVE FALSE
    <3>1. r.k = Len(c[q.block].ins) /\ c[q.block].ins[Len(c[q.block].ins) - 1] \in Pops
      BY <1>6, <1>7, <2>3 DEF JustPopped, Shut
    <3>2. q.k = Len(c[q.block].ins) - 1
      BY <1>2, <1>7, <3>1
    <3> QED  BY <3>1, <3>2 DEF At
  <2> QED  BY <2>2, <2>3
<1>8. CASE r.block \in 2 .. Len(c) /\ r.k = 1 /\ (q.k = Len(c[q.block].ins) \/ At(q, c) \in Jumps)
  <2>1. Begun(r, c)
    BY <1>5, <1>8
  <2>2. Begun(q, c)
    <3>1. CASE At(q, c) \in Jumps
      <4>1. At(q, c) \notin {"load", "enter", "prolog"}
        BY <3>1 DEF Jumps
      <4> QED  BY <4>1, Behind
    <3>2. CASE q.k = Len(c[q.block].ins)
      <4>1. ASSUME q.block = 1 PROVE q.k > p
        <5>1. q.k # p
          BY <1>4, <4>1 DEF At
        <5> QED  BY <1>2, <1>4, <3>2, <4>1, <5>1
      <4> QED  BY <1>5, <4>1
    <3> QED  BY <1>8, <3>1, <3>2
  <2>3. ASSUME JustPopped(r, c) PROVE FALSE
    <3>1. Len(c[r.block].ins) >= 2 /\ r.k = Len(c[r.block].ins)
      BY <1>6, <2>3 DEF JustPopped
    <3> QED  BY <1>8, <3>1
  <2> QED  BY <2>1, <2>2, <2>3
<1> QED  BY <1>7, <1>8 DEF Moved

\* An activation at an instruction that is no return has not just popped.
LEMMA NotAtReturn ==
  ASSUME NEW c, Sturdy(c), NEW q \in Runs, Places(q, c), At(q, c) \notin Returns
  PROVE  ~JustPopped(q, c)
BY PlaceFacts DEF JustPopped

\* Aiming ends with the block.
LEMMA AimStays ==
  ASSUME NEW c, Sturdy(c), NEW q \in Runs, Places(q, c), At(q, c) # "ehret", NEW r \in Runs, Moved(q, r, c),
         Back(c[q.block]) = "ehret", \A j \in 1 .. Len(c[q.block].ins) : c[q.block].ins[j] \notin Jumps
  PROVE  r.block = q.block
BY PlaceFacts DEF Moved, At

\* On from any instruction that does not end, push or pop.
LEMMA GoesOn ==
  ASSUME NEW f, NEW c, Compiled(f, c), NEW q \in Runs, q.fn = f, Going(q, c),
         At(q, c) \notin Pops \cup Returns \cup {"prolog"},
         NEW r \in Runs, Same(q, r), Places(r, c), Moved(q, r, c)
  PROVE  Going(r, c)
<1>1. Sturdy(c) /\ (Guarded(f, c) \/ Spared(c)) /\ Places(q, c) /\ r.fn = f
  BY DEF Compiled, Going, Same
<1>2. Slot(r, c)
  <2>1. r.ra = "bad" => r.by # "none" /\ (Spared(c) => r.by # "store")
    BY DEF Going, Slot, Same
  <2>2. ASSUME r.ra = "aimed", ~Without(c, Pops)
        PROVE  Back(c[r.block]) = "ehret" /\ \A j \in 1 .. Len(c[r.block].ins) : c[r.block].ins[j] \notin Jumps
    <3>1. Back(c[q.block]) = "ehret" /\ \A j \in 1 .. Len(c[q.block].ins) : c[q.block].ins[j] \notin Jumps
      BY <2>2 DEF Going, Slot, Same
    <3>2. At(q, c) # "ehret"
      BY DEF Returns
    <3>3. r.block = q.block
      BY <1>1, <3>1, <3>2, AimStays
    <3> QED  BY <3>1, <3>3
  <2> QED  BY <2>1, <2>2 DEF Slot
<1>3. Entries(r, c)
  <2>1. CASE Guarded(f, c)
    <3>1. (Begun(r, c) <=> Begun(q, c)) /\ ~JustPopped(r, c)
      BY <1>1, <2>1, Elsewhere
    <3>2. ~JustPopped(q, c)
      BY <1>1, NotAtReturn
    <3> QED  BY <1>1, <2>1, <3>1, <3>2 DEF Going, Entries, Same
  <2>2. CASE ~Guarded(f, c)
    BY <1>1, <2>2 DEF Going, Entries, Same
  <2> QED  BY <2>1, <2>2
<1>4. Odds(r, c)
  BY DEF Going, Odds, Same
<1> QED  BY <1>2, <1>3, <1>4 DEF Going

-----------------------------------------------------------------------------
(* The activation: how it goes on and how it ends. *)

\* How an activation may end.
Stops == {"trap", "refused", "fault"}
Inst(c) == "prolog" \in ToSet(c[1].ins)
Missed(r, c) == r.left = "cctail" /\ Back(c[r.block]) # "cctail"
HandsOn(r, c) == r.ra = "bad" => (~Inst(c) /\ r.by \in {"mixed", "call"}) \/ NeverPops(r.fn) \/ Missed(r, c)
Halts(r, c) ==
  r.ra # "bad" => \/ r.left = "trap" /\ (Back(c[r.block]) = "ehret" \/ (r.ahead <= 0 /\ r.past))
                  \/ r.left = "fault" /\ build.count /\ (build.scheme \in {"MEM", "CON"} \/ (build.scheme = "SEG" /\ build.mpk))
Balanced(r, c) ==
  build.scheme # "CON" /\ Inst(c) =>
    \/ r.ahead = 0
    \/ r.ahead = 1 /\ (NeverPops(r.fn) \/ Missed(r, c))
    \/ r.ahead < 0 /\ r.past
Shaped(r, c) ==
  /\ "target" \notin r.odd
  /\ "branch" \in r.odd => Inst(c) /\ (r.past \/ (r.left = "cctail" /\ ~Missed(r, c)))
  /\ (r.odd \cap {"args", "sled"} # {}) <=> (r.left = "jmp" /\ Back(c[r.block]) \in {"retn", "sledret"})
  /\ r.left = "jmp" => build.scheme = "REG" /\ Inst(c) /\ ~NeverPops(r.fn) /\ ~IsCall(Back(c[r.block]))
  /\ "entry" \in r.odd => Displaced(r.fn, c)
Ended(r, c) == IF r.left \in Stops THEN Halts(r, c) ELSE HandsOn(r, c) /\ Balanced(r, c) /\ Shaped(r, c)
Fine(r, c) == r \in Runs /\ IF r.left = "no" THEN Going(r, c) ELSE Ended(r, c)
Live(r, c) == Compiled(r.fn, c) /\ r \in Runs /\ r.left = "no" /\ Going(r, c)

\* Guarded code is what the properties call instrumented.
LEMMA InstIs ==
  ASSUME NEW f, NEW c, Compiled(f, c)
  PROVE  (Guarded(f, c) <=> Inst(c)) /\ (Spared(c) <=> ~Inst(c))
<1>1. c[1] \in Blocks /\ 1 \in 1 .. Len(c) /\ (Guarded(f, c) \/ Spared(c))
  BY DEF Compiled, Sturdy
<1>2. DOMAIN c[1].ins = 1 .. Len(c[1].ins)
  BY <1>1 DEF Blocks
<1>3. ASSUME Guarded(f, c) PROVE Inst(c)
  <2>1. PICK p \in 1 .. Len(c[1].ins) : Opened(c, p)
    BY <1>3 DEF Guarded
  <2>2. p \in DOMAIN c[1].ins /\ c[1].ins[p] = "prolog"
    BY <1>2, <2>1 DEF Opened
  <2> QED  BY <2>2 DEF Inst, ToSet
<1>4. ASSUME Spared(c) PROVE ~Inst(c)
  <2>1. \A k \in DOMAIN c[1].ins : c[1].ins[k] # "prolog"
    BY <1>1, <1>2, <1>4 DEF Spared, Clean, Without
  <2> QED  BY <2>1 DEF Inst, ToSet
<1> QED  BY <1>1, <1>3, <1>4

\* What is known of a running activation, in parts.
LEMMA LiveFacts ==
  ASSUME NEW q, NEW c, Live(q, c)
  PROVE  /\ Compiled(q.fn, c) /\ Sturdy(c) /\ (Guarded(q.fn, c) \/ Spared(c)) /\ q \in Runs /\ q.left = "no"
         /\ Places(q, c) /\ Slot(q, c) /\ Entries(q, c) /\ Odds(q, c) /\ Going(q, c)
BY DEF Live, Compiled, Going

\* On past an instruction that changes nothing.
LEMMA OnFine ==
  ASSUME NEW q, NEW c, Live(q, c), At(q, c) \notin Pops \cup Returns \cup {"prolog", "jmp"}, NEW r, r = Onto(q, c)
  PROVE  Fine(r, c) /\ r.fn = q.fn
<1>1. Compiled(q.fn, c) /\ Sturdy(c) /\ q \in Runs /\ Places(q, c) /\ Going(q, c) /\ q.left = "no"
  BY LiveFacts
<1>2. r \in Runs /\ Same(q, r) /\ Places(r, c) /\ Moved(q, r, c)
  BY <1>1, Advance
<1>3. At(q, c) \notin Pops \cup Returns \cup {"prolog"}
  OBVIOUS
<1>4. Going(r, c)
  BY <1>1, <1>2, <1>3, GoesOn
<1> QED  BY <1>1, <1>2, <1>4 DEF Fine, Same

\* Along a branch.
LEMMA JumpFine ==
  ASSUME NEW q, NEW c, Live(q, c), At(q, c) \in Jumps, NEW r, r = Along(q, c)
  PROVE  Fine(r, c) /\ r.fn = q.fn
<1>1. Compiled(q.fn, c) /\ Sturdy(c) /\ q \in Runs /\ Places(q, c) /\ Going(q, c) /\ q.left = "no"
  BY LiveFacts
<1>2. r \in Runs /\ Same(q, r) /\ Places(r, c) /\ Moved(q, r, c)
  BY <1>1, Jumped
<1>3. At(q, c) \notin Pops \cup Returns \cup {"prolog"}
  BY DEF Jumps, Pops, Returns
<1>4. Going(r, c)
  BY <1>1, <1>2, <1>3, GoesOn
<1> QED  BY <1>1, <1>2, <1>4 DEF Fine, Same

\* What a store that hits the slot, and a comparison, make of an activation.
Hit(q, i) == [q EXCEPT !.ra = "bad", !.by = i]
Told(q, b) == [q EXCEPT !.flags = b, !.want = b]

\* What an aimed return makes of an activation.
AimedAt(q) == [q EXCEPT !.ra = IF @ = "bad" THEN @ ELSE "aimed"]

\* An instruction that is no return leaves the place and what was popped alone.
LEMMA SamePlace ==
  ASSUME NEW q, NEW r, r.fn = q.fn, r.block = q.block, r.k = q.k, NEW c
  PROVE  /\ (Begun(r, c) <=> Begun(q, c)) /\ (JustPopped(r, c) <=> JustPopped(q, c))
         /\ (Places(r, c) <=> Places(q, c)) /\ At(r, c) = At(q, c)
BY DEF Begun, JustPopped, Places, At

\* A store that hits the slot is in code with a store to blame.
LEMMA HitLive ==
  ASSUME NEW q, NEW c, Live(q, c), At(q, c) \in {"store", "mixed", "call"},
         NEW r, r = Hit(q, At(q, c))
  PROVE  Live(r, c) /\ At(r, c) = At(q, c) /\ r.fn = q.fn
<1>1. /\ Compiled(q.fn, c) /\ Sturdy(c) /\ q \in Runs /\ q.left = "no"
      /\ Places(q, c) /\ Slot(q, c) /\ Entries(q, c) /\ Odds(q, c)
  BY LiveFacts
<1>2. PICK i : i = At(q, c)
  OBVIOUS
<1>3. PICK s : s = [q EXCEPT !.ra = "bad"]
  OBVIOUS
<1>4. r = [s EXCEPT !.by = i]
  BY <1>2, <1>3 DEF Hit
<1>5. s \in Runs /\ s.fn = q.fn /\ s.block = q.block /\ s.k = q.k /\ s.ra = "bad" /\ s.ahead = q.ahead /\ s.flags = q.flags
      /\ s.want = q.want /\ s.past = q.past /\ s.left = q.left /\ s.odd = q.odd
  BY <1>1, <1>3 DEF Runs
<1>6. r \in Runs /\ r.fn = q.fn /\ r.block = q.block /\ r.k = q.k /\ r.ra = "bad" /\ r.by = i /\ r.ahead = q.ahead
      /\ r.flags = q.flags /\ r.want = q.want /\ r.past = q.past /\ r.left = q.left /\ r.odd = q.odd
  BY <1>2, <1>4, <1>5 DEF Runs
<1>7. /\ (Begun(r, c) <=> Begun(q, c)) /\ (JustPopped(r, c) <=> JustPopped(q, c))
      /\ (Places(r, c) <=> Places(q, c)) /\ At(r, c) = At(q, c)
  <2>1. r.fn = q.fn /\ r.block = q.block /\ r.k = q.k
    BY <1>6
  <2> QED  BY <2>1, SamePlace
<1>8. ~JustPopped(q, c)
  BY <1>1, NotAtReturn DEF Returns
<1>9. Slot(r, c)
  <2>1. ASSUME Spared(c) PROVE i # "store"
    <3>1. q.block \in 1 .. Len(c) /\ q.k \in 1 .. Len(c[q.block].ins)
      BY <1>1, PlaceFacts
    <3> QED  BY <1>2, <2>1, <3>1 DEF Spared, Without, At
  <2> QED  BY <1>2, <1>6, <2>1 DEF Slot
<1>10. Entries(r, c)
  BY <1>1, <1>6, <1>7, <1>8 DEF Entries
<1>11. Odds(r, c)
  BY <1>1, <1>6 DEF Odds
<1> QED  BY <1>1, <1>6, <1>7, <1>9, <1>10, <1>11 DEF Live, Going

\* Code aims only where it ends in EH_RETURN, or where nothing compares.
LEMMA AimLive ==
  ASSUME NEW q, NEW c, Live(q, c), At(q, c) = "aim", NEW r, r = AimedAt(q)
  PROVE  Live(r, c) /\ At(r, c) = At(q, c) /\ r.fn = q.fn
<1>1. /\ Compiled(q.fn, c) /\ Sturdy(c) /\ q \in Runs /\ q.left = "no"
      /\ Places(q, c) /\ Slot(q, c) /\ Entries(q, c) /\ Odds(q, c) /\ (Guarded(q.fn, c) \/ Spared(c))
  BY LiveFacts
<1>2. PICK v : v = IF q.ra = "bad" THEN "bad" ELSE "aimed"
  OBVIOUS
<1>3. r = [q EXCEPT !.ra = v]
  BY <1>2 DEF AimedAt
<1>4. r \in Runs /\ r.fn = q.fn /\ r.block = q.block /\ r.k = q.k /\ r.ra = v /\ r.by = q.by /\ r.ahead = q.ahead
      /\ r.flags = q.flags /\ r.want = q.want /\ r.past = q.past /\ r.left = q.left /\ r.odd = q.odd
  BY <1>1, <1>2, <1>3 DEF Runs
<1>5. /\ (Begun(r, c) <=> Begun(q, c)) /\ (JustPopped(r, c) <=> JustPopped(q, c))
      /\ (Places(r, c) <=> Places(q, c)) /\ At(r, c) = At(q, c)
  <2>1. r.fn = q.fn /\ r.block = q.block /\ r.k = q.k
    BY <1>4
  <2> QED  BY <2>1, SamePlace
<1>6. ~JustPopped(q, c)
  BY <1>1, NotAtReturn DEF Returns
<1>7. Slot(r, c)
  <2>1. q.block \in 1 .. Len(c) /\ q.k \in 1 .. Len(c[q.block].ins)
    BY <1>1, PlaceFacts
  <2>2. CASE Spared(c)
    <3>1. Without(c, Pops)
      BY <2>2 DEF Spared, Clean, Without
    <3> QED  BY <1>1, <1>2, <1>4, <3>1 DEF Slot
  <2>3. CASE Guarded(q.fn, c)
    <3>1. Back(c[q.block]) = "ehret" /\ \A j \in 1 .. Len(c[q.block].ins) : c[q.block].ins[j] \notin Jumps
      BY <2>1, <2>3 DEF Guarded, Aims, Aimed, At
    <3> QED  BY <1>1, <1>2, <1>4, <3>1 DEF Slot
  <2> QED  BY <1>1, <2>2, <2>3
<1>8. Entries(r, c)
  BY <1>1, <1>4, <1>5, <1>6 DEF Entries
<1>9. Odds(r, c)
  BY <1>1, <1>4 DEF Odds
<1> QED  BY <1>1, <1>4, <1>5, <1>7, <1>8, <1>9 DEF Live, Going

\* A comparison mends flags that an epilog overwrote.
LEMMA CompareLive ==
  ASSUME NEW q, NEW c, Live(q, c), At(q, c) = "cmp", NEW b \in BOOLEAN, NEW r, r = Told(q, b)
  PROVE  Live(r, c) /\ At(r, c) = At(q, c) /\ r.fn = q.fn
<1>1. /\ Compiled(q.fn, c) /\ Sturdy(c) /\ q \in Runs /\ q.left = "no"
      /\ Places(q, c) /\ Slot(q, c) /\ Entries(q, c) /\ Odds(q, c)
  BY LiveFacts
<1>2. PICK s : s = [q EXCEPT !.flags = b]
  OBVIOUS
<1>3. r = [s EXCEPT !.want = b]
  BY <1>2 DEF Told
<1>4. s \in Runs /\ s.fn = q.fn /\ s.block = q.block /\ s.k = q.k /\ s.ra = q.ra /\ s.by = q.by /\ s.ahead = q.ahead
      /\ s.flags = b /\ s.past = q.past /\ s.left = q.left /\ s.odd = q.odd
  BY <1>1, <1>2 DEF Runs
<1>5. r \in Runs /\ r.fn = q.fn /\ r.block = q.block /\ r.k = q.k /\ r.ra = q.ra /\ r.by = q.by /\ r.ahead = q.ahead
      /\ r.flags = b /\ r.want = b /\ r.past = q.past /\ r.left = q.left /\ r.odd = q.odd
  BY <1>3, <1>4 DEF Runs
<1>6. /\ (Begun(r, c) <=> Begun(q, c)) /\ (JustPopped(r, c) <=> JustPopped(q, c))
      /\ (Places(r, c) <=> Places(q, c)) /\ At(r, c) = At(q, c)
  <2>1. r.fn = q.fn /\ r.block = q.block /\ r.k = q.k
    BY <1>5
  <2> QED  BY <2>1, SamePlace
<1>7. Slot(r, c) /\ Odds(r, c)
  BY <1>1, <1>5 DEF Slot, Odds
<1>8. Entries(r, c)
  BY <1>1, <1>5, <1>6 DEF Entries
<1> QED  BY <1>1, <1>5, <1>6, <1>7, <1>8 DEF Live, Going

\* A branch that goes astray.
Straying(q) == IF q.flags = q.want THEN {} ELSE {"branch"}
Stray(q) == [q EXCEPT !.odd = @ \cup Straying(q)]

\* Flags that differ from what was computed tell of an epilog that was passed.
LEMMA StrayLive ==
  ASSUME NEW q, NEW c, Live(q, c), At(q, c) \notin Returns \cup {"load", "enter", "prolog"}, NEW r, r = Stray(q)
  PROVE  Live(r, c) /\ At(r, c) = At(q, c) /\ r.fn = q.fn
<1>1. /\ Compiled(q.fn, c) /\ Sturdy(c) /\ q \in Runs /\ q.left = "no"
      /\ Places(q, c) /\ Slot(q, c) /\ Entries(q, c) /\ Odds(q, c) /\ (Guarded(q.fn, c) \/ Spared(c))
  BY LiveFacts
<1>2. PICK o : o = q.odd \cup Straying(q)
  OBVIOUS
<1>3. q.odd \subseteq {"entry", "branch"} /\ o \subseteq {"entry", "branch"} /\ ("entry" \in o => "entry" \in q.odd)
      /\ ("branch" \in o => "branch" \in q.odd \/ q.flags # q.want)
  BY <1>1, <1>2 DEF Odds, Straying
<1>4. r = [q EXCEPT !.odd = o]
  BY <1>2 DEF Stray
<1>5. r \in Runs /\ r.fn = q.fn /\ r.block = q.block /\ r.k = q.k /\ r.ra = q.ra /\ r.by = q.by /\ r.ahead = q.ahead
      /\ r.flags = q.flags /\ r.want = q.want /\ r.past = q.past /\ r.left = q.left /\ r.odd = o
  BY <1>1, <1>3, <1>4 DEF Runs
<1>6. /\ (Begun(r, c) <=> Begun(q, c)) /\ (JustPopped(r, c) <=> JustPopped(q, c))
      /\ (Places(r, c) <=> Places(q, c)) /\ At(r, c) = At(q, c)
  <2>1. r.fn = q.fn /\ r.block = q.block /\ r.k = q.k
    BY <1>5
  <2> QED  BY <2>1, SamePlace
<1>7. ~JustPopped(q, c)
  BY <1>1, NotAtReturn
<1>8. Slot(r, c)
  BY <1>1, <1>5 DEF Slot
<1>9. Entries(r, c)
  BY <1>1, <1>5, <1>6 DEF Entries
<1>10. Odds(r, c)
  <2>1. q.flags # q.want => Guarded(q.fn, c) /\ q.past
    BY <1>1, <1>7 DEF Entries
  <2> QED  BY <1>1, <1>3, <1>5, <2>1 DEF Odds
<1> QED  BY <1>1, <1>5, <1>6, <1>8, <1>9, <1>10 DEF Live, Going

\* The instructions that neither push, pop nor leave.
LEMMA QuietFine ==
  ASSUME NEW q, NEW c, Live(q, c), At(q, c) \in {"push", "gstore", "spill", "load", "endbr", "enter", "count", "check"},
         NEW r, r = Onto(q, c)
  PROVE  Fine(r, c) /\ r.fn = q.fn
<1>1. At(q, c) \notin Pops \cup Returns \cup {"prolog", "jmp"}
  BY DEF Pops, Returns
<1> QED  BY <1>1, OnFine

\* Stores and calls, whether they hit the slot or not.
LEMMA WriteFine ==
  ASSUME NEW q, NEW c, Live(q, c), At(q, c) \in {"store", "mixed", "call"},
         NEW r, r = Onto(q, c) \/ r = Onto(Hit(q, At(q, c)), c)
  PROVE  Fine(r, c) /\ r.fn = q.fn
<1>1. At(q, c) \notin Pops \cup Returns \cup {"prolog", "jmp"}
  BY DEF Pops, Returns
<1>2. CASE r = Onto(q, c)
  BY <1>1, <1>2, OnFine
<1>3. CASE r = Onto(Hit(q, At(q, c)), c)
  <2>1. PICK s : s = Hit(q, At(q, c))
    OBVIOUS
  <2>3. Live(s, c) /\ At(s, c) = At(q, c) /\ s.fn = q.fn
    BY <2>1, HitLive
  <2>4. At(s, c) \notin Pops \cup Returns \cup {"prolog", "jmp"} /\ r = Onto(s, c)
    BY <1>1, <1>3, <2>1, <2>3
  <2> QED  BY <2>3, <2>4, OnFine
<1> QED  BY <1>2, <1>3

\* EH_RETURN and the thunk.
LEMMA AimFine ==
  ASSUME NEW q, NEW c, Live(q, c), At(q, c) = "aim", NEW r, r = Onto(AimedAt(q), c)
  PROVE  Fine(r, c) /\ r.fn = q.fn
<1>1. PICK s : s = AimedAt(q)
  OBVIOUS
<1>3. Live(s, c) /\ At(s, c) = At(q, c) /\ s.fn = q.fn
  BY <1>1, AimLive
<1>4. At(s, c) \notin Pops \cup Returns \cup {"prolog", "jmp"} /\ r = Onto(s, c)
  BY <1>1, <1>3 DEF Pops, Returns
<1> QED  BY <1>3, <1>4, OnFine

\* Comparisons.
LEMMA CompareFine ==
  ASSUME NEW q, NEW c, Live(q, c), At(q, c) = "cmp", NEW b \in BOOLEAN, NEW r, r = Onto(Told(q, b), c)
  PROVE  Fine(r, c) /\ r.fn = q.fn
<1>1. PICK s : s = Told(q, b)
  OBVIOUS
<1>2. Live(s, c) /\ At(s, c) = At(q, c) /\ s.fn = q.fn
  BY <1>1, CompareLive
<1>3. At(s, c) \notin Pops \cup Returns \cup {"prolog", "jmp"} /\ r = Onto(s, c)
  BY <1>1, <1>2 DEF Pops, Returns
<1> QED  BY <1>2, <1>3, OnFine

\* The counter of MEM and CON has no segment.
LEMMA CountFine ==
  ASSUME NEW q, NEW c, Live(q, c), At(q, c) = "count", build \in Builds,
         NEW r, r = IF CounterOpen THEN Onto(q, c) ELSE [q EXCEPT !.left = "fault"]
  PROVE  Fine(r, c) /\ r.fn = q.fn
<1>1. CASE CounterOpen
  <2>1. r = Onto(q, c)
    BY <1>1
  <2> QED  BY <2>1, QuietFine
<1>2. CASE ~CounterOpen
  <2>1. r = [q EXCEPT !.left = "fault"]
    BY <1>2
  <2>2. q \in Runs /\ Sturdy(c) /\ Places(q, c) /\ Compiled(q.fn, c)
    BY LiveFacts
  <2>3. r \in Runs /\ r.left = "fault" /\ r.fn = q.fn
    BY <2>1, <2>2 DEF Runs
  <2>4. build.count
    <3>1. q.block \in 1 .. Len(c) /\ q.k \in 1 .. Len(c[q.block].ins)
      BY <2>2, PlaceFacts
    <3> QED  BY <2>2, <3>1 DEF Compiled, Counted, Without, At
  <2>5. build.scheme \in {"MEM", "CON"} \/ (build.scheme = "SEG" /\ build.mpk)
    BY <1>2, BuildsAssumption DEF CounterOpen
  <2> QED  BY <2>3, <2>4, <2>5 DEF Fine, Ended, Stops, Halts
<1> QED  BY <1>1, <1>2

\* The pass order keeps checks off prologs.
LEMMA CheckFine ==
  ASSUME NEW q, NEW c, Live(q, c), At(q, c) = "check",
         NEW r, r = IF c[q.block].ins[q.k + 1] = "prolog" THEN [q EXCEPT !.left = "refused"] ELSE Onto(q, c)
  PROVE  Fine(r, c) /\ r.fn = q.fn
<1>1. q \in Runs /\ Sturdy(c) /\ Places(q, c)
  BY LiveFacts
<1>2. c[q.block].ins[q.k + 1] # "prolog"
  BY <1>1, PlaceFacts DEF Solid, At
<1>3. r = Onto(q, c)
  BY <1>2
<1> QED  BY <1>3, QuietFine

\* Branches, straying or not.
LEMMA BranchFine ==
  ASSUME NEW q, NEW c, Live(q, c), At(q, c) \in Jumps,
         NEW r, \/ At(q, c) = "jcc" /\ r = IF q.flags THEN Along(Stray(q), c) ELSE Onto(Stray(q), c)
                \/ r = Along(q, c)
  PROVE  Fine(r, c) /\ r.fn = q.fn
<1>1. PICK s : s = Stray(q)
  OBVIOUS
<1>2. Live(s, c) /\ At(s, c) = At(q, c) /\ s.fn = q.fn
  <2>1. At(q, c) \notin Returns \cup {"load", "enter", "prolog"}
    BY DEF Jumps, Returns
  <2> QED  BY <1>1, <2>1, StrayLive
<1>3. CASE r = Along(q, c)
  BY <1>3, JumpFine
<1>4. CASE r = Along(s, c)
  <2>1. At(s, c) \in Jumps
    BY <1>2
  <2> QED  BY <1>2, <1>4, <2>1, JumpFine
<1>5. CASE At(q, c) = "jcc" /\ r = Onto(s, c)
  <2>1. At(s, c) \notin Pops \cup Returns \cup {"prolog", "jmp"}
    BY <1>2, <1>5 DEF Pops, Returns
  <2> QED  BY <1>2, <1>5, <2>1, OnFine
<1> QED  BY <1>1, <1>3, <1>4, <1>5

\* The slot is no worse behind an instruction than in front of it.
LEMMA SlotOn ==
  ASSUME NEW c, Sturdy(c), NEW q \in Runs, Places(q, c), Slot(q, c), At(q, c) # "ehret",
         NEW r \in Runs, r.ra = q.ra, r.by = q.by, Moved(q, r, c)
  PROVE  Slot(r, c)
<1>1. r.ra = "bad" => r.by # "none" /\ (Spared(c) => r.by # "store")
  BY DEF Slot
<1>2. ASSUME r.ra = "aimed", ~Without(c, Pops)
      PROVE  Back(c[r.block]) = "ehret" /\ \A j \in 1 .. Len(c[r.block].ins) : c[r.block].ins[j] \notin Jumps
  <2>1. Back(c[q.block]) = "ehret" /\ \A j \in 1 .. Len(c[q.block].ins) : c[q.block].ins[j] \notin Jumps
    BY <1>2 DEF Slot
  <2>2. r.block = q.block
    BY <2>1, AimStays
  <2> QED  BY <2>1, <2>2
<1> QED  BY <1>1, <1>2 DEF Slot

\* A step past anything but an epilog does not find itself behind one.
LEMMA NotPopped ==
  ASSUME NEW f, NEW c, Sturdy(c), Guarded(f, c), NEW q \in Runs, q.fn = f, Places(q, c), At(q, c) \notin Pops,
         NEW r \in Runs, r.fn = f, Places(r, c), Moved(q, r, c)
  PROVE  ~JustPopped(r, c)
<1> SUFFICES ASSUME JustPopped(r, c) PROVE FALSE
  OBVIOUS
<1>1. r.block \in 1 .. Len(c) /\ Len(c[r.block].ins) \in Nat /\ r.k = Len(c[r.block].ins) /\ Shut(f, c[r.block])
  BY PlaceFacts DEF Guarded, JustPopped
<1>2. Len(c[r.block].ins) >= 2 /\ c[r.block].ins[Len(c[r.block].ins) - 1] \in Pops
  BY <1>1 DEF Shut, JustPopped
<1>3. q.k \in Nat
  BY PlaceFacts
<1>4. r.block = q.block /\ r.k = q.k + 1
  <2>1. PICK n : n = Len(c[r.block].ins)
    OBVIOUS
  <2>2. n \in Nat /\ n >= 2 /\ r.k = n
    BY <1>1, <1>2, <2>1
  <2>3. r.k # 1
    BY <2>2
  <2> QED  BY <2>3 DEF Moved
<1>5. q.k = Len(c[r.block].ins) - 1
  <2>1. PICK n : n = Len(c[r.block].ins)
    OBVIOUS
  <2>2. PICK k : k = q.k
    OBVIOUS
  <2>3. n \in Nat /\ k \in Nat /\ k + 1 = n
    BY <1>1, <1>3, <1>4, <2>1, <2>2
  <2>4. k = n - 1
    BY <2>3
  <2> QED  BY <2>1, <2>2, <2>4
<1> QED  BY <1>2, <1>4, <1>5 DEF At

\* What a prolog makes of an activation.
Pushed(q) == [q EXCEPT !.ahead = @ + 1]

\* The prolog pushes the first and only entry.
LEMMA PrologFine ==
  ASSUME NEW q, NEW c, Live(q, c), At(q, c) = "prolog", NEW r, r = Onto(Pushed(q), c)
  PROVE  Fine(r, c) /\ r.fn = q.fn
<1>1. /\ Compiled(q.fn, c) /\ Sturdy(c) /\ q \in Runs /\ q.left = "no"
      /\ Places(q, c) /\ Slot(q, c) /\ Entries(q, c) /\ Odds(q, c) /\ (Guarded(q.fn, c) \/ Spared(c))
  BY LiveFacts
<1>2. /\ q.block \in 1 .. Len(c) /\ Len(c) \in Nat /\ q.k \in 1 .. Len(c[q.block].ins) /\ Len(c[q.block].ins) \in Nat
  BY <1>1, PlaceFacts
<1>3. Guarded(q.fn, c)
  BY <1>1, <1>2 DEF Spared, Clean, Without, At
<1>4. PICK p \in 1 .. Len(c[1].ins) : Opened(c, p)
  BY <1>3 DEF Guarded
<1>5. q.block = 1 /\ q.k = p
  BY <1>2, <1>4 DEF Opened, At
<1>6. ~Begun(q, c) /\ q.ahead = 0 /\ q.flags = q.want
  <2>1. ~Begun(q, c)
    BY <1>1, <1>2, <1>4, <1>5, BegunIs
  <2> QED  BY <1>1, <1>3, <2>1 DEF Entries
<1>7. PICK a : a = q.ahead + 1
  OBVIOUS
<1>8. a = 1 /\ a \in Int
  BY <1>6, <1>7
<1>9. PICK s : s = [q EXCEPT !.ahead = a]
  OBVIOUS
<1>10. s \in Runs /\ s.fn = q.fn /\ s.block = q.block /\ s.k = q.k /\ s.ra = q.ra /\ s.by = q.by /\ s.ahead = 1
       /\ s.flags = q.flags /\ s.want = q.want /\ s.past = q.past /\ s.left = q.left /\ s.odd = q.odd
  BY <1>1, <1>8, <1>9 DEF Runs
<1>11. r = Onto(s, c) /\ At(s, c) \notin {"jmp"} \cup (Returns \ {"cctail"}) /\ Places(s, c) /\ At(s, c) = "prolog"
  <2>1. s = Pushed(q)
    BY <1>7, <1>9 DEF Pushed
  <2> QED  BY <1>1, <1>10, <2>1 DEF Returns, At, Places
<1>12. r \in Runs /\ Same(s, r) /\ Places(r, c) /\ Moved(s, r, c)
  BY <1>1, <1>10, <1>11, Advance
<1>13. Slot(r, c)
  <2>1. Slot(s, c)
    BY <1>1, <1>10 DEF Slot
  <2>2. At(s, c) # "ehret" /\ r.ra = s.ra /\ r.by = s.by
    BY <1>11, <1>12 DEF Same
  <2> QED  BY <1>1, <1>10, <1>11, <1>12, <2>1, <2>2, SlotOn
<1>14. ~JustPopped(r, c)
  <2>1. At(s, c) \notin Pops /\ r.fn = q.fn
    BY <1>10, <1>11, <1>12 DEF Pops, Same
  <2> QED  BY <1>1, <1>3, <1>10, <1>11, <1>12, <2>1, NotPopped
<1>15. Begun(r, c)
  <2>1. r.block = 1 => r.k > p
    BY <1>2, <1>5, <1>10, <1>12 DEF Moved
  <2> QED  BY <1>1, <1>4, <2>1, BegunIs
<1>16. r.ahead = 1 /\ r.flags = r.want /\ r.fn = q.fn /\ r.left = "no" /\ r.odd = q.odd /\ r.past = q.past
  BY <1>1, <1>6, <1>10, <1>12 DEF Same
<1>17. Entries(r, c)
  BY <1>3, <1>14, <1>15, <1>16 DEF Entries
<1>18. Odds(r, c)
  BY <1>1, <1>16 DEF Odds
<1> QED  BY <1>12, <1>13, <1>16, <1>17, <1>18 DEF Fine, Going

\* An epilog stands in front of the last instruction of a return block of guarded code.
LEMMA EpilogPlace ==
  ASSUME NEW q, NEW c, Live(q, c), At(q, c) \in Pops
  PROVE  /\ Guarded(q.fn, c) /\ Inst(c) /\ ~NeverPops(q.fn) /\ Begun(q, c) /\ ~JustPopped(q, c) /\ ~Without(c, Pops)
         /\ q.block \in 1 .. Len(c) /\ Len(c[q.block].ins) \in Nat /\ q.k \in 1 .. Len(c[q.block].ins)
         /\ q.k + 1 = Len(c[q.block].ins) /\ Back(c[q.block]) \in Returns
         /\ (At(q, c) = "epilogjmp" => build.scheme = "REG" /\ ~IsCall(Back(c[q.block])))
<1>1. /\ Compiled(q.fn, c) /\ Sturdy(c) /\ q \in Runs
      /\ Places(q, c) /\ (Guarded(q.fn, c) \/ Spared(c))
  BY LiveFacts
<1>2. /\ q.block \in 1 .. Len(c) /\ q.k \in 1 .. Len(c[q.block].ins) /\ Len(c[q.block].ins) \in Nat
  BY <1>1, PlaceFacts
<1>3. ~Without(c, Pops) /\ ~Spared(c)
  BY <1>2 DEF Spared, Clean, Without, At
<1>4. Guarded(q.fn, c) /\ Inst(c)
  BY <1>1, <1>3, InstIs
<1>5. /\ q.k = Len(c[q.block].ins) - 1 /\ Back(c[q.block]) \in Returns /\ ~NeverPops(q.fn)
      /\ (At(q, c) = "epilogjmp" => build.scheme = "REG" /\ ~IsCall(Back(c[q.block])))
  BY <1>2, <1>4 DEF Guarded, Shut, At
<1>6. Begun(q, c)
  BY <1>1, <1>4, Behind DEF Pops
<1>7. q.k + 1 = Len(c[q.block].ins)
  BY <1>2, <1>5
<1>8. ~JustPopped(q, c)
  BY <1>2, <1>7 DEF JustPopped
<1> QED  BY <1>2, <1>3, <1>4, <1>5, <1>6, <1>7, <1>8

\* An epilog stops an activation that has done nothing wrong only after EH_RETURN's
\* store and behind an epilog that has popped the entry.
LEMMA TrapFine ==
  ASSUME NEW q, NEW c, Live(q, c), At(q, c) \in Pops, NEW same \in BOOLEAN,
         ~(IF build.scheme = "CON" THEN q.ra = "good" ELSE q.ra = "good" /\ (q.ahead = 1 \/ same)),
         NEW r, r = [q EXCEPT !.left = "trap"]
  PROVE  Fine(r, c) /\ r.fn = q.fn
<1>1. /\ Compiled(q.fn, c) /\ q \in Runs /\ Slot(q, c) /\ Entries(q, c)
  BY LiveFacts
<1>2. Guarded(q.fn, c) /\ Begun(q, c) /\ ~JustPopped(q, c) /\ ~Without(c, Pops)
  BY EpilogPlace
<1>3. r \in Runs /\ r.left = "trap" /\ r.fn = q.fn /\ r.block = q.block /\ r.ra = q.ra /\ r.ahead = q.ahead /\ r.past = q.past
  BY <1>1 DEF Runs
<1>4. CASE q.ra = "bad"
  BY <1>3, <1>4 DEF Fine, Ended, Stops, Halts
<1>5. CASE q.ra = "aimed"
  <2>1. Back(c[q.block]) = "ehret"
    BY <1>1, <1>2, <1>5 DEF Slot
  <2> QED  BY <1>3, <2>1 DEF Fine, Ended, Stops, Halts
<1>6. CASE q.ra = "good"
  <2>1. q.ahead \in Int /\ q.ahead <= 1 /\ q.ahead # 1
    BY <1>1, <1>2, <1>6 DEF Entries, Runs
  <2>2. q.ahead <= 0 /\ q.past
    BY <1>1, <1>2, <2>1 DEF Entries
  <2> QED  BY <1>3, <2>2 DEF Fine, Ended, Stops, Halts
<1>7. q.ra \in {"good", "bad", "aimed"}
  BY <1>1 DEF Runs
<1> QED  BY <1>4, <1>5, <1>6, <1>7

\* What an epilog makes of an activation.
Popped(q, b) == [q EXCEPT !.flags = b, !.ahead = IF build.scheme = "CON" THEN @ ELSE @ - 1]
Agrees(q, same) == IF build.scheme = "CON" THEN q.ra = "good" ELSE q.ra = "good" /\ (q.ahead = 1 \/ same)

\* Nothing else changes with it.
LEMMA PoppedIs ==
  ASSUME NEW q \in Runs, NEW b \in BOOLEAN, NEW s, s = Popped(q, b)
  PROVE  /\ s \in Runs /\ s.fn = q.fn /\ s.block = q.block /\ s.k = q.k /\ s.ra = q.ra /\ s.by = q.by /\ s.flags = b
         /\ s.want = q.want /\ s.past = q.past /\ s.left = q.left /\ s.odd = q.odd
         /\ s.ahead = IF build.scheme = "CON" THEN q.ahead ELSE q.ahead - 1
<1>1. PICK a : a = IF build.scheme = "CON" THEN q.ahead ELSE q.ahead - 1
  OBVIOUS
<1>2. q.ahead \in Int
  BY DEF Runs
<1>3. a \in Int
  BY <1>1, <1>2
<1>4. PICK t : t = [q EXCEPT !.flags = b]
  OBVIOUS
<1>5. /\ t \in Runs /\ t.fn = q.fn /\ t.block = q.block /\ t.k = q.k /\ t.ra = q.ra /\ t.by = q.by /\ t.flags = b
      /\ t.want = q.want /\ t.past = q.past /\ t.left = q.left /\ t.odd = q.odd /\ t.ahead = q.ahead
  BY <1>4 DEF Runs
<1>6. s = [t EXCEPT !.ahead = a]
  BY <1>1, <1>4, <1>5 DEF Popped
<1> QED  BY <1>1, <1>3, <1>5, <1>6 DEF Runs

\* What a passing epilog has seen, and leaves.
LEMMA PoppedEntries ==
  ASSUME NEW q, NEW c, Live(q, c), At(q, c) \in Pops, NEW same \in BOOLEAN, Agrees(q, same), NEW b \in BOOLEAN,
         NEW s, s = Popped(q, b)
  PROVE  /\ s.ra = "good" /\ s.ahead \in Int
         /\ build.scheme = "CON" => s.ahead = 1
         /\ build.scheme # "CON" => s.ahead <= 0
         /\ s.ahead < 0 => s.past
<1>1. q \in Runs /\ Entries(q, c)
  BY LiveFacts
<1>2. Guarded(q.fn, c) /\ ~NeverPops(q.fn) /\ Begun(q, c) /\ ~JustPopped(q, c)
  BY EpilogPlace
<1>3. s \in Runs /\ s.ra = q.ra /\ s.past = q.past /\ s.ahead = IF build.scheme = "CON" THEN q.ahead ELSE q.ahead - 1
  BY <1>1, PoppedIs
<1>4. s.ra = "good"
  BY <1>3 DEF Agrees
<1>5. q.ahead \in Int /\ q.ahead <= 1 /\ (build.scheme = "CON" => q.ahead = 1) /\ (q.ahead <= 0 => q.past)
  BY <1>1, <1>2 DEF Entries, Runs
<1> QED  BY <1>3, <1>4, <1>5

\* On past an epilog that found what it compared.
LEMMA PopFine ==
  ASSUME NEW q, NEW c, Live(q, c), At(q, c) = "epilog", NEW same \in BOOLEAN, Agrees(q, same), NEW b \in BOOLEAN,
         NEW r, r = Onto(Popped(q, b), c)
  PROVE  Fine(r, c) /\ r.fn = q.fn
<1>0. At(q, c) \in Pops
  BY DEF Pops
<1>1. /\ Compiled(q.fn, c) /\ Sturdy(c) /\ q \in Runs /\ q.left = "no"
      /\ Places(q, c) /\ Slot(q, c) /\ Entries(q, c) /\ Odds(q, c)
  BY LiveFacts
<1>2. /\ Guarded(q.fn, c) /\ ~NeverPops(q.fn) /\ Begun(q, c)
      /\ q.block \in 1 .. Len(c) /\ Len(c[q.block].ins) \in Nat /\ q.k \in 1 .. Len(c[q.block].ins)
      /\ q.k + 1 = Len(c[q.block].ins) /\ Back(c[q.block]) \in Returns
  BY <1>0, EpilogPlace
<1>3. PICK s : s = Popped(q, b)
  OBVIOUS
<1>4. /\ s \in Runs /\ s.fn = q.fn /\ s.block = q.block /\ s.k = q.k /\ s.ra = q.ra /\ s.by = q.by /\ s.flags = b
      /\ s.want = q.want /\ s.past = q.past /\ s.left = q.left /\ s.odd = q.odd
  BY <1>1, <1>3, PoppedIs
<1>5. /\ s.ra = "good" /\ s.ahead \in Int /\ (build.scheme = "CON" => s.ahead = 1)
      /\ (build.scheme # "CON" => s.ahead <= 0) /\ (s.ahead < 0 => s.past)
  BY <1>0, <1>3, PoppedEntries
<1>6. r = Onto(s, c) /\ At(s, c) = "epilog" /\ Places(s, c)
  BY <1>1, <1>3, <1>4 DEF At, Places
<1>7. r \in Runs /\ Same(s, r) /\ Places(r, c) /\ Moved(s, r, c)
  <2>1. At(s, c) \notin {"jmp"} \cup (Returns \ {"cctail"})
    BY <1>6 DEF Returns
  <2> QED  BY <1>1, <1>4, <1>6, <2>1, Advance
<1>8. r.block = q.block /\ r.k = Len(c[q.block].ins)
  <2>1. s.k < Len(c[s.block].ins)
    BY <1>2, <1>4
  <2>2. r = [s EXCEPT !.k = @ + 1]
    BY <1>6, <2>1 DEF Onto
  <2>3. r.block = s.block /\ r.k = s.k + 1
    BY <1>4, <2>2 DEF Runs
  <2> QED  BY <1>2, <1>4, <2>3
<1>9. r.fn = q.fn /\ r.ra = "good" /\ r.left = "no" /\ r.odd = q.odd /\ r.past = q.past /\ r.ahead = s.ahead
  BY <1>1, <1>4, <1>5, <1>7 DEF Same
<1>10. JustPopped(r, c)
  BY <1>2, <1>8, <1>9 DEF JustPopped
<1>11. Slot(r, c)
  BY <1>9 DEF Slot
<1>12. Begun(r, c)
  <2>1. At(r, c) \notin {"load", "enter", "prolog"}
    BY <1>2, <1>8 DEF At, Back, Returns
  <2> QED  BY <1>1, <1>2, <1>7, <1>9, <2>1, Behind
<1>13. r.ahead <= 1 /\ (build.scheme = "CON" => r.ahead = 1) /\ (build.scheme # "CON" => r.ahead <= 0) /\ (r.ahead < 0 => r.past)
  BY <1>4, <1>5, <1>9
<1>14. Entries(r, c)
  BY <1>2, <1>9, <1>10, <1>12, <1>13 DEF Entries
<1>15. Odds(r, c)
  BY <1>1, <1>9 DEF Odds
<1> QED  BY <1>7, <1>9, <1>11, <1>14, <1>15 DEF Fine, Going

\* REG's epilog leaves by itself.
Lost(x) ==
  (IF Back(x) = "retn" THEN {"args"} ELSE {}) \cup (IF Back(x) = "sledret" THEN {"sled"} ELSE {})
  \cup (IF IsCall(Back(x)) THEN {"target"} ELSE {})
Jumping(s, o) == [[s EXCEPT !.left = "jmp"] EXCEPT !.odd = @ \cup o]

\* REG's epilog leaves the activation, and what stands behind it unexecuted.
LEMMA JumpOutFine ==
  ASSUME NEW q, NEW c, Live(q, c), At(q, c) = "epilogjmp", NEW same \in BOOLEAN, Agrees(q, same), NEW b \in BOOLEAN,
         NEW r, r = Jumping(Popped(q, b), Lost(c[q.block]))
  PROVE  Fine(r, c) /\ r.fn = q.fn
<1>0. At(q, c) \in Pops
  BY DEF Pops
<1>1. q \in Runs /\ q.left = "no" /\ Odds(q, c)
  BY LiveFacts
<1>2. Guarded(q.fn, c) /\ Inst(c) /\ ~NeverPops(q.fn) /\ build.scheme = "REG" /\ ~IsCall(Back(c[q.block]))
  BY <1>0, EpilogPlace
<1>3. PICK s : s = Popped(q, b)
  OBVIOUS
<1>4. /\ s \in Runs /\ s.fn = q.fn /\ s.block = q.block /\ s.k = q.k /\ s.past = q.past /\ s.odd = q.odd
  BY <1>1, <1>3, PoppedIs
<1>5. /\ s.ra = "good" /\ s.ahead \in Int /\ s.ahead <= 0 /\ (s.ahead < 0 => s.past)
  BY <1>0, <1>2, <1>3, PoppedEntries
<1>6. PICK t : t = [s EXCEPT !.left = "jmp"]
  OBVIOUS
<1>7. t \in Runs /\ t.fn = s.fn /\ t.block = s.block /\ t.ra = s.ra /\ t.ahead = s.ahead /\ t.past = s.past /\ t.odd = s.odd
      /\ t.left = "jmp"
  BY <1>4, <1>6 DEF Runs
<1>8. PICK o : o = q.odd \cup Lost(c[q.block])
  OBVIOUS
<1>9. r = [t EXCEPT !.odd = o]
  BY <1>3, <1>4, <1>6, <1>7, <1>8 DEF Jumping
<1>10. /\ q.odd \subseteq {"entry", "branch"}
       /\ o \subseteq {"entry", "branch", "args", "sled", "target"} /\ "target" \notin o
       /\ ("branch" \in o => "branch" \in q.odd) /\ ("entry" \in o => "entry" \in q.odd)
       /\ (o \cap {"args", "sled"} # {} <=> Back(c[q.block]) \in {"retn", "sledret"})
  BY <1>1, <1>2, <1>8 DEF Odds, Lost
<1>11. r \in Runs /\ r.fn = q.fn /\ r.block = q.block /\ r.ra = "good" /\ r.ahead = s.ahead /\ r.past = q.past /\ r.odd = o
       /\ r.left = "jmp"
  BY <1>4, <1>5, <1>7, <1>9, <1>10 DEF Runs
<1>12. HandsOn(r, c)
  BY <1>11 DEF HandsOn
<1>13. Balanced(r, c)
  <2>1. r.ahead = 0 \/ (r.ahead < 0 /\ r.past)
    BY <1>4, <1>5, <1>11
  <2> QED  BY <2>1 DEF Balanced
<1>14. Shaped(r, c)
  <2>1. "branch" \in q.odd => q.past
    BY <1>1 DEF Odds
  <2>2. "entry" \in q.odd => Displaced(q.fn, c)
    BY <1>1 DEF Odds
  <2>3. "target" \notin r.odd
    BY <1>10, <1>11
  <2>4. "branch" \in r.odd => Inst(c) /\ (r.past \/ (r.left = "cctail" /\ ~Missed(r, c)))
    BY <1>2, <1>10, <1>11, <2>1
  <2>5. (r.odd \cap {"args", "sled"} # {}) <=> (r.left = "jmp" /\ Back(c[r.block]) \in {"retn", "sledret"})
    BY <1>10, <1>11
  <2>6. r.left = "jmp" => build.scheme = "REG" /\ Inst(c) /\ ~NeverPops(r.fn) /\ ~IsCall(Back(c[r.block]))
    BY <1>2, <1>11
  <2>7. "entry" \in r.odd => Displaced(r.fn, c)
    BY <1>10, <1>11, <2>2
  <2> QED  BY <2>3, <2>4, <2>5, <2>6, <2>7, Zenon DEF Shaped
<1> QED  BY <1>11, <1>12, <1>13, <1>14 DEF Fine, Ended, Stops

\* An activation at a return.
LEMMA AtReturn ==
  ASSUME NEW q, NEW c, Live(q, c), At(q, c) \in Returns
  PROVE  /\ q.block \in 1 .. Len(c) /\ Len(c[q.block].ins) \in Nat /\ q.k \in 1 .. Len(c[q.block].ins)
         /\ \/ q.k = Len(c[q.block].ins) /\ Back(c[q.block]) = At(q, c)
            \/ q.k < Len(c[q.block].ins) /\ At(q, c) = "cctail" /\ Back(c[q.block]) = "jmp"
         /\ Guarded(q.fn, c) => Begun(q, c)
         /\ Guarded(q.fn, c) /\ ~NeverPops(q.fn) /\ q.k = Len(c[q.block].ins) => JustPopped(q, c)
         /\ q.k < Len(c[q.block].ins) => ~JustPopped(q, c)
<1>1. Sturdy(c) /\ q \in Runs /\ Places(q, c)
  BY LiveFacts
<1>2. /\ q.block \in 1 .. Len(c) /\ Len(c[q.block].ins) \in Nat /\ q.k \in 1 .. Len(c[q.block].ins)
      /\ Solid(c[q.block], Len(c)) /\ (q.k = Len(c[q.block].ins) => At(q, c) = Back(c[q.block]))
  BY <1>1, PlaceFacts
<1>3. CASE q.k = Len(c[q.block].ins)
  <2>1. Guarded(q.fn, c) => Begun(q, c)
    BY <1>1, Behind DEF Returns
  <2> QED  BY <1>2, <1>3, <2>1 DEF JustPopped
<1>4. CASE q.k # Len(c[q.block].ins)
  <2>1. q.k \in 1 .. Len(c[q.block].ins) - 1 /\ q.k < Len(c[q.block].ins)
    BY <1>2, <1>4
  <2>2. At(q, c) = "cctail" /\ Back(c[q.block]) = "jmp"
    BY <1>2, <2>1 DEF Solid, At
  <2>3. Guarded(q.fn, c) => Begun(q, c)
    BY <1>1, Behind DEF Returns
  <2> QED  BY <1>2, <1>4, <2>1, <2>2, <2>3 DEF JustPopped
<1> QED  BY <1>3, <1>4

\* What it makes of the activation.
Gone(q, i, o) == [[q EXCEPT !.left = i] EXCEPT !.odd = o]

\* A return or a tail call behind an epilog, or in code that needs none.
LEMMA GoneFine ==
  ASSUME NEW q, NEW c, Live(q, c), At(q, c) \in Returns, NEW o, o \subseteq {"entry", "branch"},
         "entry" \in o => "entry" \in q.odd,
         "branch" \in o => "branch" \in q.odd \/ (q.flags # q.want /\ At(q, c) = "cctail"),
         NEW r, r = Gone(q, At(q, c), o)
  PROVE  Fine(r, c) /\ r.fn = q.fn
<1>1. /\ Compiled(q.fn, c) /\ Sturdy(c) /\ q \in Runs /\ q.left = "no"
      /\ Places(q, c) /\ Slot(q, c) /\ Entries(q, c) /\ Odds(q, c) /\ (Guarded(q.fn, c) \/ Spared(c))
  BY LiveFacts
<1>2. /\ q.block \in 1 .. Len(c) /\ Len(c[q.block].ins) \in Nat /\ q.k \in 1 .. Len(c[q.block].ins)
      /\ \/ q.k = Len(c[q.block].ins) /\ Back(c[q.block]) = At(q, c)
         \/ q.k < Len(c[q.block].ins) /\ At(q, c) = "cctail" /\ Back(c[q.block]) = "jmp"
      /\ Guarded(q.fn, c) => Begun(q, c)
      /\ Guarded(q.fn, c) /\ ~NeverPops(q.fn) /\ q.k = Len(c[q.block].ins) => JustPopped(q, c)
      /\ q.k < Len(c[q.block].ins) => ~JustPopped(q, c)
  BY AtReturn
<1>3. PICK i : i = At(q, c)
  OBVIOUS
<1>4. PICK s : s = [q EXCEPT !.left = i]
  OBVIOUS
<1>5. i \in Returns
  BY <1>3
<1>6. /\ s \in Runs /\ s.fn = q.fn /\ s.block = q.block /\ s.ra = q.ra /\ s.by = q.by /\ s.ahead = q.ahead
      /\ s.past = q.past /\ s.left = i
  BY <1>1, <1>4, <1>5 DEF Runs
<1>7. r = [s EXCEPT !.odd = o]
  BY <1>3, <1>4 DEF Gone
<1>8. /\ r \in Runs /\ r.fn = q.fn /\ r.block = q.block /\ r.ra = q.ra /\ r.by = q.by /\ r.ahead = q.ahead
      /\ r.past = q.past /\ r.left = i /\ r.odd = o
  BY <1>6, <1>7 DEF Runs
<1>9. i \notin Stops /\ i # "no" /\ i # "jmp"
  BY <1>5 DEF Returns, Stops
<1>10. q.k < Len(c[q.block].ins) => Missed(r, c)
  BY <1>2, <1>3, <1>8 DEF Missed
<1>11. q.k = Len(c[q.block].ins) => ~Missed(r, c)
  BY <1>2, <1>3, <1>8 DEF Missed
<1>12. (Guarded(q.fn, c) <=> Inst(c)) /\ (Spared(c) <=> ~Inst(c))
  BY <1>1, InstIs
<1>13. HandsOn(r, c)
  <2> SUFFICES ASSUME q.ra = "bad", ~NeverPops(q.fn), ~Missed(r, c) PROVE ~Inst(c) /\ q.by \in {"mixed", "call"}
    BY <1>8 DEF HandsOn
  <2>1. q.k = Len(c[q.block].ins)
    BY <1>2, <1>10
  <2>2. ~Guarded(q.fn, c)
    BY <1>1, <1>2, <2>1 DEF Entries
  <2>3. q.by # "none" /\ q.by # "store" /\ q.by \in {"none", "store", "mixed", "call"}
    BY <1>1, <2>2 DEF Slot, Runs
  <2> QED  BY <1>12, <2>2, <2>3
<1>14. Balanced(r, c)
  <2> SUFFICES ASSUME build.scheme # "CON", Guarded(q.fn, c)
               PROVE  q.ahead = 0 \/ (q.ahead = 1 /\ (NeverPops(q.fn) \/ Missed(r, c))) \/ (q.ahead < 0 /\ q.past)
    BY <1>8, <1>12 DEF Balanced
  <2>1. Begun(q, c) /\ q.ahead \in Int
    BY <1>1, <1>2 DEF Runs
  <2>2. CASE NeverPops(q.fn)
    BY <1>1, <2>1, <2>2 DEF Entries
  <2>3. CASE ~NeverPops(q.fn) /\ q.k = Len(c[q.block].ins)
    <3>1. q.ahead <= 0 /\ (q.ahead < 0 => q.past)
      BY <1>1, <1>2, <2>1, <2>3 DEF Entries
    <3> QED  BY <2>1, <3>1
  <2>4. CASE ~NeverPops(q.fn) /\ q.k < Len(c[q.block].ins)
    <3>1. q.ahead <= 1 /\ (q.ahead < 0 => q.past)
      BY <1>1, <2>1 DEF Entries
    <3> QED  BY <1>10, <2>1, <2>4, <3>1
  <2> QED  BY <1>2, <2>2, <2>3, <2>4
<1>15. Shaped(r, c)
  <2>1. "target" \notin r.odd /\ r.odd \cap {"args", "sled"} = {} /\ r.left # "jmp"
    BY <1>8, <1>9
  <2>2. ASSUME "branch" \in r.odd PROVE Inst(c) /\ (r.past \/ (r.left = "cctail" /\ ~Missed(r, c)))
    <3>1. CASE "branch" \in q.odd
      BY <1>1, <1>8, <1>12, <3>1 DEF Odds
    <3>2. CASE q.flags # q.want /\ At(q, c) = "cctail"
      <4>1. Guarded(q.fn, c) /\ (q.past \/ JustPopped(q, c))
        BY <1>1, <3>2 DEF Entries
      <4>2. q.past \/ q.k = Len(c[q.block].ins)
        BY <1>2, <4>1
      <4> QED  BY <1>3, <1>8, <1>11, <1>12, <3>2, <4>1, <4>2
    <3> QED  BY <1>8, <2>2, <3>1, <3>2
  <2>3. "entry" \in r.odd => Displaced(r.fn, c)
    BY <1>1, <1>8 DEF Odds
  <2> QED  BY <2>1, <2>2, <2>3 DEF Shaped
<1> QED  BY <1>8, <1>9, <1>13, <1>14, <1>15 DEF Fine, Ended

\* A return or an unconditional tail call.
LEMMA LeaveFine ==
  ASSUME NEW q, NEW c, Live(q, c), At(q, c) \in Returns \ {"cctail"}, NEW r, r = [q EXCEPT !.left = At(q, c)]
  PROVE  Fine(r, c) /\ r.fn = q.fn
<1>1. q \in Runs /\ Odds(q, c)
  BY LiveFacts
<1>2. PICK o : o = q.odd
  OBVIOUS
<1>3. o \subseteq {"entry", "branch"} /\ ("entry" \in o => "entry" \in q.odd) /\ ("branch" \in o => "branch" \in q.odd)
  BY <1>1, <1>2 DEF Odds
<1>4. r = Gone(q, At(q, c), o)
  BY <1>1, <1>2 DEF Runs, Gone
<1>5. /\ At(q, c) \in Returns /\ o \subseteq {"entry", "branch"} /\ ("entry" \in o => "entry" \in q.odd)
      /\ ("branch" \in o => "branch" \in q.odd \/ (q.flags # q.want /\ At(q, c) = "cctail")) /\ r = Gone(q, At(q, c), o)
  BY <1>3, <1>4
<1> QED  BY <1>5, GoneFine

\* A conditional tail call that is taken, perhaps on an epilog's flags.
LEMMA LeaveIfFine ==
  ASSUME NEW q, NEW c, Live(q, c), At(q, c) = "cctail",
         NEW o, o = q.odd \cup Straying(q), NEW r, r = Gone(q, At(q, c), o)
  PROVE  Fine(r, c) /\ r.fn = q.fn
<1>1. q \in Runs /\ Odds(q, c)
  BY LiveFacts
<1>3. /\ o \subseteq {"entry", "branch"} /\ ("entry" \in o => "entry" \in q.odd)
      /\ ("branch" \in o => "branch" \in q.odd \/ (q.flags # q.want /\ At(q, c) = "cctail"))
  BY <1>1 DEF Odds, Straying
<1>5. /\ Live(q, c) /\ At(q, c) \in Returns /\ o \subseteq {"entry", "branch"} /\ ("entry" \in o => "entry" \in q.odd)
      /\ ("branch" \in o => "branch" \in q.odd \/ (q.flags # q.want /\ At(q, c) = "cctail")) /\ r = Gone(q, At(q, c), o)
  BY <1>3 DEF Returns
<1> QED  BY <1>5, GoneFine

\* On past a conditional tail call that is not taken.
LEMMA PassedFine ==
  ASSUME NEW q, NEW c, Live(q, c), At(q, c) = "cctail",
         NEW v \in BOOLEAN, v <=> (q.past \/ q.k = Len(c[q.block].ins)),
         NEW r, r = Onto(Stray([q EXCEPT !.past = v]), c)
  PROVE  Fine(r, c) /\ r.fn = q.fn
<1>1. /\ Compiled(q.fn, c) /\ Sturdy(c) /\ q \in Runs /\ q.left = "no"
      /\ Places(q, c) /\ Slot(q, c) /\ Entries(q, c) /\ Odds(q, c) /\ (Guarded(q.fn, c) \/ Spared(c))
  BY LiveFacts
<1>2. /\ q.block \in 1 .. Len(c) /\ Len(c[q.block].ins) \in Nat /\ q.k \in 1 .. Len(c[q.block].ins)
      /\ Guarded(q.fn, c) => Begun(q, c)
      /\ q.k < Len(c[q.block].ins) => ~JustPopped(q, c)
  BY AtReturn DEF Returns
<1>3. PICK u : u = [q EXCEPT !.past = v]
  OBVIOUS
<1>4. v \in BOOLEAN /\ (q.past => v) /\ (JustPopped(q, c) => v)
  BY <1>1, <1>2
<1>5. /\ u \in Runs /\ u.fn = q.fn /\ u.block = q.block /\ u.k = q.k /\ u.ra = q.ra /\ u.by = q.by /\ u.ahead = q.ahead
      /\ u.flags = q.flags /\ u.want = q.want /\ u.past = v /\ u.left = q.left /\ u.odd = q.odd
  BY <1>1, <1>3, <1>4 DEF Runs
<1>6. PICK o : o = u.odd \cup Straying(u)
  OBVIOUS
<1>7. /\ o \subseteq {"entry", "branch"} /\ ("entry" \in o => "entry" \in q.odd)
      /\ ("branch" \in o => "branch" \in q.odd \/ q.flags # q.want)
  BY <1>1, <1>5, <1>6 DEF Odds, Straying
<1>8. PICK s : s = [u EXCEPT !.odd = o]
  OBVIOUS
<1>9. /\ s \in Runs /\ s.fn = q.fn /\ s.block = q.block /\ s.k = q.k /\ s.ra = q.ra /\ s.by = q.by /\ s.ahead = q.ahead
      /\ s.flags = q.flags /\ s.want = q.want /\ s.past = v /\ s.left = q.left /\ s.odd = o
  BY <1>5, <1>7, <1>8 DEF Runs
<1>10. r = Onto(s, c)
  BY <1>3, <1>6, <1>8 DEF Stray
<1>11. At(s, c) = "cctail" /\ Places(s, c)
  BY <1>1, <1>9 DEF At, Places
<1>12. r \in Runs /\ Same(s, r) /\ Places(r, c) /\ Moved(s, r, c)
  <2>1. At(s, c) \notin {"jmp"} \cup (Returns \ {"cctail"})
    BY <1>11
  <2> QED  BY <1>1, <1>9, <1>10, <1>11, <2>1, Advance
<1>13. /\ r.fn = q.fn /\ r.ra = q.ra /\ r.by = q.by /\ r.ahead = q.ahead
       /\ r.flags = q.flags /\ r.want = q.want /\ r.past = v /\ r.left = "no" /\ r.odd = o
  BY <1>1, <1>9, <1>12 DEF Same
<1>14. Slot(r, c)
  <2>1. Slot(s, c) /\ At(s, c) # "ehret" /\ r.ra = s.ra /\ r.by = s.by
    BY <1>1, <1>9, <1>11, <1>13 DEF Slot
  <2> QED  BY <1>1, <1>9, <1>11, <1>12, <2>1, SlotOn
<1>15. Entries(r, c)
  <2>1. CASE Guarded(q.fn, c)
    <3>1. At(s, c) \notin Pops \cup {"prolog"}
      BY <1>11 DEF Pops
    <3>2. (Begun(r, c) <=> Begun(s, c)) /\ ~JustPopped(r, c)
      BY <1>1, <1>9, <1>11, <1>12, <1>13, <2>1, <3>1, Elsewhere
    <3>3. Begun(s, c) <=> Begun(q, c)
      <4>1. s.fn = q.fn /\ s.block = q.block /\ s.k = q.k
        BY <1>9
      <4> QED  BY <4>1, SamePlace
    <3>4. Begun(q, c)
      BY <1>2, <2>1
    <3>5. /\ build.scheme = "CON" \/ NeverPops(q.fn) => q.ahead = 1
          /\ q.ahead <= 1 /\ (q.ahead <= 0 => q.past \/ JustPopped(q, c)) /\ (q.ahead < 0 => q.past)
          /\ q.flags # q.want => q.past \/ JustPopped(q, c)
      BY <1>1, <2>1, <3>4 DEF Entries
    <3> QED  BY <1>4, <1>13, <2>1, <3>2, <3>3, <3>4, <3>5 DEF Entries
  <2>2. CASE ~Guarded(q.fn, c)
    BY <1>1, <1>13, <2>2 DEF Entries
  <2> QED  BY <2>1, <2>2
<1>16. Odds(r, c)
  <2>1. q.flags # q.want => Guarded(q.fn, c) /\ (q.past \/ JustPopped(q, c))
    BY <1>1 DEF Entries
  <2>2. "branch" \in q.odd => Guarded(q.fn, c) /\ q.past
    BY <1>1 DEF Odds
  <2>3. "entry" \in q.odd => Displaced(q.fn, c)
    BY <1>1 DEF Odds
  <2>4. "branch" \in r.odd => Guarded(r.fn, c) /\ r.past
    BY <1>4, <1>7, <1>13, <2>1, <2>2
  <2> QED  BY <1>7, <1>13, <2>3, <2>4 DEF Odds
<1> QED  BY <1>12, <1>13, <1>14, <1>15, <1>16 DEF Fine, Going

-----------------------------------------------------------------------------
(* The steps of the model are those. *)

RunInv == run # None => run.fn \in DOMAIN code /\ Fine(run, code[run.fn])

\* Each step of an activation is one of the above.
Link(q, c, r) == q = run /\ c = code[run.fn] /\ r = run' /\ Live(q, c)

\* The instruction and the block of a step.
LEMMA Here ==
  ASSUME NEW q, NEW c, NEW r, Link(q, c, r)
  PROVE  Ins = At(q, c) /\ Block = c[q.block]
BY DEF Link, Ins, Block, At

\* The same way on.
LEMMA OnwardIs ==
  ASSUME NEW q, NEW c, NEW r, Link(q, c, r), NEW s, s.block = q.block
  PROVE  Onward(s) = Onto(s, c)
BY Here DEF Onward, Onto

\* Instructions that do nothing to what is modelled.
LEMMA QuietLink ==
  ASSUME NEW q, NEW c, NEW r, Link(q, c, r), Quiet
  PROVE  Fine(r, c) /\ r.fn = q.fn
<1>1. At(q, c) \in {"push", "gstore", "spill", "load", "endbr", "enter"} /\ r = Onward(q)
  BY Here DEF Quiet, Step, Link
<1>2. r = Onto(q, c)
  BY <1>1, OnwardIs
<1>3. At(q, c) \in {"push", "gstore", "spill", "load", "endbr", "enter", "count", "check"} /\ Live(q, c)
  BY <1>1 DEF Link
<1> QED  BY <1>2, <1>3, QuietFine

\* The call counter.
LEMMA CountLink ==
  ASSUME NEW q, NEW c, NEW r, Link(q, c, r), Count, build \in Builds
  PROVE  Fine(r, c) /\ r.fn = q.fn
<1>1. At(q, c) = "count" /\ r = IF CounterOpen THEN Onward(q) ELSE [q EXCEPT !.left = "fault"]
  BY Here DEF Count, Step, Link
<1>2. Onward(q) = Onto(q, c)
  BY OnwardIs
<1>3. r = IF CounterOpen THEN Onto(q, c) ELSE [q EXCEPT !.left = "fault"]
  BY <1>1, <1>2
<1>4. Live(q, c)
  BY DEF Link
<1> QED  BY <1>1, <1>3, <1>4, CountFine

\* Stores and calls.
LEMMA WriteLink ==
  ASSUME NEW q, NEW c, NEW r, Link(q, c, r), Write
  PROVE  Fine(r, c) /\ r.fn = q.fn
<1>1. Ins = At(q, c) /\ Live(q, c) /\ q = run /\ r = run' /\ q \in Runs
  BY Here DEF Link, Live
<1>2. At(q, c) \in {"store", "mixed", "call"}
  BY <1>1 DEF Write
<1>3. r = Onward(q) \/ r = Onward(Hit(q, At(q, c)))
  <2>1. PICK hit \in BOOLEAN : r = Onward(IF hit THEN Hit(q, At(q, c)) ELSE q)
    BY <1>1 DEF Write, Step, Hit
  <2>2. CASE hit
    BY <2>1, <2>2
  <2>3. CASE ~hit
    BY <2>1, <2>3
  <2> QED  BY <2>2, <2>3
<1>4. Hit(q, At(q, c)).block = q.block
  BY <1>1 DEF Hit, Runs
<1>5. Onward(q) = Onto(q, c) /\ Onward(Hit(q, At(q, c))) = Onto(Hit(q, At(q, c)), c)
  BY <1>4, OnwardIs
<1>6. r = Onto(q, c) \/ r = Onto(Hit(q, At(q, c)), c)
  BY <1>3, <1>5
<1> QED  BY <1>1, <1>2, <1>6, WriteFine

\* EH_RETURN and the thunk.
LEMMA AimLink ==
  ASSUME NEW q, NEW c, NEW r, Link(q, c, r), Aim
  PROVE  Fine(r, c) /\ r.fn = q.fn
<1>1. Ins = At(q, c) /\ Live(q, c) /\ q = run /\ r = run' /\ q \in Runs
  BY Here DEF Link, Live
<1>2. At(q, c) = "aim" /\ r = Onward(AimedAt(q))
  BY <1>1 DEF Aim, Step, AimedAt
<1>3. AimedAt(q).block = q.block
  BY <1>1 DEF AimedAt, Runs
<1>4. r = Onto(AimedAt(q), c)
  BY <1>2, <1>3, OnwardIs
<1> QED  BY <1>1, <1>2, <1>4, AimFine

\* MPX's checks.
LEMMA CheckLink ==
  ASSUME NEW q, NEW c, NEW r, Link(q, c, r), Check
  PROVE  Fine(r, c) /\ r.fn = q.fn
<1>1. At(q, c) = "check" /\ r = IF c[q.block].ins[q.k + 1] = "prolog" THEN [q EXCEPT !.left = "refused"] ELSE Onward(q)
  BY Here DEF Check, Step, Link
<1>2. Onward(q) = Onto(q, c)
  BY OnwardIs
<1>3. r = IF c[q.block].ins[q.k + 1] = "prolog" THEN [q EXCEPT !.left = "refused"] ELSE Onto(q, c)
  BY <1>1, <1>2
<1>4. Live(q, c)
  BY DEF Link
<1> QED  BY <1>1, <1>3, <1>4, CheckFine

\* Comparisons.
LEMMA CompareLink ==
  ASSUME NEW q, NEW c, NEW r, Link(q, c, r), Compare
  PROVE  Fine(r, c) /\ r.fn = q.fn
<1>1. Ins = At(q, c) /\ Live(q, c) /\ q = run /\ r = run' /\ q \in Runs
  BY Here DEF Link, Live
<1>2. At(q, c) = "cmp"
  BY <1>1 DEF Compare
<1>3. PICK b \in BOOLEAN : r = Onward(Told(q, b))
  BY <1>1 DEF Compare, Step, Told
<1>4. Told(q, b).block = q.block
  BY <1>1 DEF Told, Runs
<1>5. r = Onto(Told(q, b), c)
  BY <1>3, <1>4, OnwardIs
<1> QED  BY <1>1, <1>2, <1>5, CompareFine

\* The prolog.
LEMMA PrologLink ==
  ASSUME NEW q, NEW c, NEW r, Link(q, c, r), Prolog
  PROVE  Fine(r, c) /\ r.fn = q.fn
<1>1. Ins = At(q, c) /\ Live(q, c) /\ q = run /\ r = run' /\ q \in Runs
  BY Here DEF Link, Live
<1>2. At(q, c) = "prolog" /\ r = Onward(Pushed(q))
  BY <1>1 DEF Prolog, Step, Pushed
<1>3. Pushed(q).block = q.block
  BY <1>1 DEF Pushed, Runs
<1>4. r = Onto(Pushed(q), c)
  BY <1>2, <1>3, OnwardIs
<1> QED  BY <1>1, <1>2, <1>4, PrologFine

\* The place and what strays with it commute.
LEMMA StrayPlace ==
  ASSUME NEW q \in Runs, NEW c, NEW b \in Nat, NEW k \in Nat
  PROVE  Odd(Replace(q, b, k), Straying(q)) = Replace(Stray(q), b, k)
<1>1. PICK o : o = q.odd \cup Straying(q)
  OBVIOUS
<1>2. PICK s : s = Replace(q, b, k)
  OBVIOUS
<1>3. s \in Runs /\ Same(q, s) /\ s.block = b /\ s.k = k
  BY <1>2, Replaced
<1>4. PICK t : t = [q EXCEPT !.odd = o]
  OBVIOUS
<1>5. [s EXCEPT !.odd = o] = Replace(t, b, k)
  BY <1>2, <1>4 DEF Replace, Runs
<1>6. s.odd = q.odd /\ t = Stray(q)
  BY <1>1, <1>3, <1>4 DEF Same, Stray
<1>7. Odd(s, Straying(q)) = [s EXCEPT !.odd = o]
  BY <1>1, <1>6 DEF Odd
<1> QED  BY <1>2, <1>5, <1>6, <1>7

\* So do straying and going on.
LEMMA StrayOnto ==
  ASSUME NEW q \in Runs, NEW c, Sturdy(c), Places(q, c)
  PROVE  Odd(Onto(q, c), Straying(q)) = Onto(Stray(q), c)
<1>1. /\ q.block \in 1 .. Len(c) /\ q.k \in 1 .. Len(c[q.block].ins) /\ Len(c[q.block].ins) \in Nat /\ Len(c) \in Nat
  BY PlaceFacts
<1>2. PICK s : s = Stray(q)
  OBVIOUS
<1>3. s \in Runs /\ s.block = q.block /\ s.k = q.k
  <2>1. PICK o : o = q.odd \cup Straying(q)
    OBVIOUS
  <2>2. o \subseteq {"entry", "branch", "args", "sled", "target"}
    BY <2>1 DEF Runs, Straying
  <2>3. s = [q EXCEPT !.odd = o]
    BY <1>2, <2>1 DEF Stray
  <2> QED  BY <2>2, <2>3 DEF Runs
<1>4. CASE q.k < Len(c[q.block].ins)
  <2>1. PICK j : j = q.k + 1
    OBVIOUS
  <2>2. j \in Nat /\ q.block \in Nat
    BY <1>1, <2>1
  <2>3. Onto(q, c) = [q EXCEPT !.k = j] /\ Onto(s, c) = [s EXCEPT !.k = j]
    BY <1>3, <1>4, <2>1 DEF Onto
  <2>4. [q EXCEPT !.k = j] = Replace(q, q.block, j)
    BY <2>2 DEF Replace, Runs
  <2>5. [s EXCEPT !.k = j] = Replace(s, q.block, j)
    BY <1>3, <2>2 DEF Replace, Runs
  <2>6. Odd(Replace(q, q.block, j), Straying(q)) = Replace(Stray(q), q.block, j)
    BY <2>2, StrayPlace
  <2> QED  BY <1>2, <2>3, <2>4, <2>5, <2>6
<1>5. CASE ~(q.k < Len(c[q.block].ins))
  <2>1. PICK i : i = q.block + 1
    OBVIOUS
  <2>2. i \in Nat /\ 1 \in Nat
    BY <1>1, <2>1
  <2>3. Onto(q, c) = Replace(q, i, 1) /\ Onto(s, c) = Replace(s, i, 1)
    BY <1>3, <1>5, <2>1 DEF Onto, Replace
  <2>4. Odd(Replace(q, i, 1), Straying(q)) = Replace(Stray(q), i, 1)
    BY <2>2, StrayPlace
  <2> QED  BY <1>2, <2>3, <2>4
<1> QED  BY <1>4, <1>5

\* Branches.
LEMMA BranchLink ==
  ASSUME NEW q, NEW c, NEW r, Link(q, c, r), Branch
  PROVE  Fine(r, c) /\ r.fn = q.fn
<1>0. Live(q, c)
  BY DEF Link
<1>1. /\ Ins = At(q, c) /\ Block = c[q.block] /\ Live(q, c) /\ q = run /\ r = run' /\ q \in Runs
      /\ Compiled(q.fn, c) /\ Sturdy(c) /\ Places(q, c)
  BY <1>0, Here, LiveFacts DEF Link
<1>2. /\ q.block \in 1 .. Len(c) /\ q.k \in 1 .. Len(c[q.block].ins) /\ Len(c[q.block].ins) \in Nat
      /\ Solid(c[q.block], Len(c)) /\ Len(c) \in Nat
  BY <1>1, PlaceFacts
<1>3. CASE Ins = "jmp" /\ run' = Goto(run)
  <2>1. r = Along(q, c) /\ At(q, c) \in Jumps
    BY <1>1, <1>3 DEF Goto, Along, Jumps
  <2> QED  BY <1>1, <2>1, JumpFine
<1>4. CASE Ins = "jcc" /\ run' = Odd(IF run.flags THEN Goto(run) ELSE Onward(run), Strayed)
  <2>1. At(q, c) = "jcc" /\ At(q, c) \in Jumps /\ Strayed = Straying(q)
    BY <1>1, <1>4 DEF Jumps, Strayed, Straying
  <2>2. CASE q.flags
    <3>1. PICK t : t = c[q.block].to
      OBVIOUS
    <3>2. t \in Nat /\ 1 \in Nat
      BY <1>1, <1>2, <2>1, <3>1 DEF Solid, At
    <3>3. Goto(q) = Replace(q, t, 1) /\ Along(Stray(q), c) = Replace(Stray(q), t, 1)
      <4>1. Stray(q).block = q.block
        BY <1>1 DEF Stray, Runs
      <4> QED  BY <1>1, <3>1, <4>1 DEF Goto, Along, Replace
    <3>4. r = Odd(Goto(q), Straying(q))
      BY <1>1, <1>4, <2>1, <2>2
    <3>5. Odd(Replace(q, t, 1), Straying(q)) = Replace(Stray(q), t, 1)
      BY <1>1, <3>2, StrayPlace
    <3>6. r = Along(Stray(q), c)
      BY <3>3, <3>4, <3>5
    <3>7. \/ At(q, c) = "jcc" /\ r = IF q.flags THEN Along(Stray(q), c) ELSE Onto(Stray(q), c)
          \/ r = Along(q, c)
      BY <2>1, <2>2, <3>6
    <3> QED  BY <1>1, <2>1, <3>7, BranchFine
  <2>3. CASE ~q.flags
    <3>1. r = Odd(Onward(q), Straying(q))
      BY <1>1, <1>4, <2>1, <2>3
    <3>2. Onward(q) = Onto(q, c)
      BY OnwardIs
    <3>3. Odd(Onto(q, c), Straying(q)) = Onto(Stray(q), c)
      BY <1>1, StrayOnto
    <3>4. r = Onto(Stray(q), c)
      BY <3>1, <3>2, <3>3
    <3>5. \/ At(q, c) = "jcc" /\ r = IF q.flags THEN Along(Stray(q), c) ELSE Onto(Stray(q), c)
          \/ r = Along(q, c)
      BY <2>1, <2>3, <3>4
    <3> QED  BY <1>1, <2>1, <3>5, BranchFine
  <2> QED  BY <2>2, <2>3
<1> QED  BY <1>3, <1>4 DEF Branch, Step

\* The epilog: it traps, goes on or jumps out.
LEMMA EpilogLink ==
  ASSUME NEW q, NEW c, NEW r, Link(q, c, r), RunEpilog
  PROVE  Fine(r, c) /\ r.fn = q.fn
<1>1. Ins = At(q, c) /\ Block = c[q.block] /\ Live(q, c) /\ q = run /\ r = run' /\ q \in Runs
  BY Here DEF Link, Live
<1>2. At(q, c) \in {"epilog", "epilogjmp"} /\ At(q, c) \in Pops
  BY <1>1 DEF RunEpilog, Pops
<1>3. PICK b \in BOOLEAN, same \in BOOLEAN :
        IF ~Passes(same) THEN Step([run EXCEPT !.left = "trap"])
        ELSE IF Ins = "epilog" THEN Step(Onward(Compared(b)))
        ELSE Step(Odd([Compared(b) EXCEPT !.left = "jmp"], Lost(Block)))
  BY DEF RunEpilog, Lost
<1>4. Passes(same) <=> Agrees(q, same)
  BY <1>1 DEF Passes, Agrees
<1>5. Compared(b) = Popped(q, b)
  BY <1>1 DEF Compared, Popped
<1>6. CASE ~Agrees(q, same)
  <2>1. r = [q EXCEPT !.left = "trap"]
    BY <1>1, <1>3, <1>4, <1>6 DEF Step
  <2>2. ~(IF build.scheme = "CON" THEN q.ra = "good" ELSE q.ra = "good" /\ (q.ahead = 1 \/ same))
    BY <1>6 DEF Agrees
  <2> QED  BY <1>1, <1>2, <2>1, <2>2, TrapFine
<1>7. CASE Agrees(q, same) /\ At(q, c) = "epilog"
  <2>1. r = Onward(Popped(q, b))
    BY <1>1, <1>3, <1>4, <1>5, <1>7 DEF Step
  <2>2. Popped(q, b).block = q.block
    BY <1>1, PoppedIs
  <2>3. r = Onto(Popped(q, b), c)
    BY <2>1, <2>2, OnwardIs
  <2> QED  BY <1>1, <1>7, <2>3, PopFine
<1>8. CASE Agrees(q, same) /\ At(q, c) = "epilogjmp"
  <2>1. r = Odd([Popped(q, b) EXCEPT !.left = "jmp"], Lost(c[q.block]))
    BY <1>1, <1>3, <1>4, <1>5, <1>8 DEF Step
  <2>2. r = Jumping(Popped(q, b), Lost(c[q.block]))
    BY <2>1 DEF Odd, Jumping
  <2> QED  BY <1>1, <1>8, <2>2, JumpOutFine
<1> QED  BY <1>2, <1>6, <1>7, <1>8

\* Returns and tail calls.
LEMMA LeaveLink ==
  ASSUME NEW q, NEW c, NEW r, Link(q, c, r), Leave
  PROVE  Fine(r, c) /\ r.fn = q.fn
<1>1. Ins = At(q, c) /\ Live(q, c) /\ q = run /\ r = run'
  BY Here DEF Link
<1>2. At(q, c) \in Returns \ {"cctail"} /\ r = [q EXCEPT !.left = At(q, c)]
  BY <1>1 DEF Leave, Step
<1> QED  BY <1>1, <1>2, LeaveFine

\* Conditional tail calls.
LEMMA LeaveIfLink ==
  ASSUME NEW q, NEW c, NEW r, Link(q, c, r), LeaveIf
  PROVE  Fine(r, c) /\ r.fn = q.fn
<1>0. Live(q, c)
  BY DEF Link
<1>1. Ins = At(q, c) /\ Block = c[q.block] /\ Live(q, c) /\ q = run /\ r = run' /\ q \in Runs /\ Sturdy(c) /\ Places(q, c)
  BY <1>0, Here, LiveFacts DEF Link
<1>2. At(q, c) = "cctail" /\ Strayed = Straying(q)
  BY <1>1 DEF LeaveIf, Strayed, Straying
<1>3. CASE q.flags
  <2>1. r = Odd([q EXCEPT !.left = At(q, c)], Straying(q))
    BY <1>1, <1>2, <1>3 DEF LeaveIf, Step
  <2>2. PICK s : s = [q EXCEPT !.left = At(q, c)]
    OBVIOUS
  <2>3. PICK o : o = q.odd \cup Straying(q)
    OBVIOUS
  <2>4. s.odd = q.odd
    BY <1>1, <2>2 DEF Runs
  <2>5. r = [s EXCEPT !.odd = o]
    BY <2>1, <2>2, <2>3, <2>4 DEF Odd
  <2>6. r = Gone(q, At(q, c), o)
    BY <2>2, <2>5 DEF Gone
  <2> QED  BY <1>1, <1>2, <2>3, <2>6, LeaveIfFine
<1>4. CASE ~q.flags
  <2>1. PICK v \in BOOLEAN : v <=> (q.past \/ q.k = Len(c[q.block].ins))
    OBVIOUS
  <2>2. q.past \in BOOLEAN
    BY <1>1 DEF Runs
  <2>3. v = (q.past \/ q.k = Len(c[q.block].ins))
    BY <2>1, <2>2
  <2>4. PICK u : u = [q EXCEPT !.past = v]
    OBVIOUS
  <2>5. u \in Runs /\ u.block = q.block /\ u.k = q.k /\ u.flags = q.flags /\ u.want = q.want
    BY <1>1, <2>4 DEF Runs
  <2>6. r = Odd(Onward(u), Straying(q))
    BY <1>1, <1>2, <1>4, <2>3, <2>4 DEF LeaveIf, Step
  <2>7. Straying(q) = Straying(u)
    BY <2>5 DEF Straying
  <2>8. Onward(u) = Onto(u, c)
    BY <2>5, OnwardIs
  <2>9. Odd(Onto(u, c), Straying(u)) = Onto(Stray(u), c)
    <3>1. Places(u, c)
      BY <1>1, <2>5 DEF Places
    <3> QED  BY <1>1, <2>5, <3>1, StrayOnto
  <2>10. r = Onto(Stray(u), c)
    BY <2>6, <2>7, <2>8, <2>9
  <2>11. r = Onto(Stray([q EXCEPT !.past = v]), c)
    BY <2>4, <2>10
  <2> QED  BY <1>1, <1>2, <2>1, <2>11, PassedFine
<1> QED  BY <1>3, <1>4

\* The first step of an activation.
LEMMA StartFine ==
  ASSUME NEW f \in Fns \cup {Thunk}, NEW c, Compiled(f, c), NEW r,
         r = [fn |-> f, block |-> 1, k |-> 1, ra |-> "good", by |-> "none", ahead |-> 0,
              flags |-> TRUE, want |-> TRUE, past |-> FALSE, left |-> "no",
              odd |-> IF build.ibt /\ c[1].ins[1] # "endbr" THEN {"entry"} ELSE {}]
  PROVE  Fine(r, c)
<1>1. PICK o : o = IF build.ibt /\ c[1].ins[1] # "endbr" THEN {"entry"} ELSE {}
  OBVIOUS
<1>2. o \subseteq {"entry"} /\ ("entry" \in o => Displaced(f, c))
  BY <1>1 DEF Compiled
<1>3. /\ r \in Runs /\ r.fn = f /\ r.block = 1 /\ r.k = 1 /\ r.ra = "good" /\ r.by = "none" /\ r.ahead = 0
      /\ r.flags = TRUE /\ r.want = TRUE /\ r.past = FALSE /\ r.left = "no" /\ r.odd = o
  BY <1>1, <1>2 DEF Runs
<1>4. Sturdy(c) /\ Len(c) \in Nat /\ 1 \in 1 .. Len(c)
  BY DEF Compiled, Sturdy
<1>5. Places(r, c)
  <2>1. Len(c[1].ins) >= 1 /\ Len(c[1].ins) \in Nat
    <3>1. c[1] \in Blocks /\ Solid(c[1], Len(c))
      BY <1>4 DEF Sturdy
    <3>2. c[1].ins \in Seq(All)
      BY <3>1 DEF Blocks
    <3> QED  BY <3>1, <3>2 DEF Solid
  <2> QED  BY <1>3, <1>4, <2>1 DEF Places
<1>6. Slot(r, c)
  BY <1>3 DEF Slot
<1>7. Entries(r, c)
  <2>1. ASSUME Guarded(f, c) PROVE ~Begun(r, c)
    <3>1. PICK p \in 1 .. Len(c[1].ins) : Opened(c, p)
      BY <2>1 DEF Guarded
    <3> QED  BY <1>3, <1>4, <3>1, BegunIs
  <2> QED  BY <1>3, <2>1 DEF Entries
<1>8. Odds(r, c)
  BY <1>2, <1>3 DEF Odds
<1> QED  BY <1>3, <1>5, <1>6, <1>7, <1>8 DEF Fine, Going

\* What an activation is judged by stays as it is while it runs.
LEMMA FineSame ==
  ASSUME UNCHANGED <<build, todo, current, code>>, NEW r, NEW c
  PROVE  Fine(r, c)' <=> Fine(r, c)
<1>1. build' = build
  OBVIOUS
<1>2. \A f : IsGlobalConstructor(f)' <=> IsGlobalConstructor(f)
  BY DEF IsGlobalConstructor, Module
<1>3. \A f : NeverPops(f)' <=> NeverPops(f)
  BY <1>1, <1>2, JudgedSame
<1>4. \A f : Guarded(f, c)' <=> Guarded(f, c)
  BY <1>1, <1>2, JudgedSame
<1>5. \A f : Displaced(f, c)' <=> Displaced(f, c)
  BY <1>1, <1>2, JudgedSame
<1>6. JustPopped(r, c)' <=> JustPopped(r, c)
  BY <1>3 DEF JustPopped
<1>7. Entries(r, c)' <=> Entries(r, c)
  BY <1>1, <1>3, <1>4, <1>6 DEF Entries
<1>8. Odds(r, c)' <=> Odds(r, c)
  BY <1>4, <1>5 DEF Odds
<1>9. Going(r, c)' <=> Going(r, c)
  BY <1>7, <1>8 DEF Going
<1>10. Halts(r, c)' <=> Halts(r, c)
  BY <1>1 DEF Halts
<1>11. HandsOn(r, c)' <=> HandsOn(r, c)
  BY <1>3 DEF HandsOn
<1>12. Balanced(r, c)' <=> Balanced(r, c)
  BY <1>1, <1>3 DEF Balanced
<1>13. Shaped(r, c)' <=> Shaped(r, c)
  BY <1>1, <1>3, <1>5 DEF Shaped
<1>14. Ended(r, c)' <=> Ended(r, c)
  BY <1>10, <1>11, <1>12, <1>13 DEF Ended
<1> QED  BY <1>9, <1>14 DEF Fine

-----------------------------------------------------------------------------
(* The theorems. *)

\* Every step of an activation leaves it fine.
Advances == Quiet \/ Count \/ Write \/ Aim \/ Check \/ Compare \/ Branch \/ Prolog \/ RunEpilog \/ Leave \/ LeaveIf

\* They run what is compiled and leave it alone.
LEMMA Stays ==
  ASSUME Advances
  PROVE  Running /\ UNCHANGED <<build, todo, current, code>>
<1>1. CASE Quiet
  BY <1>1 DEF Quiet, Step
<1>2. CASE Count
  BY <1>2 DEF Count, Step
<1>3. CASE Write
  BY <1>3 DEF Write, Step
<1>4. CASE Aim
  BY <1>4 DEF Aim, Step
<1>5. CASE Check
  BY <1>5 DEF Check, Step
<1>6. CASE Compare
  BY <1>6 DEF Compare, Step
<1>7. CASE Branch
  BY <1>7 DEF Branch, Step
<1>8. CASE Prolog
  BY <1>8 DEF Prolog, Step
<1>9. CASE RunEpilog
  <2>1. Running
    BY <1>9 DEF RunEpilog
  <2>2. ASSUME NEW x, Step(x) PROVE UNCHANGED <<build, todo, current, code>>
    BY <2>2 DEF Step
  <2>3. \E x : Step(x)
    BY <1>9 DEF RunEpilog
  <2> QED  BY <2>1, <2>2, <2>3
<1>10. CASE Leave
  BY <1>10 DEF Leave, Step
<1>11. CASE LeaveIf
  BY <1>11 DEF LeaveIf, Step
<1> QED  BY <1>1, <1>2, <1>3, <1>4, <1>5, <1>6, <1>7, <1>8, <1>9, <1>10, <1>11 DEF Advances

\* Each leaves the activation fine.
LEMMA Linked ==
  ASSUME NEW q, NEW c, NEW r, Link(q, c, r), Advances, build \in Builds
  PROVE  Fine(r, c) /\ r.fn = q.fn
BY QuietLink, CountLink, WriteLink, AimLink, CheckLink, CompareLink, BranchLink, PrologLink, EpilogLink, LeaveLink,
   LeaveIfLink DEF Advances

\* So each keeps the invariant.
LEMMA RunsRun ==
  ASSUME CodeInv, RunInv, Advances
  PROVE  RunInv'
<1>1. Running /\ UNCHANGED <<build, todo, current, code>>
  BY Stays
<1>2. PICK q : q = run
  OBVIOUS
<1>3. PICK c : c = code[run.fn]
  OBVIOUS
<1>4. PICK r : r = run'
  OBVIOUS
<1>5. q # None /\ q.left = "no" /\ q.fn \in DOMAIN code /\ Fine(q, c)
  BY <1>1, <1>2, <1>3 DEF Running, RunInv
<1>6. current = None /\ build \in Builds
  BY <1>2, <1>5 DEF CodeInv
<1>7. Compiled(q.fn, c)
  BY <1>2, <1>3, <1>5, <1>6 DEF CodeInv
<1>8. Live(q, c)
  BY <1>5, <1>7 DEF Live, Fine
<1>9. Link(q, c, r)
  BY <1>2, <1>3, <1>4, <1>8 DEF Link
<1>10. Fine(r, c) /\ r.fn = q.fn
  BY <1>6, <1>9, Linked
<1>11. Fine(r, c)'
  BY <1>1, <1>10, FineSame
<1>12. c = code'[run'.fn] /\ run'.fn \in DOMAIN code'
  BY <1>1, <1>2, <1>3, <1>4, <1>5, <1>10
<1> QED  BY <1>4, <1>11, <1>12 DEF RunInv

\* So does the first.
LEMMA StartRun ==
  ASSUME CodeInv, NEW f \in Fns \cup {Thunk}, Start(f)
  PROVE  RunInv'
<1>1. current = None /\ f \in DOMAIN code /\ UNCHANGED <<build, todo, current, code>>
  BY DEF Start
<1>2. PICK c : c = code[f]
  OBVIOUS
<1>3. PICK r : r = run'
  OBVIOUS
<1>4. Compiled(f, c)
  BY <1>1, <1>2 DEF CodeInv
<1>5. r = [fn |-> f, block |-> 1, k |-> 1, ra |-> "good", by |-> "none", ahead |-> 0,
           flags |-> TRUE, want |-> TRUE, past |-> FALSE, left |-> "no",
           odd |-> IF build.ibt /\ c[1].ins[1] # "endbr" THEN {"entry"} ELSE {}]
  BY <1>2, <1>3 DEF Start
<1>6. Fine(r, c)
  BY <1>4, <1>5, StartFine
<1>7. Fine(r, c)'
  BY <1>1, <1>6, FineSame
<1>8. r.fn = f
  BY <1>5
<1> QED  BY <1>1, <1>2, <1>3, <1>7, <1>8 DEF RunInv

\* Nothing runs while functions are compiled.
LEMMA CompileRun ==
  ASSUME CodeInv, RunInv, run' = run, current # None \/ (\E f \in Fns \cup {Thunk} : Select(f))
  PROVE  RunInv'
<1>1. run = None
  BY DEF CodeInv, Select
<1> QED  BY <1>1 DEF RunInv

\* A step that changes nothing keeps both parts.
LEMMA StutterRun ==
  ASSUME CodeInv, RunInv, UNCHANGED vars
  PROVE  CodeInv' /\ RunInv'
<1>1. UNCHANGED <<build, todo, current, code, run>>
  BY DEF vars
<1>2. \A g : IsGlobalConstructor(g)' <=> IsGlobalConstructor(g)
  BY <1>1 DEF IsGlobalConstructor, Module
<1>3. ASSUME NEW g \in DOMAIN code, current = None \/ g # current.fn PROVE Compiled(g, code[g])'
  <2>1. PICK d : d = code[g]
    OBVIOUS
  <2>2. Compiled(g, d)
    BY <1>3, <2>1 DEF CodeInv
  <2>3. Compiled(g, d)'
    BY <1>1, <1>2, <2>2, JudgedSame
  <2> QED  BY <1>1, <2>1, <2>3
<1>4. ASSUME current # None PROVE Stage(current.fn, code[current.fn], current.passes)'
  <2>1. PICK f : f = current.fn
    OBVIOUS
  <2>2. PICK c : c = code[current.fn]
    OBVIOUS
  <2>3. PICK ps : ps = current.passes
    OBVIOUS
  <2>4. Stage(f, c, ps)
    BY <1>4, <2>1, <2>2, <2>3 DEF CodeInv
  <2>5. Stage(f, c, ps)'
    BY <1>1, <1>2, <2>4, StageSame
  <2> QED  BY <1>1, <2>1, <2>2, <2>3, <2>5
<1>5. CodeInv'
  BY <1>1, <1>3, <1>4 DEF CodeInv
<1>6. ASSUME run # None PROVE Fine(run, code[run.fn])'
  <2>1. PICK r : r = run
    OBVIOUS
  <2>2. PICK c : c = code[run.fn]
    OBVIOUS
  <2>3. Fine(r, c)'
    BY <1>1, <1>6, <2>1, <2>2, FineSame DEF RunInv
  <2> QED  BY <1>1, <2>1, <2>2, <2>3
<1>7. RunInv'
  BY <1>1, <1>6 DEF RunInv
<1> QED  BY <1>5, <1>7

RInv == CodeInv /\ RunInv

\* Whatever the functions of the module are, the passes leave code with one prolog
\* and an epilog for each return block, or code that needs neither; and an activation
\* of it is where, and has on its shadow stack and in its slot, what those place it to.
THEOREM RInvHolds == Spec => []RInv
<1>1. ASSUME Init PROVE RInv
  BY <1>1, InitCode DEF Init, RInv, RunInv
<1>2. ASSUME RInv, [Next]_vars PROVE RInv'
  <2>0. CodeInv /\ RunInv
    BY <1>2 DEF RInv
  <2>1. CASE UNCHANGED vars
    BY <2>0, <2>1, StutterRun DEF RInv
  <2>2. ASSUME NEW f \in Fns \cup {Thunk}, Select(f) PROVE RInv'
    <3>1. run' = run
      BY <2>2 DEF Select
    <3> QED  BY <2>0, <2>2, <3>1, SelectCode, CompileRun DEF RInv
  <2>3. ASSUME NEW f \in Fns \cup {Thunk}, Start(f) PROVE RInv'
    <3>1. UNCHANGED <<build, todo, current, code>> /\ current = None /\ todo = {}
      BY <2>3 DEF Start
    <3> QED  BY <2>0, <2>3, <3>1, QuietCode, StartRun DEF RInv
  <2>4. CASE RunMPX \/ RunRegAlloc \/ RunIBT \/ RunCount \/ RunShadow \/ RunXRay \/ RunThunks
    <3>1. PICK name \in Names : APass(name)
      BY <2>4, SomePass
    <3>2. CodeInv'
      BY <2>0, <3>1, PassCode
    <3>3. run' = run /\ current # None
      BY <3>1 DEF APass, Pass
    <3>4. RunInv'
      BY <2>0, <3>3, CompileRun
    <3> QED  BY <3>2, <3>4 DEF RInv
  <2>5. CASE Emit
    <3>1. run' = run /\ current # None
      BY <2>5 DEF Emit
    <3> QED  BY <2>0, <2>5, <3>1, EmitCode, CompileRun DEF RInv
  <2>6. CASE Advances
    <3>1. UNCHANGED <<build, todo, current, code>> /\ run # None
      BY <2>6, Stays DEF Running
    <3>2. current = None /\ todo = {}
      BY <2>0, <3>1 DEF CodeInv
    <3>3. CodeInv'
      BY <2>0, <3>1, <3>2, QuietCode
    <3>4. RunInv'
      BY <2>0, <2>6, RunsRun
    <3> QED  BY <3>3, <3>4 DEF RInv
  <2> QED  BY <1>2, <2>1, <2>2, <2>3, <2>4, <2>5, <2>6 DEF Next, Advances
<1> QED  BY <1>1, <1>2, PTL DEF Spec

\* What the invariant says of an activation in the words of the properties.
LEMMA Judged ==
  ASSUME RInv, run # None, NEW q, q = run, NEW c, c = code[run.fn]
  PROVE  q \in Runs /\ (q.left # "no" => Ended(q, c)) /\ Block = c[q.block]
         /\ (Instrumented(q.fn) <=> Inst(c)) /\ (Overlooked <=> Missed(q, c))
<1>1. Fine(q, c)
  BY DEF RInv, RunInv
<1>2. Block = c[q.block]
  BY DEF Block
<1>3. Instrumented(q.fn) <=> Inst(c)
  BY DEF Instrumented, Inst
<1>4. Overlooked <=> Missed(q, c)
  BY <1>2 DEF Overlooked, Missed
<1> QED  BY <1>1, <1>2, <1>3, <1>4 DEF Fine

\* An activation that left did so behind an epilog, or is one of the three to blame.
LEMMA UnguardedIs == RInv => UnguardedBlame
<1> SUFFICES ASSUME RInv, Left, run.ra = "bad"
             PROVE  (~Instrumented(run.fn) /\ run.by \in {"mixed", "call"}) \/ NeverPops(run.fn) \/ Overlooked
  BY DEF UnguardedBlame
<1>1. PICK q : q = run
  OBVIOUS
<1>2. PICK c : c = code[run.fn]
  OBVIOUS
<1>3. q # None /\ q.left # "no" /\ q.left \notin Stops
  BY <1>1 DEF Left, Stopped, Stops
<1>4. Ended(q, c) /\ (Instrumented(q.fn) <=> Inst(c)) /\ (Overlooked <=> Missed(q, c))
  BY <1>1, <1>2, <1>3, Judged
<1>5. HandsOn(q, c)
  BY <1>3, <1>4 DEF Ended
<1> QED  BY <1>1, <1>4, <1>5 DEF HandsOn

\* A trap needs a passed epilog or EH_RETURN, a fault the counter.
LEMMA StopIs == RInv => StopBlame
<1> SUFFICES ASSUME RInv, Stopped, run.ra # "bad"
             PROVE  CASE run.left = "trap"    -> \/ Back(Block) = "ehret"
                                                 \/ run.ahead <= 0 /\ run.past
                      [] run.left = "fault"   -> build.count /\ (build.scheme \in {"MEM", "CON"} \/ (build.scheme = "SEG" /\ build.mpk))
                      [] run.left = "refused" -> FALSE
  BY DEF StopBlame
<1>1. PICK q : q = run
  OBVIOUS
<1>2. PICK c : c = code[run.fn]
  OBVIOUS
<1>3. q # None /\ q.left # "no" /\ q.left \in Stops
  BY <1>1 DEF Stopped, Stops
<1>4. Ended(q, c) /\ Block = c[q.block]
  BY <1>1, <1>2, <1>3, Judged
<1>5. Halts(q, c)
  BY <1>3, <1>4 DEF Ended
<1>6. \/ run.left = "trap" /\ (Back(Block) = "ehret" \/ (run.ahead <= 0 /\ run.past))
      \/ run.left = "fault" /\ build.count /\ (build.scheme \in {"MEM", "CON"} \/ (build.scheme = "SEG" /\ build.mpk))
  BY <1>1, <1>4, <1>5 DEF Halts
<1> QED  BY <1>6

\* One prolog and one epilog cancel out.
LEMMA BalanceIs == RInv => BalanceBlame
<1> SUFFICES ASSUME RInv, Left, build.scheme # "CON", Instrumented(run.fn)
             PROVE  run.ahead = 0 \/ (run.ahead = 1 /\ (NeverPops(run.fn) \/ Overlooked)) \/ (run.ahead < 0 /\ run.past)
  BY DEF BalanceBlame
<1>1. PICK q : q = run
  OBVIOUS
<1>2. PICK c : c = code[run.fn]
  OBVIOUS
<1>3. q # None /\ q.left # "no" /\ q.left \notin Stops
  BY <1>1 DEF Left, Stopped, Stops
<1>4. Ended(q, c) /\ (Instrumented(q.fn) <=> Inst(c)) /\ (Overlooked <=> Missed(q, c))
  BY <1>1, <1>2, <1>3, Judged
<1>5. Balanced(q, c)
  BY <1>3, <1>4 DEF Ended
<1> QED  BY <1>1, <1>4, <1>5 DEF Balanced

\* What is odd is put there by a known pass.
LEMMA ShapeIs == RInv => ShapeBlame
<1> SUFFICES ASSUME RInv, Left
             PROVE  /\ "target" \notin run.odd
                    /\ "branch" \in run.odd =>
                         Instrumented(run.fn) /\ (run.past \/ (run.left = "cctail" /\ ~Overlooked))
                    /\ (run.odd \cap {"args", "sled"} # {}) <=> (run.left = "jmp" /\ Back(Block) \in {"retn", "sledret"})
                    /\ run.left = "jmp" =>
                         build.scheme = "REG" /\ Instrumented(run.fn) /\ ~NeverPops(run.fn) /\ ~IsCall(Back(Block))
                    /\ "entry" \in run.odd =>
                         \/ Instrumented(run.fn) \/ build.count \/ build.xray \/ run.fn = Thunk
                         \/ build.scheme = "REG" /\ (IsGlobalConstructor(run.fn) \/ run.fn = Main)
  BY DEF ShapeBlame
<1>1. PICK q : q = run
  OBVIOUS
<1>2. PICK c : c = code[run.fn]
  OBVIOUS
<1>3. q # None /\ q.left # "no" /\ q.left \notin Stops
  BY <1>1 DEF Left, Stopped, Stops
<1>4. Ended(q, c) /\ (Instrumented(q.fn) <=> Inst(c)) /\ (Overlooked <=> Missed(q, c)) /\ Block = c[q.block]
  BY <1>1, <1>2, <1>3, Judged
<1>5. Shaped(q, c)
  BY <1>3, <1>4 DEF Ended
<1>6. Displaced(q.fn, c) => \/ Instrumented(q.fn) \/ build.count \/ build.xray \/ q.fn = Thunk
                            \/ build.scheme = "REG" /\ (IsGlobalConstructor(q.fn) \/ q.fn = Main)
  BY <1>4 DEF Displaced, Inst
<1>7. "target" \notin run.odd
  BY <1>1, <1>5 DEF Shaped
<1>8. "branch" \in run.odd => Instrumented(run.fn) /\ (run.past \/ (run.left = "cctail" /\ ~Overlooked))
  BY <1>1, <1>4, <1>5 DEF Shaped
<1>9. (run.odd \cap {"args", "sled"} # {}) <=> (run.left = "jmp" /\ Back(Block) \in {"retn", "sledret"})
  BY <1>1, <1>4, <1>5 DEF Shaped
<1>10. run.left = "jmp" =>
         build.scheme = "REG" /\ Instrumented(run.fn) /\ ~NeverPops(run.fn) /\ ~IsCall(Back(Block))
  BY <1>1, <1>4, <1>5 DEF Shaped
<1>11. "entry" \in run.odd =>
         \/ Instrumented(run.fn) \/ build.count \/ build.xray \/ run.fn = Thunk
         \/ build.scheme = "REG" /\ (IsGlobalConstructor(run.fn) \/ run.fn = Main)
  BY <1>1, <1>5, <1>6 DEF Shaped
<1> QED  BY <1>7, <1>8, <1>9, <1>10, <1>11

\* For every module of functions, every set of passes and every way through the code:
\* an altered return address is handed on by a spared function that a merged store or a
\* callee wrote through, by a constructor under REG, or where isReturnBlock() sees no
\* return; by no other.
THEOREM UnguardedBlameHolds == Spec => []UnguardedBlame
BY RInvHolds, UnguardedIs, PTL

\* And a program that has altered no return address is stopped only by an EH_RETURN,
\* behind a conditional tail call whose epilog has popped, or by the counter of MEM and CON.
THEOREM StopBlameHolds == Spec => []StopBlame
BY RInvHolds, StopIs, PTL

\* And the shadow stack pointer is where it was, but for a constructor under REG, a
\* return that isReturnBlock() does not see, and an activation that passed several epilogs.
THEOREM BalanceBlameHolds == Spec => []BalanceBlame
BY RInvHolds, BalanceIs, PTL

\* And what was done otherwise than written was done by the pass that ShapeBlame names.
THEOREM ShapeBlameHolds == Spec => []ShapeBlame
BY RInvHolds, ShapeIs, PTL
================================================================================
