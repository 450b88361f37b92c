-------------------------- MODULE EmittedCodeProofs --------------------------
(***************************************************************************)
(* Proofs about EmittedCode, for every variant, layout and nesting of      *)
(* handlers.                                                               *)
(*  - A symbolic execution of the prologs and epilogs: the note before an  *)
(*    instruction says what each register holds in terms of what the       *)
(*    caller left; a rule for each use of an instruction leads from one    *)
(*    note to the next.  Annotated: the rules lead through Code(v) from    *)
(*    Entered(v), for every variant.                                       *)
(*  - SoundStep: the machine does what the rules say.                      *)
(*  - IInv: every active level, interrupted or running, is as its note     *)
(*    says, and each handler works below what the levels under it need.    *)
(***************************************************************************)
EXTENDS EmittedCode, SequenceTheorems, NaturalsInduction, WellFoundedInduction, TLAPS


-------------------------------------------------------------------------------
(* Symbolic values, notes and one rule for each use of an instruction.     *)

Tags == {"any", "want", "lit", "ptr", "base", "foreign", "ra", "old", "now", "diff", "choice", "sure"}
Values == [t : Tags, q : Regs, d : Int]
Tagged(t) == [t |-> t, q |-> "GS", d |-> 0]
Any     == Tagged("any")
Base    == Tagged("base")
Unset   == Tagged("foreign")
Ra      == Tagged("ra")
Old     == Tagged("old")
Now     == Tagged("now")
Diff    == Tagged("diff")
Choice  == Tagged("choice")
Sure    == Tagged("sure")
Want(q, d) == [t |-> "want", q |-> q, d |-> d]
Lit(n)  == [t |-> "lit", q |-> "GS", d |-> n]
Ptr(d)  == [t |-> "ptr", q |-> "GS", d |-> d]

\* A note: what is known before one instruction.  slot: the words below the return
\* address; ptr: the pointer in memory; ent: words of the entry written; mir: the
\* mirror written; zf: the flag is checkRA()'s; open: the entry is exposed; fresh:
\* the function's own code has not run.
Syms == [reg : [Regs -> Values], slot : [1 .. 3 -> Values], ptr : {0, 2}, ent : {0, 1, 2},
         mir : BOOLEAN, pk : {"any", "open", "lock"}, zf : BOOLEAN, open : BOOLEAN, fresh : BOOLEAN]

\* The schemes without a pointer, and those with one in memory.
Mirrored(v) == v.scheme \in {"PARR", "CON"}
Stacked(v)  == v.scheme \in {"SEG", "MEM"}

\* How far the shadow pointer is above where the activation found it.
Top(v, a) == IF v.scheme = "REG" THEN a.reg["R15"].d ELSE IF Stacked(v) THEN a.ptr ELSE 0

\* Registers the sequences may use.
Free == {"RAX", "RCX", "RDX", "R10", "R11"}
Here == Want("RSP", 0)
\* A register or a word below rsp takes a value.
Hold(a, r, x) == [a EXCEPT !.reg = [@ EXCEPT ![r] = x]]
Fill(a, j, x) == [a EXCEPT !.slot = [@ EXCEPT ![j] = x]]
\* The key lets the sequence read or write the shadow stack.
Reads(v, a)  == v.mpk => a.pk \in {"open", "lock"}
Writes(v, a) == v.mpk => a.pk = "open"

\* The pushes of a pkeys epilog land on the slot that keeps r11.
Clobbers(v) ==
  v.mpk /\ "R11" \in v.reads /\ (v.scheme = "MEM" \/ (v.scheme = "SEG" /\ "RAX" \in v.reads))

\* The note before a function's first instruction.
Entered(v) ==
  [reg |-> [r \in Regs |->
     IF r = "GS" THEN Lit(IF v.scheme = "SEG" THEN ShadowBase ELSE ClaveBase)
     ELSE IF r = "R15" /\ v.load THEN Unset
     ELSE IF r = "R15" /\ v.scheme \in {"REG", "PARR"} THEN Base
     ELSE Want(r, 0)],
   slot |-> [j \in 1 .. 3 |-> Any], ptr |-> 0, ent |-> 0, mir |-> FALSE, pk |-> "any",
   zf |-> FALSE, open |-> FALSE, fresh |-> TRUE]

\* One rule for each way an instruction is used: i takes note a to note b.
RMov(v, i, a, b) == \E r \in Free, s \in Regs :
  i = <<"mov", r, s>> /\ a.reg[s].t = "want" /\ b = Hold(a, r, a.reg[s])
RImm(v, i, a, b) == \E r \in Free, n \in {OpenAll, WriteProt, ShadowBase} :
  i = <<"imm", r, n>> /\ b = Hold(a, r, Lit(n))
RAdd(v, i, a, b) == \E r \in Free, n \in {-2, 2} :
  /\ i = <<"add", r, n>> /\ a.reg[r].t = "ptr"
  /\ b = Hold(a, r, Ptr(a.reg[r].d + n))
RForth(v, i, a, b) ==
  /\ v.scheme = "REG" /\ i = <<"add", "R15", 2>> /\ a.reg["R15"] = Ptr(0)
  /\ b = [Hold(a, "R15", Ptr(2)) EXCEPT !.open = FALSE]
RBack(v, i, a, b) ==
  /\ v.scheme = "REG" /\ i = <<"add", "R15", -2>> /\ a.reg["R15"] = Ptr(2) /\ ~a.open
  /\ b = [Hold(a, "R15", Ptr(0)) EXCEPT !.ent = 0]
RLoadRet(v, i, a, b) == \E r \in Free :
  /\ i = <<"load", r, "RSP", 0>> /\ a.reg["RSP"] = Here
  /\ b = Hold(a, r, IF a.fresh THEN Ra ELSE Now)
RLoadSlot(v, i, a, b) == \E r \in Free, j \in 1 .. 3 :
  /\ i = <<"load", r, "RSP", -j>> /\ a.reg["RSP"] \in {Choice, Sure}
  /\ b = Hold(Hold(a, r, a.slot[j]), "RSP", Sure)
RLoadPtr(v, i, a, b) == \E r \in Free, s \in {"GS", "RDX"} :
  /\ i = <<"load", r, s, 0>> /\ Stacked(v) /\ a.reg[s] = Lit(ShadowBase) /\ Reads(v, a)
  /\ b = Hold(a, r, Ptr(a.ptr))
RLoadClave(v, i, a, b) == \E n \in {0, 2} :
  /\ i = <<"load", "R15", "GS", n>> /\ v.load /\ a.reg["GS"] = Lit(ClaveBase) /\ a.ent = 0
  /\ v.scheme = IF n = 0 THEN "PARR" ELSE "REG"
  /\ b = Hold(a, "R15", Ptr(0))
RLoadEntry(v, i, a, b) ==
  \/ /\ v.scheme = "REG" /\ i = <<"load", "R11", "R15", -2>> /\ a.reg["R15"] = Ptr(2)
     /\ a.ent > 0 /\ Reads(v, a)
     /\ b = Hold(a, "R11", Old)
  \/ /\ Stacked(v) /\ i = <<"load", "R11", "R11", 0>> /\ a.reg["R11"] = Ptr(0)
     /\ a.ent > 0 /\ Reads(v, a)
     /\ b = [Hold(a, "R11", Old) EXCEPT !.ent = 0, !.open = FALSE]
RLoadMirror(v, i, a, b) ==
  /\ \/ v.scheme = "CON" /\ i = <<"load", "R11", "RSP", ParOffset>>
     \/ v.scheme = "PARR" /\ i = <<"loadx", "R11", "RSP", "R15">> /\ a.reg["R15"] = Ptr(0)
  /\ a.reg["RSP"] = Here /\ a.mir /\ Reads(v, a)
  /\ b = Hold(a, "R11", Old)
RStoreRa(v, i, a, b) == \E r \in {"R15", "R10", "RCX"} :
  /\ i = <<"store", r, 0, "RAX">> /\ ~Mirrored(v) /\ i \in Opens(v)
  /\ a.reg["RAX"] = Ra /\ a.reg[r] \in {Base, Ptr(0)} /\ Writes(v, a) /\ Top(v, a) = 0
  /\ b = [Hold(a, r, Ptr(0)) EXCEPT !.ent = 1, !.open = TRUE]
RStoreSp(v, i, a, b) == \E r \in {"R15", "R10", "RCX"} :
  /\ i = <<"store", r, 1, "RSP">> /\ ~Mirrored(v)
  /\ a.reg["RSP"] = Here /\ a.reg[r] = Ptr(0) /\ Writes(v, a) /\ Top(v, a) = 0
  /\ a.open /\ a.ent = 1
  /\ b = [a EXCEPT !.ent = 2]
RStorePtr(v, i, a, b) == \E r \in {"R10", "RCX", "R11"} :
  /\ i = <<"store", "GS", 0, r>> /\ v.scheme = "SEG" /\ a.reg["GS"] = Lit(ShadowBase) /\ Writes(v, a)
  /\ a.reg[r] = IF r = "R11" THEN Ptr(0) ELSE Ptr(2)
  /\ r # "R11" => i \in Closes(v)
  /\ b = [a EXCEPT !.ptr = a.reg[r].d, !.open = (r = "R11")]
RStoreMirror(v, i, a, b) ==
  /\ a.reg["RSP"] = Here /\ a.reg["RAX"] = Ra /\ Writes(v, a)
  /\ \/ v.scheme = "CON" /\ i = <<"store", "RSP", ParOffset, "RAX">> /\ b = [a EXCEPT !.mir = TRUE]
     \/ /\ v.scheme = "PARR" /\ i = <<"storex", "RSP", "R15", "RAX">> /\ a.reg["R15"] \in {Base, Ptr(0)}
        /\ b = [Hold(a, "R15", Ptr(0)) EXCEPT !.mir = TRUE]
RStoreSlot(v, i, a, b) == \E r \in Free, j \in 1 .. 3 :
  /\ i = <<"store", "RSP", -j, r>> /\ a.reg["RSP"] = Here /\ a.reg[r].t = "want"
  /\ b = Fill(a, j, a.reg[r])
RAddPtr(v, i, a, b) == \E n \in {-2, 2} :
  /\ i = <<"addm", "RDX", n>> /\ v.scheme = "MEM" /\ a.reg["RDX"] = Lit(ShadowBase) /\ Writes(v, a)
  /\ \/ n = 2 /\ a.ptr = 0 /\ b = [a EXCEPT !.ptr = 2, !.open = FALSE]
     \/ n = -2 /\ a.ptr = 2 /\ b = [a EXCEPT !.ptr = 0, !.open = TRUE]
RPush(v, i, a, b) == \E r \in Free, d \in 1 .. 2 :
  /\ i = <<"push", r>> /\ a.reg["RSP"] = Want("RSP", 1 - d) /\ a.reg[r].t = "want"
  /\ b = Fill(Hold(a, "RSP", Want("RSP", -d)), d, a.reg[r])
RPop(v, i, a, b) == \E r \in Free, d \in 1 .. 2 :
  /\ i = <<"pop", r>> /\ a.reg["RSP"] = Want("RSP", -d)
  /\ b = Hold(Hold(a, r, a.slot[d]), "RSP", Want("RSP", 1 - d))
RPopRet(v, i, a, b) ==
  /\ i = <<"pop", "R10">> /\ a.reg["RSP"] = Here /\ ~a.fresh
  /\ b = [Hold(Hold(a, "R10", Now), "RSP", Want("RSP", 1)) EXCEPT !.slot = [j \in 1 .. 3 |-> Any]]
RXor(v, i, a, b) ==
  /\ i = <<"xor", "R11", "R10">> /\ a.reg["R11"] = Old /\ a.reg["R10"] = Now
  /\ b = Hold(a, "R11", Diff)
RPopcnt(v, i, a, b) ==
  i = <<"popcnt", "R11">> /\ a.reg["R11"] = Diff /\ b = a
RProbe(v, i, a, b) ==
  /\ i = <<"probe", "R11">> /\ a.reg["R11"] = Diff
  /\ \/ a.reg["RSP"] = Here /\ b = Hold(a, "RSP", Sure)
     \/ a.reg["RSP"] = Want("RSP", 1) /\ a.reg["R10"] = Now /\ b = Hold(a, "R10", Ra)
RXorm(v, i, a, b) ==
  /\ i = <<"xorm", "R11", "RSP">> /\ a.reg["R11"] = Old /\ a.reg["RSP"] = Here
  /\ b = [Hold(a, "R11", Diff) EXCEPT !.zf = TRUE]
RZero(v, i, a, b) ==
  /\ i = <<"imm", "RSP", NullPage>> /\ a.reg["R10"] = Here /\ a.zf
  /\ b = Hold(a, "RSP", Lit(0))
RCmove(v, i, a, b) ==
  /\ i = <<"cmove", "RSP", "R10">> /\ a.reg["R10"] = Here /\ a.zf /\ a.reg["RSP"] = Lit(0)
  /\ b = Hold(a, "RSP", Choice)
RWrpkru(v, i, a, b) == \E n \in {OpenAll, WriteProt} :
  /\ i = <<"wrpkru">> /\ v.mpk /\ a.reg["RAX"] = Lit(n)
  /\ b = [a EXCEPT !.pk = IF n = OpenAll THEN "open" ELSE "lock"]
RBody(v, i, a, b) ==
  /\ i = <<"body">> /\ a.fresh /\ (v.mpk => a.pk = "lock")
  /\ \A r \in {"RSP", "RCX", "RDX"} : a.reg[r] = Want(r, 0)
  /\ a.reg["R15"] = IF v.scheme = "REG" THEN Ptr(2) ELSE IF v.scheme = "PARR" THEN Ptr(0) ELSE Want("R15", 0)
  /\ a.reg["RAX"] \in {Ra, Lit(WriteProt)}
  /\ IF ~v.mpk /\ ~Stacked(v) THEN a.reg["R10"] = Want("R10", 0) ELSE a.reg["R10"] \in {Want("RCX", 0), Ptr(2)}
  /\ ~a.open /\ IF Mirrored(v) THEN a.mir ELSE Top(v, a) = 2 /\ a.ent = 2
  /\ b = [a EXCEPT !.reg = [r \in Regs |-> IF r \in {"RSP", "GS", "R15"} THEN a.reg[r] ELSE Want(r, 0)],
                   !.slot = [j \in 1 .. 3 |-> Any], !.zf = FALSE, !.fresh = FALSE]
Balanced(v, a) == v.scheme \in {"REG", "PARR"} => a.reg["R15"] = Ptr(0)
RLeave(v, i, a, b) ==
  /\ i = <<"back">> /\ (v.mpk => a.pk = "lock") /\ ~a.fresh
  /\ IF v.ctor THEN a.reg["RSP"] = Here ELSE a.reg["RSP"] \in {Sure, Choice} /\ Top(v, a) = 0 /\ Balanced(v, a)
  /\ ~Clobbers(v) => \A r \in v.reads : a.reg[r] = Want(r, 0)
  /\ b = a
RJmp(v, i, a, b) ==
  /\ i = <<"jmp", "R10">> /\ a.reg["R10"] = Ra /\ Top(v, a) = 0 /\ Balanced(v, a) /\ ~a.fresh /\ ~v.ctor
  /\ b = [a EXCEPT !.reg = [r \in Regs |-> IF r = "RSP" THEN Sure ELSE IF r \in {"GS", "R15"} THEN a.reg[r] ELSE Want(r, 0)]]

Rule(v, i, a, b) ==
  \/ RMov(v, i, a, b) \/ RImm(v, i, a, b) \/ RAdd(v, i, a, b) \/ RForth(v, i, a, b) \/ RBack(v, i, a, b)
  \/ RLoadRet(v, i, a, b) \/ RLoadSlot(v, i, a, b) \/ RLoadPtr(v, i, a, b) \/ RLoadClave(v, i, a, b)
  \/ RLoadEntry(v, i, a, b) \/ RLoadMirror(v, i, a, b) \/ RStoreRa(v, i, a, b) \/ RStoreSp(v, i, a, b)
  \/ RStorePtr(v, i, a, b) \/ RStoreMirror(v, i, a, b) \/ RStoreSlot(v, i, a, b) \/ RAddPtr(v, i, a, b)
  \/ RPush(v, i, a, b) \/ RPop(v, i, a, b) \/ RPopRet(v, i, a, b) \/ RXor(v, i, a, b) \/ RPopcnt(v, i, a, b)
  \/ RProbe(v, i, a, b) \/ RXorm(v, i, a, b) \/ RZero(v, i, a, b) \/ RCmove(v, i, a, b) \/ RWrpkru(v, i, a, b)
  \/ RBody(v, i, a, b) \/ RLeave(v, i, a, b) \/ RJmp(v, i, a, b)

\* What every note says: enough to deliver a signal where it stands.
Stable(v, a) ==
  /\ Top(v, a) \in {0, 2}
  /\ a.ent > 0 => a.open \/ Top(v, a) = 2
  /\ \A j \in 1 .. 3 : a.slot[j].t \in {"any", "want"}
  /\ \/ a.reg["RSP"] \in {Want("RSP", -2), Want("RSP", -1), Here, Lit(0), Choice, Sure}
     \/ a.reg["RSP"] = Want("RSP", 1) /\ \A j \in 1 .. 3 : a.slot[j] = Any

-------------------------------------------------------------------------------
(* Walks: sequences of instructions with a note before each.               *)

\* While rsp is zero there is only one instruction to come.
Plain(i, a) == a.reg["RSP"].t = "lit" => i = <<"cmove", "RSP", "R10">>
Stepped(v, i, a, b) ==
  Rule(v, i, a, b) /\ Plain(i, a) /\ a \in Syms /\ b \in Syms /\ Stable(v, a) /\ Stable(v, b)

Walks(v, s, A) ==
  /\ A \in [1 .. Len(s) + 1 -> Syms]
  /\ \A k \in 1 .. Len(s) : Rule(v, s[k], A[k], A[k + 1]) /\ Plain(s[k], A[k])
  /\ \A k \in 1 .. Len(s) + 1 : Stable(v, A[k])

Flows(v, s, a, b) ==
  \E S, A : s \in Seq(S) /\ Walks(v, s, A) /\ A[1] = a /\ A[Len(s) + 1] = b

\* The empty sequence leaves the note as it is.
LEMMA FlowEmpty ==
  ASSUME NEW v, NEW a \in Syms, Stable(v, a)
  PROVE  Flows(v, << >>, a, a)
<1> DEFINE A == [k \in 1 .. 1 |-> a]
           s == << >>
<1>1. s \in Seq({}) /\ Len(s) = 0
  OBVIOUS
<1>2. A \in [1 .. Len(s) + 1 -> Syms] /\ A[1] = a /\ A[Len(s) + 1] = a /\ \A k \in 1 .. Len(s) + 1 : A[k] = a
  BY <1>1
<1> HIDE DEF A, s
<1>3. Walks(v, s, A)
  BY <1>1, <1>2 DEF Walks
<1> QED  BY <1>1, <1>2, <1>3 DEF Flows, s

\* One instruction with a rule is a sequence with a walk.
LEMMA FlowOne ==
  ASSUME NEW v, NEW i, NEW a, NEW b, Stepped(v, i, a, b)
  PROVE  Flows(v, <<i>>, a, b)
<1> DEFINE s == <<i>>
           A == [k \in 1 .. 2 |-> IF k = 1 THEN a ELSE b]
<1>1. s \in Seq({i}) /\ Len(s) = 1 /\ s[1] = i
  OBVIOUS
<1>2. A \in [1 .. Len(s) + 1 -> Syms] /\ A[1] = a /\ A[2] = b
  BY <1>1 DEF Stepped
<1> HIDE DEF A, s
<1>3. Walks(v, s, A)
  <2>1. \A k \in 1 .. Len(s) : Rule(v, s[k], A[k], A[k + 1]) /\ Plain(s[k], A[k])
    <3>1. 1 .. Len(s) = {1} /\ 1 + 1 = 2
      BY <1>1
    <3> QED  BY <3>1, <1>1, <1>2 DEF Stepped
  <2>2. \A k \in 1 .. Len(s) + 1 : Stable(v, A[k])
    <3>1. \A k \in 1 .. Len(s) + 1 : k = 1 \/ k = 2
      BY <1>1
    <3> QED  BY <3>1, <1>2 DEF Stepped
  <2> QED  BY <2>1, <2>2, <1>2 DEF Walks
<1>4. A[Len(s) + 1] = b
  BY <1>1, <1>2
<1> QED  BY <1>1, <1>2, <1>3, <1>4 DEF Flows, s

\* Two walks that meet join to a walk along both sequences.
LEMMA FlowJoin ==
  ASSUME NEW v, NEW s, NEW t, NEW a, NEW b, NEW c, Flows(v, s, a, b), Flows(v, t, b, c)
  PROVE  Flows(v, s \o t, a, c)
<1>1. PICK S, A : s \in Seq(S) /\ Walks(v, s, A) /\ A[1] = a /\ A[Len(s) + 1] = b
  BY DEF Flows
<1>2. PICK S2, B : t \in Seq(S2) /\ Walks(v, t, B) /\ B[1] = b /\ B[Len(t) + 1] = c
  BY DEF Flows
<1> DEFINE n == Len(s)
           m == Len(t)
           u == s \o t
           C == [k \in 1 .. n + m + 1 |-> IF k <= n THEN A[k] ELSE B[k - n]]
<1>3. n \in Nat /\ m \in Nat
  BY <1>1, <1>2
<1>4. u \in Seq(S \cup S2) /\ Len(u) = n + m /\ \A k \in 1 .. n + m : u[k] = IF k <= n THEN s[k] ELSE t[k - n]
  <2>1. s \in Seq(S \cup S2) /\ t \in Seq(S \cup S2)
    BY <1>1, <1>2
  <2> QED  BY <2>1, ConcatProperties
<1>5. /\ A \in [1 .. n + 1 -> Syms] /\ B \in [1 .. m + 1 -> Syms]
      /\ \A k \in 1 .. n : Rule(v, s[k], A[k], A[k + 1]) /\ Plain(s[k], A[k])
      /\ \A k \in 1 .. m : Rule(v, t[k], B[k], B[k + 1]) /\ Plain(t[k], B[k])
      /\ \A k \in 1 .. n + 1 : Stable(v, A[k])
      /\ \A k \in 1 .. m + 1 : Stable(v, B[k])
  BY <1>1, <1>2 DEF Walks
<1>6. \A k \in 1 .. n + m + 1 : C[k] = IF k <= n THEN A[k] ELSE B[k - n]
  OBVIOUS
<1> HIDE DEF n, m, u
<1>7. C \in [1 .. n + m + 1 -> Syms]
  <2>1. \A k \in 1 .. n + m + 1 : (IF k <= n THEN A[k] ELSE B[k - n]) \in Syms
    BY <1>3, <1>5
  <2> QED  BY <2>1
<1>8. A[n + 1] = B[1]
  BY <1>1, <1>2 DEF n
<1>9. \A k \in 1 .. n + 1 : C[k] = A[k]
  <2> SUFFICES ASSUME NEW k \in 1 .. n + 1 PROVE C[k] = A[k]
    OBVIOUS
  <2> HIDE DEF C
  <2>1. k \in 1 .. n + m + 1
    BY <1>3
  <2>2. CASE k <= n
    BY <2>1, <2>2, <1>6
  <2>3. CASE k = n + 1
    BY <2>1, <2>3, <1>3, <1>6, <1>8
  <2> QED  BY <2>2, <2>3, <1>3
<1>10. \A k \in 1 .. m + 1 : C[n + k] = B[k]
  <2> SUFFICES ASSUME NEW k \in 1 .. m + 1 PROVE C[n + k] = B[k]
    OBVIOUS
  <2> HIDE DEF C
  <2>1. n + k \in 1 .. n + m + 1 /\ ~ (n + k <= n) /\ (n + k) - n = k
    BY <1>3
  <2> QED  BY <2>1, <1>6
<1> HIDE DEF C
<1>11. \A k \in 1 .. n + m : Rule(v, u[k], C[k], C[k + 1]) /\ Plain(u[k], C[k])
  <2> SUFFICES ASSUME NEW k \in 1 .. n + m PROVE Rule(v, u[k], C[k], C[k + 1]) /\ Plain(u[k], C[k])
    OBVIOUS
  <2>1. CASE k <= n
    <3>1. k \in 1 .. n /\ k \in 1 .. n + 1 /\ k + 1 \in 1 .. n + 1
      BY <2>1, <1>3
    <3>2. u[k] = s[k] /\ C[k] = A[k] /\ C[k + 1] = A[k + 1]
      BY <3>1, <2>1, <1>4, <1>9
    <3> QED  BY <3>1, <3>2, <1>5
  <2>2. CASE ~ (k <= n)
    <3> DEFINE j == k - n
    <3>1. j \in 1 .. m /\ j \in 1 .. m + 1 /\ j + 1 \in 1 .. m + 1 /\ n + j = k /\ n + (j + 1) = k + 1
      BY <2>2, <1>3
    <3>2. u[k] = t[j]
      BY <2>2, <1>4
    <3> HIDE DEF j
    <3>3. C[k] = B[j] /\ C[k + 1] = B[j + 1]
      BY <3>1, <1>10
    <3> QED  BY <3>1, <3>2, <3>3, <1>5
  <2> QED  BY <2>1, <2>2
<1>12. \A k \in 1 .. n + m + 1 : Stable(v, C[k])
  <2> SUFFICES ASSUME NEW k \in 1 .. n + m + 1 PROVE Stable(v, C[k])
    OBVIOUS
  <2>1. CASE k <= n
    BY <2>1, <1>3, <1>5, <1>9
  <2>2. CASE ~ (k <= n)
    <3> DEFINE j == k - n
    <3>1. j \in 1 .. m + 1 /\ n + j = k
      BY <2>2, <1>3
    <3> HIDE DEF j
    <3>2. C[k] = B[j]
      BY <3>1, <1>10
    <3> QED  BY <3>1, <3>2, <1>5
  <2> QED  BY <2>1, <2>2
<1>13. C[1] = a /\ C[n + m + 1] = c
  <2>1. 1 \in 1 .. n + 1 /\ m + 1 \in 1 .. m + 1 /\ n + (m + 1) = n + m + 1
    BY <1>3
  <2>2. C[1] = A[1] /\ C[n + m + 1] = B[m + 1]
    BY <2>1, <1>9, <1>10
  <2> QED  BY <2>2, <1>1, <1>2 DEF m
<1>14. Walks(v, u, C)
  BY <1>4, <1>7, <1>11, <1>12 DEF Walks
<1>15. C[Len(u) + 1] = c
  BY <1>4, <1>13
<1> QED  BY <1>4, <1>13, <1>14, <1>15 DEF Flows, u

\* A walk goes on by one instruction.
LEMMA FlowExtend ==
  ASSUME NEW v, NEW S, NEW s \in Seq(S), NEW u \in Seq(S), NEW a, NEW b, NEW c,
         Len(u) = Len(s) + 1, \A k \in 1 .. Len(s) : u[k] = s[k],
         Flows(v, s, a, b), Stepped(v, u[Len(u)], b, c)
  PROVE  Flows(v, u, a, c)
<1> DEFINE i == u[Len(u)]
           t == s \o <<i>>
<1>1. Len(u) \in 1 .. Len(u) /\ i \in S /\ <<i>> \in Seq(S) /\ Len(<<i>>) = 1 /\ <<i>>[1] = i
  OBVIOUS
<1>2. t \in Seq(S) /\ Len(t) = Len(s) + 1 /\ \A k \in 1 .. Len(s) + 1 : t[k] = IF k <= Len(s) THEN s[k] ELSE <<i>>[k - Len(s)]
  BY <1>1, ConcatProperties
<1>3. \A k \in 1 .. Len(t) : t[k] = u[k]
  <2> SUFFICES ASSUME NEW k \in 1 .. Len(s) + 1 PROVE t[k] = u[k]
    BY <1>2
  <2>1. CASE k <= Len(s)
    <3>1. k \in 1 .. Len(s)
      BY <2>1
    <3> QED  BY <2>1, <3>1, <1>2
  <2>2. CASE k = Len(s) + 1
    <3>1. ~ (k <= Len(s)) /\ k - Len(s) = 1 /\ k = Len(u)
      BY <2>2
    <3> HIDE DEF t
    <3> QED  BY <3>1, <1>1, <1>2
  <2> QED  BY <2>1, <2>2
<1>4. t = u
  <2> HIDE DEF t
  <2> QED  BY <1>2, <1>3, SeqEqual
<1>5. Flows(v, <<i>>, b, c)
  BY FlowOne
<1> QED  BY <1>4, <1>5, FlowJoin

\* Two instructions.
LEMMA FlowTwo ==
  ASSUME NEW v, NEW i, NEW j, NEW a, NEW b, NEW c, Stepped(v, i, a, b), Stepped(v, j, b, c)
  PROVE  Flows(v, <<i, j>>, a, c)
<1> DEFINE s == <<i>>
           u == <<i, j>>
           S == {i, j}
<1>1. s \in Seq(S) /\ u \in Seq(S) /\ Len(s) = 1 /\ Len(u) = 2 /\ u[1] = s[1] /\ u[2] = j
  OBVIOUS
<1>2. Flows(v, s, a, b)
  BY FlowOne
<1> HIDE DEF s, u, S
<1>3. \A k \in 1 .. Len(s) : u[k] = s[k]
  BY <1>1
<1>4. Len(u) = Len(s) + 1 /\ Stepped(v, u[Len(u)], b, c)
  BY <1>1
<1>5. Flows(v, u, a, c)
  BY <1>1, <1>2, <1>3, <1>4, FlowExtend
<1> QED  BY <1>5 DEF u

\* Three instructions.
LEMMA FlowThree ==
  ASSUME NEW v, NEW i, NEW j, NEW k, NEW a, NEW b, NEW c, NEW d,
         Stepped(v, i, a, b), Stepped(v, j, b, c), Stepped(v, k, c, d)
  PROVE  Flows(v, <<i, j, k>>, a, d)
<1> DEFINE s == <<i, j>>
           u == <<i, j, k>>
           S == {i, j, k}
<1>1. s \in Seq(S) /\ u \in Seq(S) /\ Len(s) = 2 /\ Len(u) = 3 /\ u[1] = s[1] /\ u[2] = s[2] /\ u[3] = k
  OBVIOUS
<1>2. Flows(v, s, a, c)
  BY FlowTwo
<1> HIDE DEF s, u, S
<1>3. \A n \in 1 .. Len(s) : u[n] = s[n]
  <2>1. \A n \in 1 .. Len(s) : n = 1 \/ n = 2
    BY <1>1
  <2> QED  BY <1>1, <2>1
<1>4. Len(u) = Len(s) + 1 /\ Stepped(v, u[Len(u)], c, d)
  BY <1>1
<1>5. Flows(v, u, a, d)
  BY <1>1, <1>2, <1>3, <1>4, FlowExtend
<1> QED  BY <1>5 DEF u

\* Four instructions.
LEMMA FlowFour ==
  ASSUME NEW v, NEW i, NEW j, NEW k, NEW l, NEW a, NEW b, NEW c, NEW d, NEW e,
         Stepped(v, i, a, b), Stepped(v, j, b, c), Stepped(v, k, c, d), Stepped(v, l, d, e)
  PROVE  Flows(v, <<i, j, k, l>>, a, e)
<1> DEFINE s == <<i, j, k>>
           u == <<i, j, k, l>>
           S == {i, j, k, l}
<1>1. s \in Seq(S) /\ u \in Seq(S) /\ Len(s) = 3 /\ Len(u) = 4
      /\ u[1] = s[1] /\ u[2] = s[2] /\ u[3] = s[3] /\ u[4] = l
  OBVIOUS
<1>2. Flows(v, s, a, d)
  BY FlowThree
<1> HIDE DEF s, u, S
<1>3. \A n \in 1 .. Len(s) : u[n] = s[n]
  <2>1. \A n \in 1 .. Len(s) : n = 1 \/ n = 2 \/ n = 3
    BY <1>1
  <2> QED  BY <1>1, <2>1
<1>4. Len(u) = Len(s) + 1 /\ Stepped(v, u[Len(u)], d, e)
  BY <1>1
<1>5. Flows(v, u, a, e)
  BY <1>1, <1>2, <1>3, <1>4, FlowExtend
<1> QED  BY <1>5 DEF u

\* Six instructions.
LEMMA FlowSix ==
  ASSUME NEW v, NEW i, NEW j, NEW k, NEW l, NEW m, NEW n,
         NEW a, NEW b, NEW c, NEW d, NEW e, NEW f, NEW g,
         Stepped(v, i, a, b), Stepped(v, j, b, c), Stepped(v, k, c, d),
         Stepped(v, l, d, e), Stepped(v, m, e, f), Stepped(v, n, f, g)
  PROVE  Flows(v, <<i, j, k, l, m, n>>, a, g)
<1> DEFINE s == <<i, j, k, l>>
           t == <<i, j, k, l, m>>
           u == <<i, j, k, l, m, n>>
           S == {i, j, k, l, m, n}
<1>1. s \in Seq(S) /\ t \in Seq(S) /\ u \in Seq(S) /\ Len(s) = 4 /\ Len(t) = 5 /\ Len(u) = 6
  OBVIOUS
<1>2. /\ t[1] = s[1] /\ t[2] = s[2] /\ t[3] = s[3] /\ t[4] = s[4] /\ t[5] = m
      /\ u[1] = t[1] /\ u[2] = t[2] /\ u[3] = t[3] /\ u[4] = t[4] /\ u[5] = t[5] /\ u[6] = n
  OBVIOUS
<1>3. Flows(v, s, a, e)
  BY FlowFour
<1> HIDE DEF s, t, u, S
<1>4. Flows(v, t, a, f)
  <2>1. \A x \in 1 .. Len(s) : t[x] = s[x]
    <3>1. \A x \in 1 .. Len(s) : x = 1 \/ x = 2 \/ x = 3 \/ x = 4
      BY <1>1
    <3> QED  BY <1>2, <3>1
  <2>2. Len(t) = Len(s) + 1 /\ Stepped(v, t[Len(t)], e, f)
    BY <1>1, <1>2
  <2> QED  BY <1>1, <1>3, <2>1, <2>2, FlowExtend
<1>5. \A x \in 1 .. Len(t) : u[x] = t[x]
  <2>1. \A x \in 1 .. Len(t) : x = 1 \/ x = 2 \/ x = 3 \/ x = 4 \/ x = 5
    BY <1>1
  <2> QED  BY <1>2, <2>1
<1>6. Len(u) = Len(t) + 1 /\ Stepped(v, u[Len(u)], f, g)
  BY <1>1, <1>2
<1>7. Flows(v, u, a, g)
  BY <1>1, <1>4, <1>5, <1>6, FlowExtend
<1> QED  BY <1>7 DEF u

-------------------------------------------------------------------------------
(* The rules apply: instructions that change one register.                 *)

Fit(v, a) == a \in Syms /\ Stable(v, a) /\ a.reg["RSP"].t # "lit"

\* b differs from a in registers only.
Same(a, b) ==
  /\ b.slot = a.slot /\ b.ptr = a.ptr /\ b.ent = a.ent /\ b.mir = a.mir
  /\ b.pk = a.pk /\ b.zf = a.zf /\ b.open = a.open /\ b.fresh = a.fresh

\* b is a with x in register r.
Has(a, b, r, x) ==
  Same(a, b) /\ \A q \in Regs : b.reg[q] = IF q = r THEN x ELSE a.reg[q]

\* The symbolic values are values.
LEMMA ValueFacts ==
  /\ Any \in Values /\ Base \in Values /\ Unset \in Values /\ Ra \in Values /\ Old \in Values
  /\ Now \in Values /\ Diff \in Values /\ Choice \in Values /\ Sure \in Values
  /\ \A n \in Int : Lit(n) \in Values /\ Ptr(n) \in Values
  /\ \A q \in Regs, n \in Int : Want(q, n) \in Values
  /\ Here \in Values
BY DEF Any, Base, Unset, Ra, Old, Now, Diff, Choice, Sure, Lit, Ptr, Want, Here, Tagged, Values, Tags, Regs

\* Their tags and numbers.
LEMMA TagFacts ==
  /\ \A q, n : Want(q, n).t = "want"
  /\ \A n : Lit(n).t = "lit" /\ Ptr(n).t = "ptr"
  /\ Choice.t = "choice" /\ Sure.t = "sure" /\ Here.t = "want"
BY DEF Want, Lit, Ptr, Choice, Sure, Here, Tagged

\* The registers by name.
LEMMA RegFacts ==
  /\ "RAX" \in Free /\ "RCX" \in Free /\ "RDX" \in Free /\ "R10" \in Free /\ "R11" \in Free
  /\ "RAX" \in Regs /\ "RCX" \in Regs /\ "RDX" \in Regs /\ "R10" \in Regs /\ "R11" \in Regs
  /\ "R15" \in Regs /\ "RSP" \in Regs /\ "GS" \in Regs
  /\ \A r \in Free : r \in Regs /\ r # "RSP" /\ r # "R15" /\ r # "GS"
BY DEF Free, Regs

\* Giving one register a value.
LEMMA HoldFacts ==
  ASSUME NEW a \in Syms, NEW r \in Regs, NEW x \in Values
  PROVE  Hold(a, r, x) \in Syms /\ Has(a, Hold(a, r, x), r, x)
BY DEF Hold, Syms, Same, Has

\* A note with the same slots, pointer and rsp is stable too.
LEMMA SameStable ==
  ASSUME NEW v, NEW a, NEW b, Stable(v, a), Same(a, b),
         b.reg["RSP"] = a.reg["RSP"], b.reg["R15"] = a.reg["R15"]
  PROVE  Stable(v, b)
<1>1. Top(v, b) = Top(v, a)
  BY DEF Top, Same
<1>2. b.slot = a.slot /\ b.ent = a.ent /\ b.open = a.open
  BY DEF Same
<1> QED  BY <1>1, <1>2 DEF Stable

\* A register other than rsp, gs and r15 may be given any value.
LEMMA HoldFree ==
  ASSUME NEW v, NEW a, Fit(v, a), NEW r \in Free, NEW x \in Values
  PROVE  Fit(v, Hold(a, r, x)) /\ Has(a, Hold(a, r, x), r, x)
<1>1. r \in Regs /\ r # "RSP" /\ r # "R15" /\ a \in Syms /\ "RSP" \in Regs /\ "R15" \in Regs
  BY RegFacts DEF Fit
<1>2. PICK b : b = Hold(a, r, x)
  OBVIOUS
<1>3. b \in Syms /\ Has(a, b, r, x)
  BY <1>1, <1>2, HoldFacts
<1>4. Same(a, b) /\ b.reg["RSP"] = a.reg["RSP"] /\ b.reg["R15"] = a.reg["R15"]
  BY <1>1, <1>3 DEF Has
<1>5. Stable(v, b)
  BY <1>4, SameStable DEF Fit
<1> QED  BY <1>2, <1>3, <1>4, <1>5 DEF Fit

\* The steps that change one free register.
LEMMA StepFree ==
  ASSUME NEW v, NEW a, Fit(v, a), NEW i, NEW r \in Free, NEW x \in Values, Rule(v, i, a, Hold(a, r, x))
  PROVE  \E b : Stepped(v, i, a, b) /\ Fit(v, b) /\ Has(a, b, r, x)
<1>1. Fit(v, Hold(a, r, x)) /\ Has(a, Hold(a, r, x), r, x)
  BY HoldFree
<1> QED  BY <1>1 DEF Stepped, Plain, Fit

\* mov copies a value the caller left.
LEMMA StepMov ==
  ASSUME NEW v, NEW a, Fit(v, a), NEW r \in Free, NEW s \in Regs, a.reg[s].t = "want"
  PROVE  \E b : Stepped(v, <<"mov", r, s>>, a, b) /\ Fit(v, b) /\ Has(a, b, r, a.reg[s])
<1>1. a.reg[s] \in Values
  BY DEF Fit, Syms
<1>2. Rule(v, <<"mov", r, s>>, a, Hold(a, r, a.reg[s]))
  <2>1. RMov(v, <<"mov", r, s>>, a, Hold(a, r, a.reg[s]))
    BY DEF RMov
  <2> QED  BY <2>1 DEF Rule
<1> QED  BY <1>1, <1>2, StepFree

\* A constant in a register.
LEMMA StepImm ==
  ASSUME NEW v, NEW a, Fit(v, a), NEW r \in Free, NEW n, n \in {0, 8, ShadowBase}
  PROVE  \E b : Stepped(v, <<"imm", r, n>>, a, b) /\ Fit(v, b) /\ Has(a, b, r, Lit(n))
<1>1. Lit(n) \in Values
  BY ValueFacts, LayoutAssumption
<1>2. Rule(v, <<"imm", r, n>>, a, Hold(a, r, Lit(n)))
  <2>1. RImm(v, <<"imm", r, n>>, a, Hold(a, r, Lit(n)))
    BY DEF RImm, OpenAll, WriteProt
  <2> QED  BY <2>1 DEF Rule
<1> QED  BY <1>1, <1>2, StepFree

\* b is a with another protection.
Keyed(a, b, pk) ==
  /\ b.reg = a.reg /\ b.slot = a.slot /\ b.ptr = a.ptr /\ b.ent = a.ent /\ b.mir = a.mir
  /\ b.zf = a.zf /\ b.open = a.open /\ b.fresh = a.fresh /\ b.pk = pk

\* WRPKRU opens or locks the shadow stack.
LEMMA StepWrpkru ==
  ASSUME NEW v, NEW a, Fit(v, a), v.mpk, NEW n, n \in {0, 8}, a.reg["RAX"] = Lit(n)
  PROVE  \E b : Stepped(v, <<"wrpkru">>, a, b) /\ Fit(v, b) /\ Keyed(a, b, IF n = 0 THEN "open" ELSE "lock")
<1> DEFINE pk == IF n = 0 THEN "open" ELSE "lock"
<1>1. PICK b : b = [a EXCEPT !.pk = pk]
  OBVIOUS
<1>2. b \in Syms /\ Keyed(a, b, pk)
  BY <1>1 DEF Fit, Syms, Keyed
<1>3. RWrpkru(v, <<"wrpkru">>, a, b)
  BY <1>1 DEF RWrpkru, OpenAll, WriteProt
<1> HIDE DEF pk
<1>4. Stable(v, b)
  BY <1>2 DEF Fit, Stable, Top, Keyed
<1>5. Stepped(v, <<"wrpkru">>, a, b) /\ Fit(v, b)
  BY <1>2, <1>3, <1>4 DEF Stepped, Plain, Rule, Fit, Keyed
<1> QED  BY <1>2, <1>5 DEF pk

\* SaveArgs keeps rcx and rdx in r10 and r11.
LEMMA FlowSaveArgs ==
  ASSUME NEW v, NEW a, Fit(v, a), a.reg["RCX"].t = "want", a.reg["RDX"].t = "want"
  PROVE  \E b : /\ Flows(v, SaveArgs, a, b) /\ Fit(v, b) /\ Same(a, b)
                /\ \A q \in Regs : b.reg[q] = IF q = "R10" THEN a.reg["RCX"]
                                              ELSE IF q = "R11" THEN a.reg["RDX"] ELSE a.reg[q]
<1>1. PICK c : Stepped(v, <<"mov", "R10", "RCX">>, a, c) /\ Fit(v, c) /\ Has(a, c, "R10", a.reg["RCX"])
  BY RegFacts, StepMov
<1>2. c.reg["RDX"] = a.reg["RDX"]
  BY <1>1, RegFacts DEF Has
<1>3. PICK b : Stepped(v, <<"mov", "R11", "RDX">>, c, b) /\ Fit(v, b) /\ Has(c, b, "R11", c.reg["RDX"])
  BY <1>1, <1>2, RegFacts, StepMov
<1>4. Flows(v, SaveArgs, a, b)
  BY <1>1, <1>3, FlowTwo DEF SaveArgs
<1>5. Same(a, b)
  BY <1>1, <1>3 DEF Same, Has
<1>6. \A q \in Regs : b.reg[q] = IF q = "R10" THEN a.reg["RCX"] ELSE IF q = "R11" THEN a.reg["RDX"] ELSE a.reg[q]
  BY <1>1, <1>2, <1>3 DEF Has
<1> QED  BY <1>3, <1>4, <1>5, <1>6

\* RestoreArgs gives them back.
LEMMA FlowRestoreArgs ==
  ASSUME NEW v, NEW a, Fit(v, a), a.reg["R10"].t = "want", a.reg["R11"].t = "want"
  PROVE  \E b : /\ Flows(v, RestoreArgs, a, b) /\ Fit(v, b) /\ Same(a, b)
                /\ \A q \in Regs : b.reg[q] = IF q = "RCX" THEN a.reg["R10"]
                                              ELSE IF q = "RDX" THEN a.reg["R11"] ELSE a.reg[q]
<1>1. PICK c : Stepped(v, <<"mov", "RCX", "R10">>, a, c) /\ Fit(v, c) /\ Has(a, c, "RCX", a.reg["R10"])
  BY RegFacts, StepMov
<1>2. c.reg["R11"] = a.reg["R11"]
  BY <1>1, RegFacts DEF Has
<1>3. PICK b : Stepped(v, <<"mov", "RDX", "R11">>, c, b) /\ Fit(v, b) /\ Has(c, b, "RDX", c.reg["R11"])
  BY <1>1, <1>2, RegFacts, StepMov
<1>4. Flows(v, RestoreArgs, a, b)
  BY <1>1, <1>3, FlowTwo DEF RestoreArgs
<1>5. Same(a, b)
  BY <1>1, <1>3 DEF Same, Has
<1>6. \A q \in Regs : b.reg[q] = IF q = "RCX" THEN a.reg["R10"] ELSE IF q = "RDX" THEN a.reg["R11"] ELSE a.reg[q]
  BY <1>1, <1>2, <1>3 DEF Has
<1> QED  BY <1>3, <1>4, <1>5, <1>6

\* b is a with other registers and another protection.
Locks(a, b, pk) ==
  /\ b.slot = a.slot /\ b.ptr = a.ptr /\ b.ent = a.ent /\ b.mir = a.mir
  /\ b.zf = a.zf /\ b.open = a.open /\ b.fresh = a.fresh /\ b.pk = pk

\* WRPKRUI(OpenAll) opens the shadow stack.
LEMMA FlowUnlock ==
  ASSUME NEW v, NEW a, Fit(v, a), v.mpk
  PROVE  \E b : /\ Flows(v, WRPKRUI(OpenAll), a, b) /\ Fit(v, b) /\ Locks(a, b, "open")
                /\ \A q \in Regs : b.reg[q] = IF q \in {"RAX", "RCX", "RDX"} THEN Lit(0) ELSE a.reg[q]
<1>1. PICK c : Stepped(v, <<"imm", "RAX", 0>>, a, c) /\ Fit(v, c) /\ Has(a, c, "RAX", Lit(0))
  BY RegFacts, StepImm
<1>2. PICK d : Stepped(v, <<"imm", "RCX", 0>>, c, d) /\ Fit(v, d) /\ Has(c, d, "RCX", Lit(0))
  BY <1>1, RegFacts, StepImm
<1>3. PICK e : Stepped(v, <<"imm", "RDX", 0>>, d, e) /\ Fit(v, e) /\ Has(d, e, "RDX", Lit(0))
  BY <1>2, RegFacts, StepImm
<1>4. e.reg["RAX"] = Lit(0)
  BY <1>1, <1>2, <1>3, RegFacts DEF Has
<1>5. PICK b : Stepped(v, <<"wrpkru">>, e, b) /\ Fit(v, b) /\ Keyed(e, b, "open")
  BY <1>3, <1>4, StepWrpkru
<1>6. Flows(v, WRPKRUI(OpenAll), a, b)
  BY <1>1, <1>2, <1>3, <1>5, FlowFour DEF WRPKRUI, OpenAll
<1>7. Locks(a, b, "open")
  BY <1>1, <1>2, <1>3, <1>5 DEF Same, Has, Locks, Keyed
<1>8. \A q \in Regs : b.reg[q] = IF q \in {"RAX", "RCX", "RDX"} THEN Lit(0) ELSE a.reg[q]
  BY <1>1, <1>2, <1>3, <1>5 DEF Has, Keyed
<1> QED  BY <1>5, <1>6, <1>7, <1>8

\* Protect locks it again.
LEMMA FlowProtect ==
  ASSUME NEW v, NEW a, Fit(v, a), v.mpk
  PROVE  \E b : /\ Flows(v, Protect, a, b) /\ Fit(v, b) /\ Locks(a, b, "lock")
                /\ \A q \in Regs : b.reg[q] = IF q = "RAX" THEN Lit(WriteProt) ELSE a.reg[q]
<1>1. PICK c : Stepped(v, <<"imm", "RAX", 8>>, a, c) /\ Fit(v, c) /\ Has(a, c, "RAX", Lit(8))
  BY RegFacts, StepImm
<1>2. c.reg["RAX"] = Lit(8)
  BY <1>1, RegFacts DEF Has
<1>3. PICK b : Stepped(v, <<"wrpkru">>, c, b) /\ Fit(v, b) /\ Keyed(c, b, "lock")
  BY <1>1, <1>2, StepWrpkru
<1>4. Flows(v, Protect, a, b)
  BY <1>1, <1>3, FlowTwo DEF Protect, WriteProt
<1>5. Locks(a, b, "lock")
  BY <1>1, <1>3 DEF Same, Has, Locks, Keyed
<1>6. \A q \in Regs : b.reg[q] = IF q = "RAX" THEN Lit(WriteProt) ELSE a.reg[q]
  BY <1>1, <1>3 DEF Has, Keyed, WriteProt
<1> QED  BY <1>3, <1>4, <1>5, <1>6

-------------------------------------------------------------------------------
(* Pushing an entry.                                                       *)

\* The return address is loaded into a register.
LEMMA StepLoadRet ==
  ASSUME NEW v, NEW a, Fit(v, a), NEW r \in Free, a.reg["RSP"] = Here
  PROVE  \E b : /\ Stepped(v, <<"load", r, "RSP", 0>>, a, b) /\ Fit(v, b)
                /\ Has(a, b, r, IF a.fresh THEN Ra ELSE Now)
<1> DEFINE x == IF a.fresh THEN Ra ELSE Now
<1>1. x \in Values
  BY ValueFacts
<1>2. Rule(v, <<"load", r, "RSP", 0>>, a, Hold(a, r, x))
  <2>1. RLoadRet(v, <<"load", r, "RSP", 0>>, a, Hold(a, r, x))
    BY DEF RLoadRet
  <2> QED  BY <2>1 DEF Rule
<1> HIDE DEF x
<1>3. \E b : Stepped(v, <<"load", r, "RSP", 0>>, a, b) /\ Fit(v, b) /\ Has(a, b, r, x)
  BY <1>1, <1>2, StepFree
<1> QED  BY <1>3 DEF x

\* The shadow stack pointer is loaded.
LEMMA StepLoadPtr ==
  ASSUME NEW v, NEW a, Fit(v, a), NEW r \in Free, NEW s \in {"GS", "RDX"},
         Stacked(v), a.reg[s] = Lit(ShadowBase), Reads(v, a)
  PROVE  \E b : /\ Stepped(v, <<"load", r, s, 0>>, a, b) /\ Fit(v, b) /\ Has(a, b, r, Ptr(a.ptr))
<1>1. Ptr(a.ptr) \in Values
  BY ValueFacts DEF Fit, Syms
<1>2. Rule(v, <<"load", r, s, 0>>, a, Hold(a, r, Ptr(a.ptr)))
  <2>1. RLoadPtr(v, <<"load", r, s, 0>>, a, Hold(a, r, Ptr(a.ptr)))
    BY DEF RLoadPtr
  <2> QED  BY <2>1 DEF Rule
<1> QED  BY <1>1, <1>2, StepFree

\* b is a with x in register r and its entry so far stored.
Stores(a, b, r, x, ent, open) ==
  /\ \A q \in Regs : b.reg[q] = IF q = r THEN x ELSE a.reg[q]
  /\ b.slot = a.slot /\ b.ptr = a.ptr /\ b.ent = ent /\ b.mir = a.mir
  /\ b.pk = a.pk /\ b.zf = a.zf /\ b.open = open /\ b.fresh = a.fresh

\* The first word of the entry is stored: its window opens.
LEMMA StepStoreRa ==
  ASSUME NEW v, NEW a, Fit(v, a), NEW r \in {"R15", "R10", "RCX"}, ~Mirrored(v),
         <<"store", r, 0, "RAX">> \in Opens(v), r = "R15" => v.scheme = "REG",
         a.reg["RAX"] = Ra, a.reg[r] \in {Base, Ptr(0)}, Writes(v, a), Top(v, a) = 0
  PROVE  \E b : /\ Stepped(v, <<"store", r, 0, "RAX">>, a, b) /\ Fit(v, b)
                /\ Stores(a, b, r, Ptr(0), 1, TRUE)
<1> DEFINE i == <<"store", r, 0, "RAX">>
<1>0. r \in Regs /\ r # "RSP" /\ Ptr(0) \in Values /\ a \in Syms
  BY ValueFacts, RegFacts DEF Fit
<1>1. PICK h : h = Hold(a, r, Ptr(0))
  OBVIOUS
<1>2. h \in Syms /\ Has(a, h, r, Ptr(0))
  BY <1>0, <1>1, HoldFacts
<1>3. PICK b : b = [h EXCEPT !.ent = 1, !.open = TRUE]
  OBVIOUS
<1>4. b \in Syms /\ Stores(h, b, r, Ptr(0), 1, TRUE)
  BY <1>0, <1>2, <1>3 DEF Syms, Stores, Has
<1>5. Stores(a, b, r, Ptr(0), 1, TRUE)
  BY <1>2, <1>4 DEF Stores, Has, Same
<1>6. RStoreRa(v, i, a, b)
  BY <1>1, <1>3 DEF RStoreRa
<1>7. Top(v, b) = 0
  <2>1. CASE v.scheme = "REG"
    <3>1. b.reg["R15"] = Ptr(0) \/ b.reg["R15"] = a.reg["R15"]
      BY <1>5, RegFacts DEF Stores
    <3> QED  BY <3>1, <2>1 DEF Top, Ptr
  <2>2. CASE v.scheme # "REG"
    BY <1>5, <2>2 DEF Top, Stores
  <2> QED  BY <2>1, <2>2
<1>8. Stable(v, b) /\ b.reg["RSP"].t # "lit"
  <2>1. b.slot = a.slot /\ b.open = TRUE /\ b.reg["RSP"] = a.reg["RSP"]
    BY <1>0, <1>5, RegFacts DEF Stores
  <2> QED  BY <2>1, <1>7 DEF Stable, Fit
<1>9. Stepped(v, i, a, b) /\ Fit(v, b)
  BY <1>4, <1>6, <1>8 DEF Stepped, Plain, Rule, Fit
<1> QED  BY <1>5, <1>9

\* The second word is stored.
LEMMA StepStoreSp ==
  ASSUME NEW v, NEW a, Fit(v, a), NEW r \in {"R15", "R10", "RCX"}, ~Mirrored(v),
         a.reg["RSP"] = Here, a.reg[r] = Ptr(0), Writes(v, a), Top(v, a) = 0, a.open, a.ent = 1
  PROVE  \E b : /\ Stepped(v, <<"store", r, 1, "RSP">>, a, b) /\ Fit(v, b)
                /\ Stores(a, b, r, Ptr(0), 2, TRUE)
<1> DEFINE i == <<"store", r, 1, "RSP">>
<1>1. PICK b : b = [a EXCEPT !.ent = 2]
  OBVIOUS
<1>2. b \in Syms /\ b.reg = a.reg /\ b.slot = a.slot /\ b.ptr = a.ptr /\ b.ent = 2 /\ b.mir = a.mir
      /\ b.pk = a.pk /\ b.zf = a.zf /\ b.open = a.open /\ b.fresh = a.fresh
  BY <1>1 DEF Syms, Fit
<1>3. Stores(a, b, r, Ptr(0), 2, TRUE)
  <2>1. a.open = TRUE
    BY DEF Fit, Syms
  <2> QED  BY <2>1, <1>2, RegFacts DEF Stores
<1>4. RStoreSp(v, i, a, b)
  BY <1>1 DEF RStoreSp
<1>5. Stable(v, b)
  BY <1>2 DEF Stable, Fit, Top
<1>6. Stepped(v, i, a, b) /\ Fit(v, b)
  BY <1>2, <1>4, <1>5 DEF Stepped, Plain, Rule, Fit
<1> QED  BY <1>3, <1>6

\* r15 moves past the entry: the window closes.
LEMMA StepForth ==
  ASSUME NEW v, NEW a, Fit(v, a), v.scheme = "REG", a.reg["R15"] = Ptr(0)
  PROVE  \E b : /\ Stepped(v, <<"add", "R15", 2>>, a, b) /\ Fit(v, b)
                /\ Stores(a, b, "R15", Ptr(2), a.ent, FALSE)
<1> DEFINE i == <<"add", "R15", 2>>
<1>0. "R15" \in Regs /\ Ptr(2) \in Values /\ a \in Syms
  BY ValueFacts, RegFacts DEF Fit
<1>1. PICK h : h = Hold(a, "R15", Ptr(2))
  OBVIOUS
<1>2. h \in Syms /\ Has(a, h, "R15", Ptr(2))
  BY <1>0, <1>1, HoldFacts
<1>3. PICK b : b = [h EXCEPT !.open = FALSE]
  OBVIOUS
<1>4. b \in Syms /\ Stores(h, b, "R15", Ptr(2), h.ent, FALSE)
  BY <1>0, <1>2, <1>3 DEF Syms, Stores, Has
<1>5. Stores(a, b, "R15", Ptr(2), a.ent, FALSE)
  BY <1>2, <1>4 DEF Stores, Has, Same
<1>6. RForth(v, i, a, b)
  BY <1>1, <1>3 DEF RForth
<1>7. Top(v, b) = 2
  BY <1>0, <1>5 DEF Top, Stores, Ptr
<1>8. Stable(v, b) /\ b.reg["RSP"].t # "lit"
  <2>1. b.slot = a.slot /\ b.reg["RSP"] = a.reg["RSP"]
    BY <1>5, RegFacts DEF Stores
  <2> QED  BY <2>1, <1>7 DEF Stable, Fit
<1>9. Stepped(v, i, a, b) /\ Fit(v, b)
  BY <1>4, <1>6, <1>8 DEF Stepped, Plain, Rule, Fit
<1> QED  BY <1>5, <1>9

\* The entry is pushed: what a prolog leaves, with and without pkeys.
Pushes(v, a, b) ==
  /\ b.slot = a.slot /\ b.mir = a.mir /\ b.pk = a.pk /\ b.zf = a.zf /\ b.fresh = a.fresh
  /\ b.ent = 2 /\ ~b.open /\ Top(v, b) = 2

\* REG's prolog pushes an entry.
LEMMA FlowPushReg ==
  ASSUME NEW v, NEW a, Fit(v, a), v.scheme = "REG", a.reg["RSP"] = Here, a.fresh,
         a.reg["R15"] \in {Base, Ptr(0)}, Writes(v, a)
  PROVE  \E b : /\ Flows(v, PushReg, a, b) /\ Fit(v, b) /\ Pushes(v, a, b)
                /\ \A q \in Regs : b.reg[q] = IF q = "RAX" THEN Ra ELSE IF q = "R15" THEN Ptr(2) ELSE a.reg[q]
<1>0. ~Mirrored(v) /\ <<"store", "R15", 0, "RAX">> \in Opens(v)
  BY DEF Mirrored, Opens
<1>1. PICK c : Stepped(v, <<"load", "RAX", "RSP", 0>>, a, c) /\ Fit(v, c) /\ Has(a, c, "RAX", Ra)
  BY RegFacts, StepLoadRet
<1>2. c.reg["RAX"] = Ra /\ c.reg["R15"] = a.reg["R15"] /\ c.reg["RSP"] = Here /\ Writes(v, c) /\ Top(v, c) = 0
  <2>1. c.reg["RAX"] = Ra /\ c.reg["R15"] = a.reg["R15"] /\ c.reg["RSP"] = Here /\ c.pk = a.pk
    BY <1>1, RegFacts DEF Has, Same
  <2> QED  BY <2>1 DEF Writes, Top, Ptr, Base, Tagged
<1>3. PICK d : Stepped(v, <<"store", "R15", 0, "RAX">>, c, d) /\ Fit(v, d) /\ Stores(c, d, "R15", Ptr(0), 1, TRUE)
  BY <1>0, <1>1, <1>2, StepStoreRa
<1>4. d.reg["R15"] = Ptr(0) /\ d.reg["RSP"] = Here /\ Writes(v, d) /\ Top(v, d) = 0 /\ d.open /\ d.ent = 1
  <2>1. d.reg["R15"] = Ptr(0) /\ d.reg["RSP"] = Here /\ d.pk = c.pk /\ d.open /\ d.ent = 1
    BY <1>2, <1>3, RegFacts DEF Stores
  <2> QED  BY <2>1, <1>2 DEF Writes, Top, Ptr
<1>5. PICK e : Stepped(v, <<"store", "R15", 1, "RSP">>, d, e) /\ Fit(v, e) /\ Stores(d, e, "R15", Ptr(0), 2, TRUE)
  BY <1>0, <1>3, <1>4, StepStoreSp
<1>6. e.reg["R15"] = Ptr(0)
  BY <1>5, RegFacts DEF Stores
<1>7. PICK b : Stepped(v, <<"add", "R15", 2>>, e, b) /\ Fit(v, b) /\ Stores(e, b, "R15", Ptr(2), e.ent, FALSE)
  BY <1>5, <1>6, StepForth
<1>8. Flows(v, PushReg, a, b)
  BY <1>1, <1>3, <1>5, <1>7, FlowFour DEF PushReg
<1>9. b.reg["R15"] = Ptr(2)
  BY <1>7, RegFacts DEF Stores
<1>10. Pushes(v, a, b)
  <2>1. Top(v, b) = 2
    BY <1>9 DEF Top, Ptr
  <2> QED  BY <2>1, <1>1, <1>3, <1>5, <1>7 DEF Pushes, Stores, Has, Same
<1>11. \A q \in Regs : b.reg[q] = IF q = "RAX" THEN Ra ELSE IF q = "R15" THEN Ptr(2) ELSE a.reg[q]
  BY <1>1, <1>3, <1>5, <1>7 DEF Stores, Has
<1> QED  BY <1>7, <1>8, <1>10, <1>11

\* The pointer moves: what the two ways to store it leave.
Points(a, b, ptr, open) ==
  /\ b.reg = a.reg /\ b.slot = a.slot /\ b.ptr = ptr /\ b.ent = a.ent /\ b.mir = a.mir
  /\ b.pk = a.pk /\ b.zf = a.zf /\ b.open = open /\ b.fresh = a.fresh

\* A moved pointer keeps a note stable.
LEMMA PointsFit ==
  ASSUME NEW v, NEW a, Fit(v, a), Stacked(v), NEW ptr \in {0, 2}, NEW open \in BOOLEAN,
         a.ent > 0 => open \/ ptr = 2,
         NEW b, b = [a EXCEPT !.ptr = ptr, !.open = open]
  PROVE  Fit(v, b) /\ Points(a, b, ptr, open)
<1>1. b \in Syms /\ Points(a, b, ptr, open)
  BY DEF Fit, Syms, Points
<1>2. Top(v, b) = ptr
  BY <1>1 DEF Top, Points, Stacked
<1>3. Stable(v, b)
  BY <1>1, <1>2 DEF Fit, Stable, Points
<1> QED  BY <1>1, <1>3 DEF Fit

\* SEG's pointer is written back.
LEMMA StepStorePtr ==
  ASSUME NEW v, NEW a, Fit(v, a), NEW r \in {"R10", "RCX", "R11"}, v.scheme = "SEG",
         a.reg["GS"] = Lit(ShadowBase), Writes(v, a),
         a.reg[r] = IF r = "R11" THEN Ptr(0) ELSE Ptr(2),
         r # "R11" => <<"store", "GS", 0, r>> \in Closes(v)
  PROVE  \E b : /\ Stepped(v, <<"store", "GS", 0, r>>, a, b) /\ Fit(v, b)
                /\ Points(a, b, IF r = "R11" THEN 0 ELSE 2, r = "R11")
<1> DEFINE i == <<"store", "GS", 0, r>>
           ptr == IF r = "R11" THEN 0 ELSE 2
           open == r = "R11"
<1>1. PICK b : b = [a EXCEPT !.ptr = ptr, !.open = open]
  OBVIOUS
<1>2. a.reg[r].d = ptr
  BY DEF Ptr
<1>3. RStorePtr(v, i, a, b)
  BY <1>1, <1>2 DEF RStorePtr
<1>4. Stacked(v) /\ ptr \in {0, 2} /\ open \in BOOLEAN /\ (open \/ ptr = 2)
  BY DEF Stacked
<1> HIDE DEF ptr, open
<1>5. Fit(v, b) /\ Points(a, b, ptr, open)
  BY <1>1, <1>4, PointsFit
<1>6. Stepped(v, i, a, b)
  BY <1>3, <1>5 DEF Stepped, Plain, Rule, Fit
<1> QED  BY <1>5, <1>6 DEF ptr, open

\* MEM's pointer moves in place.
LEMMA StepAddPtr ==
  ASSUME NEW v, NEW a, Fit(v, a), v.scheme = "MEM", a.reg["RDX"] = Lit(ShadowBase), Writes(v, a),
         NEW n, NEW ptr, NEW open,
         \/ n = 2 /\ a.ptr = 0 /\ ptr = 2 /\ open = FALSE
         \/ n = -2 /\ a.ptr = 2 /\ ptr = 0 /\ open = TRUE
  PROVE  \E b : Stepped(v, <<"addm", "RDX", n>>, a, b) /\ Fit(v, b) /\ Points(a, b, ptr, open)
<1> DEFINE i == <<"addm", "RDX", n>>
<1>1. PICK b : b = [a EXCEPT !.ptr = ptr, !.open = open]
  OBVIOUS
<1>3. RAddPtr(v, i, a, b)
  BY <1>1 DEF RAddPtr
<1>4. Stacked(v) /\ ptr \in {0, 2} /\ open \in BOOLEAN /\ (open \/ ptr = 2)
  BY DEF Stacked
<1>5. Fit(v, b) /\ Points(a, b, ptr, open)
  BY <1>1, <1>4, PointsFit
<1>6. Stepped(v, i, a, b)
  BY <1>3, <1>5 DEF Stepped, Plain, Rule, Fit
<1> QED  BY <1>5, <1>6

\* A copy of the pointer moves by an entry.
LEMMA StepAdd ==
  ASSUME NEW v, NEW a, Fit(v, a), NEW r \in Free, NEW d, NEW n, NEW e, a.reg[r] = Ptr(d),
         \/ n = 2 /\ d = 0 /\ e = 2
         \/ n = -2 /\ d = 2 /\ e = 0
  PROVE  \E b : Stepped(v, <<"add", r, n>>, a, b) /\ Fit(v, b) /\ Has(a, b, r, Ptr(e))
<1>1. Ptr(e) \in Values /\ d + n = e /\ n \in {-2, 2}
  BY ValueFacts
<1>2. Rule(v, <<"add", r, n>>, a, Hold(a, r, Ptr(e)))
  <2>1. a.reg[r].t = "ptr" /\ a.reg[r].d = d
    BY DEF Ptr
  <2>2. RAdd(v, <<"add", r, n>>, a, Hold(a, r, Ptr(e)))
    BY <1>1, <2>1 DEF RAdd
  <2> QED  BY <2>2 DEF Rule
<1> QED  BY <1>1, <1>2, StepFree

\* SEG's prolog pushes an entry.
LEMMA FlowPushSeg ==
  ASSUME NEW v, NEW a, Fit(v, a), v.scheme = "SEG", a.reg["RSP"] = Here, a.fresh, Writes(v, a),
         a.reg["GS"] = Lit(ShadowBase), a.ptr = 0,
         NEW ra \in {"R10", "RCX"}, ra = Scratch(v)
  PROVE  \E b : /\ Flows(v, PushSeg(ra), a, b) /\ Fit(v, b) /\ Pushes(v, a, b)
                /\ \A q \in Regs : b.reg[q] = IF q = "RAX" THEN Ra ELSE IF q = ra THEN Ptr(2) ELSE a.reg[q]
<1>0. /\ ~Mirrored(v) /\ Stacked(v) /\ <<"store", ra, 0, "RAX">> \in Opens(v) /\ <<"store", "GS", 0, ra>> \in Closes(v)
      /\ ra \in Free /\ ra # "RAX" /\ ra # "R11" /\ ra \in {"R10", "RCX", "R11"} /\ ra \in {"R15", "R10", "RCX"} /\ ra # "R15" /\ ra # "RSP"
      /\ ra \in Regs /\ Reads(v, a) /\ ra # "GS"
  BY RegFacts DEF Mirrored, Stacked, Opens, Closes, Reads, Writes
<1>1. PICK c : Stepped(v, <<"load", "RAX", "RSP", 0>>, a, c) /\ Fit(v, c) /\ Has(a, c, "RAX", Ra)
  BY RegFacts, StepLoadRet
<1>2. c.reg["GS"] = Lit(ShadowBase) /\ Reads(v, c) /\ c.ptr = 0
  BY <1>0, <1>1, RegFacts DEF Has, Same, Reads
<1>3. PICK d : Stepped(v, <<"load", ra, "GS", 0>>, c, d) /\ Fit(v, d) /\ Has(c, d, ra, Ptr(c.ptr))
  BY <1>0, <1>1, <1>2, StepLoadPtr
<1>4. d.reg["RAX"] = Ra /\ d.reg[ra] = Ptr(0) /\ Writes(v, d) /\ Top(v, d) = 0
  BY <1>0, <1>1, <1>2, <1>3, RegFacts DEF Has, Same, Writes, Top, Stacked
<1>5. PICK e : Stepped(v, <<"store", ra, 0, "RAX">>, d, e) /\ Fit(v, e) /\ Stores(d, e, ra, Ptr(0), 1, TRUE)
  BY <1>0, <1>3, <1>4, StepStoreRa
<1>6. e.reg[ra] = Ptr(0) /\ e.reg["RSP"] = Here /\ Writes(v, e) /\ Top(v, e) = 0 /\ e.open /\ e.ent = 1
  BY <1>0, <1>1, <1>3, <1>4, <1>5, RegFacts DEF Has, Same, Stores, Writes, Top, Stacked
<1>7. PICK f : Stepped(v, <<"store", ra, 1, "RSP">>, e, f) /\ Fit(v, f) /\ Stores(e, f, ra, Ptr(0), 2, TRUE)
  BY <1>0, <1>5, <1>6, StepStoreSp
<1>8. f.reg[ra] = Ptr(0)
  BY <1>0, <1>7 DEF Stores
<1>9. PICK g : Stepped(v, <<"add", ra, 2>>, f, g) /\ Fit(v, g) /\ Has(f, g, ra, Ptr(2))
  BY <1>0, <1>7, <1>8, StepAdd
<1>10. \A q \in Regs : g.reg[q] = IF q = "RAX" THEN Ra ELSE IF q = ra THEN Ptr(2) ELSE a.reg[q]
  BY <1>0, <1>1, <1>3, <1>5, <1>7, <1>9 DEF Has, Stores
<1>11. g.reg["GS"] = Lit(ShadowBase) /\ g.reg[ra] = Ptr(2)
  BY <1>0, <1>10, RegFacts
<1>12. /\ g.pk = a.pk /\ g.slot = a.slot /\ g.mir = a.mir /\ g.zf = a.zf /\ g.fresh = a.fresh /\ g.ent = 2
  BY <1>1, <1>3, <1>5, <1>7, <1>9 DEF Has, Same, Stores
<1>13. Writes(v, g)
  BY <1>12 DEF Writes
<1>14. PICK b : Stepped(v, <<"store", "GS", 0, ra>>, g, b) /\ Fit(v, b) /\ Points(g, b, 2, FALSE)
  <2>1. \E b : /\ Stepped(v, <<"store", "GS", 0, ra>>, g, b) /\ Fit(v, b)
               /\ Points(g, b, IF ra = "R11" THEN 0 ELSE 2, ra = "R11")
    BY <1>0, <1>9, <1>11, <1>13, StepStorePtr
  <2> QED  BY <2>1, <1>0
<1>15. Flows(v, PushSeg(ra), a, b)
  BY <1>1, <1>3, <1>5, <1>7, <1>9, <1>14, FlowSix DEF PushSeg
<1>16. Pushes(v, a, b)
  BY <1>0, <1>12, <1>14 DEF Pushes, Points, Top, Stacked
<1>17. b.reg = g.reg
  BY <1>14 DEF Points
<1> QED  BY <1>10, <1>14, <1>15, <1>16, <1>17

\* MEM's prolog pushes an entry.
LEMMA FlowPushMem ==
  ASSUME NEW v, NEW a, Fit(v, a), v.scheme = "MEM", a.reg["RSP"] = Here, a.fresh, Writes(v, a), a.ptr = 0
  PROVE  \E b : /\ Flows(v, PushMem, a, b) /\ Fit(v, b) /\ Pushes(v, a, b)
                /\ \A q \in Regs : q \notin {"RAX", "RCX", "RDX"} => b.reg[q] = a.reg[q]
                /\ b.reg["RAX"] = Ra
<1>0. /\ ~Mirrored(v) /\ Stacked(v) /\ <<"store", "RCX", 0, "RAX">> \in Opens(v) /\ Reads(v, a)
  BY DEF Mirrored, Stacked, Opens, Reads, Writes
<1>1. PICK c : Stepped(v, <<"load", "RAX", "RSP", 0>>, a, c) /\ Fit(v, c) /\ Has(a, c, "RAX", Ra)
  BY RegFacts, StepLoadRet
<1>2. PICK d : Stepped(v, <<"imm", "RDX", ShadowBase>>, c, d) /\ Fit(v, d) /\ Has(c, d, "RDX", Lit(ShadowBase))
  BY <1>1, RegFacts, StepImm
<1>3. d.reg["RAX"] = Ra /\ d.reg["RDX"] = Lit(ShadowBase) /\ Reads(v, d) /\ d.ptr = 0 /\ d.pk = a.pk
  BY <1>0, <1>1, <1>2, RegFacts DEF Has, Same, Reads
<1>4. PICK e : Stepped(v, <<"load", "RCX", "RDX", 0>>, d, e) /\ Fit(v, e) /\ Has(d, e, "RCX", Ptr(0))
  BY <1>0, <1>2, <1>3, RegFacts, StepLoadPtr
<1>5. e.reg["RAX"] = Ra /\ e.reg["RCX"] = Ptr(0) /\ Writes(v, e) /\ Top(v, e) = 0
  BY <1>0, <1>3, <1>4, RegFacts DEF Has, Same, Writes, Top, Stacked
<1>6. PICK f : Stepped(v, <<"store", "RCX", 0, "RAX">>, e, f) /\ Fit(v, f) /\ Stores(e, f, "RCX", Ptr(0), 1, TRUE)
  BY <1>0, <1>4, <1>5, StepStoreRa
<1>7. f.reg["RCX"] = Ptr(0) /\ f.reg["RSP"] = Here /\ Writes(v, f) /\ Top(v, f) = 0 /\ f.open /\ f.ent = 1
  BY <1>0, <1>1, <1>2, <1>4, <1>5, <1>6, RegFacts DEF Has, Same, Stores, Writes, Top, Stacked
<1>8. PICK g : Stepped(v, <<"store", "RCX", 1, "RSP">>, f, g) /\ Fit(v, g) /\ Stores(f, g, "RCX", Ptr(0), 2, TRUE)
  BY <1>0, <1>6, <1>7, StepStoreSp
<1>9. g.reg["RDX"] = Lit(ShadowBase) /\ g.ptr = 0 /\ g.pk = a.pk /\ g.reg["RAX"] = Ra
  BY <1>3, <1>4, <1>6, <1>8, RegFacts DEF Has, Same, Stores
<1>10. Writes(v, g)
  BY <1>9 DEF Writes
<1>11. PICK b : Stepped(v, <<"addm", "RDX", 2>>, g, b) /\ Fit(v, b) /\ Points(g, b, 2, FALSE)
  BY <1>8, <1>9, <1>10, StepAddPtr
<1>12. Flows(v, PushMem, a, b)
  BY <1>1, <1>2, <1>4, <1>6, <1>8, <1>11, FlowSix DEF PushMem
<1>13. /\ g.slot = a.slot /\ g.mir = a.mir /\ g.zf = a.zf /\ g.fresh = a.fresh /\ g.ent = 2
  BY <1>1, <1>2, <1>4, <1>6, <1>8 DEF Has, Same, Stores
<1>14. Pushes(v, a, b)
  BY <1>0, <1>9, <1>13, <1>11 DEF Pushes, Points, Top, Stacked
<1>15. \A q \in Regs : q \notin {"RAX", "RCX", "RDX"} => g.reg[q] = a.reg[q]
  BY <1>1, <1>2, <1>4, <1>6, <1>8 DEF Has, Stores
<1>16. b.reg = g.reg
  BY <1>11 DEF Points
<1> QED  BY <1>9, <1>11, <1>12, <1>14, <1>15, <1>16

\* The mirror's word is stored.
StoreMirror(v) ==
  IF v.scheme = "PARR" THEN <<"storex", "RSP", "R15", "RAX">> ELSE <<"store", "RSP", ParOffset, "RAX">>

\* PARR's and CON's prologs store the mirror.
LEMMA FlowMirror ==
  ASSUME NEW v, NEW a, Fit(v, a), Mirrored(v), a.reg["RSP"] = Here, a.fresh, Writes(v, a),
         v.scheme = "PARR" => a.reg["R15"] \in {Base, Ptr(0)}
  PROVE  \E b : /\ Flows(v, <<<<"load", "RAX", "RSP", 0>>, StoreMirror(v)>>, a, b) /\ Fit(v, b)
                /\ b.slot = a.slot /\ b.mir /\ b.pk = a.pk /\ b.fresh /\ b.open = a.open
                /\ \A q \in Regs : b.reg[q] = IF q = "RAX" THEN Ra
                                              ELSE IF q = "R15" /\ v.scheme = "PARR" THEN Ptr(0) ELSE a.reg[q]
<1> DEFINE i == StoreMirror(v)
<1>1. PICK c : Stepped(v, <<"load", "RAX", "RSP", 0>>, a, c) /\ Fit(v, c) /\ Has(a, c, "RAX", Ra)
  BY RegFacts, StepLoadRet
<1>2. c.reg["RAX"] = Ra /\ c.reg["RSP"] = Here /\ Writes(v, c) /\ c.reg["R15"] = a.reg["R15"] /\ c \in Syms /\ Stable(v, c)
  BY <1>1, RegFacts DEF Has, Same, Writes, Fit
<1>3. Top(v, c) = 0
  BY DEF Mirrored, Top, Stacked
<1>4. PICK h : h = IF v.scheme = "PARR" THEN Hold(c, "R15", Ptr(0)) ELSE c
  OBVIOUS
<1>5. h \in Syms /\ Same(c, h) /\ \A q \in Regs : h.reg[q] = IF q = "R15" /\ v.scheme = "PARR" THEN Ptr(0) ELSE c.reg[q]
  <2>1. CASE v.scheme = "PARR"
    <3>1. h \in Syms /\ Has(c, h, "R15", Ptr(0))
      BY <1>2, <1>4, <2>1, HoldFacts, ValueFacts, RegFacts
    <3> QED  BY <3>1, <2>1 DEF Has
  <2>2. CASE v.scheme # "PARR"
    BY <1>2, <1>4, <2>2 DEF Same
  <2> QED  BY <2>1, <2>2
<1>6. PICK b : b = [h EXCEPT !.mir = TRUE]
  OBVIOUS
<1>7. b \in Syms /\ b.reg = h.reg /\ b.slot = h.slot /\ b.ptr = h.ptr /\ b.ent = h.ent /\ b.mir = TRUE
      /\ b.pk = h.pk /\ b.zf = h.zf /\ b.open = h.open /\ b.fresh = h.fresh
  BY <1>5, <1>6 DEF Syms
<1>8. RStoreMirror(v, i, c, b)
  <2>1. CASE v.scheme = "PARR"
    BY <1>2, <1>4, <1>6, <2>1 DEF RStoreMirror, StoreMirror
  <2>2. CASE v.scheme = "CON"
    BY <1>2, <1>4, <1>6, <2>2 DEF RStoreMirror, StoreMirror
  <2> QED  BY <2>1, <2>2 DEF Mirrored
<1>9. Stable(v, b) /\ b.reg["RSP"].t # "lit"
  <2>1. Top(v, b) = 0 /\ b.slot = c.slot /\ b.ent = c.ent /\ b.open = c.open /\ b.reg["RSP"] = c.reg["RSP"]
    BY <1>5, <1>7, RegFacts DEF Same, Mirrored, Top, Stacked
  <2> QED  BY <2>1, <1>2, <1>3, TagFacts DEF Stable
<1>10. Stepped(v, i, c, b)
  BY <1>2, TagFacts, <1>7, <1>8, <1>9 DEF Stepped, Plain, Rule
<1>11. Flows(v, <<<<"load", "RAX", "RSP", 0>>, i>>, a, b)
  BY <1>1, <1>10, FlowTwo
<1>12. b.slot = a.slot /\ b.mir /\ b.pk = a.pk /\ b.fresh /\ b.open = a.open
  BY <1>1, <1>5, <1>7 DEF Has, Same
<1>13. \A q \in Regs : b.reg[q] = IF q = "RAX" THEN Ra ELSE IF q = "R15" /\ v.scheme = "PARR" THEN Ptr(0) ELSE a.reg[q]
  BY <1>1, <1>5, <1>7 DEF Has
<1> QED  BY <1>7, <1>9, <1>11, <1>12, <1>13 DEF Fit

-------------------------------------------------------------------------------
(* Prologs.                                                                *)

PageOf(v) == Lit(IF v.scheme = "SEG" THEN ShadowBase ELSE ClaveBase)
Owned(v)  == v.scheme \in {"REG", "PARR"}
Saves(v)  == v.mpk \/ v.scheme = "MEM"

\* Where the arguments are: in r10 and r11 once they are saved.
ArgsIn(v, a) ==
  IF Saves(v) THEN a.reg["R10"] = Want("RCX", 0) /\ a.reg["R11"] = Want("RDX", 0)
  ELSE a.reg["RCX"] = Want("RCX", 0) /\ a.reg["RDX"] = Want("RDX", 0)

\* Nothing is pushed yet.
Waiting(v, a) ==
  /\ Fit(v, a) /\ a.fresh /\ ~a.open /\ a.ent = 0 /\ a.ptr = 0
  /\ a.reg["RSP"] = Here /\ a.reg["GS"] = PageOf(v)
  /\ IF Owned(v) THEN a.reg["R15"] \in {Base, Ptr(0)} ELSE a.reg["R15"] = Want("R15", 0)
Loaded(v, a) == Waiting(v, a) /\ \A r \in {"RCX", "RDX", "R10"} : a.reg[r] = Want(r, 0)
Opened(v, a) ==
  /\ Waiting(v, a) /\ ArgsIn(v, a) /\ Writes(v, a)
  /\ Saves(v) \/ a.reg["R10"] = Want("R10", 0)

\* The entry is complete, and pk is what the key allows.
Complete(v, a) == IF Mirrored(v) THEN a.mir ELSE Top(v, a) = 2 /\ a.ent = 2
Final(v) == IF v.scheme = "REG" THEN Ptr(2) ELSE IF v.scheme = "PARR" THEN Ptr(0) ELSE Want("R15", 0)
Pushed(v, a, pk) ==
  /\ Fit(v, a) /\ a.fresh /\ ~a.open /\ Complete(v, a)
  /\ a.reg["RSP"] = Here /\ a.reg["GS"] = PageOf(v) /\ a.reg["R15"] = Final(v)
  /\ a.reg["RAX"] \in {Ra, Lit(WriteProt)}
  /\ ArgsIn(v, a) /\ (v.mpk => a.pk = pk)
  /\ Saves(v) \/ a.reg["R10"] = IF Stacked(v) THEN Ptr(2) ELSE Want("R10", 0)

\* The function's own code runs.
Ready(v, a) ==
  /\ Fit(v, a) /\ a.fresh /\ ~a.open /\ Complete(v, a) /\ (v.mpk => a.pk = "lock")
  /\ a.reg["GS"] = PageOf(v) /\ a.reg["R15"] = Final(v)
  /\ \A r \in {"RSP", "RCX", "RDX"} : a.reg[r] = Want(r, 0)
  /\ a.reg["RAX"] \in {Ra, Lit(WriteProt)}
  /\ IF ~v.mpk /\ ~Stacked(v) THEN a.reg["R10"] = Want("R10", 0) ELSE a.reg["R10"] \in {Want("RCX", 0), Ptr(2)}
Started(v, a) ==
  /\ Fit(v, a) /\ ~a.fresh /\ ~a.open /\ Complete(v, a) /\ (v.mpk => a.pk = "lock")
  /\ a.reg["GS"] = PageOf(v) /\ a.reg["R15"] = Final(v)
  /\ \A r \in Free \cup {"RSP"} : a.reg[r] = Want(r, 0)

\* A function starts with a stable note.
LEMMA EnteredFits ==
  ASSUME NEW v \in Variant
  PROVE  Fit(v, Entered(v))
<1>1. PICK a : a = Entered(v)
  OBVIOUS
<1>2. \A r \in Regs : a.reg[r] \in Values
  <2> SUFFICES ASSUME NEW r \in Regs PROVE a.reg[r] \in Values
    OBVIOUS
  <2>1. a.reg[r] \in {Lit(ShadowBase), Lit(ClaveBase), Unset, Base, Want(r, 0)}
    BY <1>1 DEF Entered
  <2>2. Want(r, 0) \in Values /\ Lit(ShadowBase) \in Values /\ Lit(ClaveBase) \in Values
    BY ValueFacts, LayoutAssumption
  <2> QED  BY <2>1, <2>2, ValueFacts
<1>3. a.reg["R15"] \in {Unset, Base, Want("R15", 0)} /\ a.reg["RSP"] = Here
  BY <1>1 DEF Entered, Regs, Here
<1>4. a.reg \in [Regs -> Values]
  BY <1>1, <1>2 DEF Entered
<1>5. a.slot \in [1 .. 3 -> Values] /\ \A j \in 1 .. 3 : a.slot[j] = Any
  BY <1>1, ValueFacts DEF Entered
<1>6. a \in Syms
  BY <1>1, <1>4, <1>5 DEF Entered, Syms
<1>7. Top(v, a) = 0
  BY <1>1, <1>3 DEF Top, Entered, Unset, Base, Want, Tagged
<1>8. a.ent = 0
  BY <1>1 DEF Entered
<1>9. Stable(v, a)
  BY <1>3, <1>5, <1>7, <1>8 DEF Stable, Any, Tagged
<1> QED  BY <1>1, <1>3, <1>6, <1>9, TagFacts DEF Fit

\* r15 is loaded from the clave.
LEMMA StepLoadClave ==
  ASSUME NEW v, NEW a, Fit(v, a), v.load, Owned(v), a.ent = 0, a.reg["GS"] = Lit(ClaveBase)
  PROVE  \E b : /\ Stepped(v, <<"load", "R15", "GS", IF v.scheme = "PARR" THEN 0 ELSE 2>>, a, b) /\ Fit(v, b)
                /\ Has(a, b, "R15", Ptr(0))
<1> DEFINE i == <<"load", "R15", "GS", IF v.scheme = "PARR" THEN 0 ELSE 2>>
<1>1. PICK b : b = Hold(a, "R15", Ptr(0))
  OBVIOUS
<1>2. b \in Syms /\ Has(a, b, "R15", Ptr(0))
  BY <1>1, HoldFacts, ValueFacts, RegFacts DEF Fit
<1>3. RLoadClave(v, i, a, b)
  BY <1>1 DEF RLoadClave, Owned
<1>4. Stable(v, b) /\ b.reg["RSP"].t # "lit"
  <2>1. b.slot = a.slot /\ b.ent = 0 /\ b.reg["RSP"] = a.reg["RSP"] /\ Top(v, b) = 0
    BY <1>2, RegFacts DEF Has, Same, Top, Ptr, Owned, Stacked
  <2> QED  BY <2>1 DEF Fit, Stable
<1> QED  BY <1>2, <1>3, <1>4 DEF Stepped, Plain, Rule, Fit

\* The reload of r15, where there is one.
LEMMA FlowLoad ==
  ASSUME NEW v \in Variant
  PROVE  \E b : Flows(v, LoadR15(v), Entered(v), b) /\ Loaded(v, b)
<1>1. PICK a : a = Entered(v)
  OBVIOUS
<1>2. Fit(v, a)
  BY <1>1, EnteredFits
<1>3. /\ a.fresh /\ ~a.open /\ a.ent = 0 /\ a.ptr = 0
      /\ a.reg["RSP"] = Here /\ a.reg["GS"] = PageOf(v)
      /\ \A r \in {"RCX", "RDX", "R10"} : a.reg[r] = Want(r, 0)
  BY <1>1, RegFacts DEF Entered, Here, PageOf
<1>4. CASE v.load
  <2>1. Owned(v) /\ v.scheme # "SEG"
    BY <1>4 DEF Variant, Owned
  <2>2. a.reg["GS"] = Lit(ClaveBase)
    BY <1>3, <2>1 DEF PageOf
  <2>3. PICK b : /\ Stepped(v, <<"load", "R15", "GS", IF v.scheme = "PARR" THEN 0 ELSE 2>>, a, b) /\ Fit(v, b)
                 /\ Has(a, b, "R15", Ptr(0))
    BY <1>2, <1>3, <1>4, <2>1, <2>2, StepLoadClave
  <2>4. Flows(v, LoadR15(v), a, b)
    BY <2>3, <1>4, FlowOne DEF LoadR15, If
  <2>5. Loaded(v, b)
    BY <1>3, <2>1, <2>3, RegFacts DEF Loaded, Waiting, Has, Same
  <2> QED  BY <1>1, <2>4, <2>5
<1>5. CASE ~v.load
  <2>1. Flows(v, LoadR15(v), a, a)
    BY <1>2, <1>5, FlowEmpty DEF LoadR15, If, Fit
  <2>2. a.reg["R15"] = IF Owned(v) THEN Base ELSE Want("R15", 0)
    BY <1>1, <1>5, RegFacts DEF Entered, Owned
  <2>3. Loaded(v, a)
    BY <1>2, <1>3, <2>2 DEF Loaded, Waiting
  <2> QED  BY <1>1, <2>1, <2>3
<1> QED  BY <1>4, <1>5

\* rcx and rdx are saved.
LEMMA FlowSave ==
  ASSUME NEW v, NEW a, Loaded(v, a), Saves(v)
  PROVE  \E b : Flows(v, SaveArgs, a, b) /\ Waiting(v, b) /\ ArgsIn(v, b)
<1>1. Fit(v, a) /\ a.reg["RCX"] = Want("RCX", 0) /\ a.reg["RDX"] = Want("RDX", 0)
  BY DEF Loaded, Waiting
<1>2. a.reg["RCX"].t = "want" /\ a.reg["RDX"].t = "want"
  BY <1>1 DEF Want
<1>3. PICK b : /\ Flows(v, SaveArgs, a, b) /\ Fit(v, b) /\ Same(a, b)
               /\ \A q \in Regs : b.reg[q] = IF q = "R10" THEN a.reg["RCX"]
                                             ELSE IF q = "R11" THEN a.reg["RDX"] ELSE a.reg[q]
  BY <1>1, <1>2, FlowSaveArgs
<1>4. b.reg["R10"] = Want("RCX", 0) /\ b.reg["R11"] = Want("RDX", 0) /\ b.reg["RSP"] = a.reg["RSP"]
      /\ b.reg["GS"] = a.reg["GS"] /\ b.reg["R15"] = a.reg["R15"]
  BY <1>1, <1>3, RegFacts
<1> QED  BY <1>3, <1>4 DEF Loaded, Waiting, ArgsIn, Same

\* The key is opened, with pkeys.
LEMMA FlowOpen ==
  ASSUME NEW v, NEW a, Waiting(v, a), ArgsIn(v, a), v.mpk
  PROVE  \E b : Flows(v, WRPKRUI(OpenAll), a, b) /\ Opened(v, b)
<1>1. PICK b : /\ Flows(v, WRPKRUI(OpenAll), a, b) /\ Fit(v, b) /\ Locks(a, b, "open")
               /\ \A q \in Regs : b.reg[q] = IF q \in {"RAX", "RCX", "RDX"} THEN Lit(0) ELSE a.reg[q]
  BY FlowUnlock DEF Waiting
<1>2. b.reg["R10"] = a.reg["R10"] /\ b.reg["R11"] = a.reg["R11"] /\ b.reg["RSP"] = a.reg["RSP"]
      /\ b.reg["GS"] = a.reg["GS"] /\ b.reg["R15"] = a.reg["R15"]
  BY <1>1, RegFacts
<1> QED  BY <1>1, <1>2 DEF Opened, Waiting, ArgsIn, Saves, Writes, Locks

\* What is saved before the entry is stored, in all schemes.
Opening(v) == IF v.scheme = "MEM" THEN SaveArgs \o If(v.mpk, WRPKRUI(OpenAll))
              ELSE If(v.mpk, SaveArgs \o WRPKRUI(OpenAll))

\* What comes before the push.
LEMMA FlowOpening ==
  ASSUME NEW v, NEW a, Loaded(v, a)
  PROVE  \E b : Flows(v, Opening(v), a, b) /\ Opened(v, b)
<1>1. CASE v.mpk
  <2>1. PICK c : Flows(v, SaveArgs, a, c) /\ Waiting(v, c) /\ ArgsIn(v, c)
    BY <1>1, FlowSave DEF Saves
  <2>2. PICK b : Flows(v, WRPKRUI(OpenAll), c, b) /\ Opened(v, b)
    BY <1>1, <2>1, FlowOpen
  <2>3. Flows(v, SaveArgs \o WRPKRUI(OpenAll), a, b)
    BY <2>1, <2>2, FlowJoin
  <2> QED  BY <1>1, <2>2, <2>3 DEF Opening, If
<1>2. CASE ~v.mpk /\ v.scheme = "MEM"
  <2>1. PICK b : Flows(v, SaveArgs, a, b) /\ Waiting(v, b) /\ ArgsIn(v, b)
    BY <1>2, FlowSave DEF Saves
  <2>2. Flows(v, << >>, b, b)
    BY <2>1, FlowEmpty DEF Waiting, Fit
  <2>3. Flows(v, SaveArgs \o << >>, a, b)
    BY <2>1, <2>2, FlowJoin
  <2>4. Opened(v, b)
    BY <2>1, <1>2 DEF Opened, Saves, Writes
  <2> QED  BY <1>2, <2>3, <2>4 DEF Opening, If
<1>3. CASE ~v.mpk /\ v.scheme # "MEM"
  <2>1. Flows(v, << >>, a, a)
    BY FlowEmpty DEF Loaded, Waiting, Fit
  <2>2. Opened(v, a)
    BY <1>3 DEF Opened, Loaded, ArgsIn, Saves, Writes
  <2> QED  BY <1>3, <2>1, <2>2 DEF Opening, If
<1> QED  BY <1>1, <1>2, <1>3

\* How the entry is stored, in all schemes.
Pushing(v) ==
  CASE v.scheme = "REG" -> PushReg
    [] v.scheme = "SEG" -> PushSeg(Scratch(v))
    [] v.scheme = "MEM" -> PushMem
    [] OTHER -> <<<<"load", "RAX", "RSP", 0>>, StoreMirror(v)>>

\* The push, for every scheme.
LEMMA FlowPushing ==
  ASSUME NEW v \in Variant, NEW a, Opened(v, a)
  PROVE  \E b : Flows(v, Pushing(v), a, b) /\ Pushed(v, b, "open")
<1>0. /\ Fit(v, a) /\ a.fresh /\ ~a.open /\ a.ptr = 0 /\ a.reg["RSP"] = Here /\ a.reg["GS"] = PageOf(v)
      /\ Writes(v, a) /\ ArgsIn(v, a) /\ (v.mpk => a.pk = "open")
  BY DEF Opened, Waiting, Writes
<1>1. CASE v.scheme = "REG"
  <2>1. a.reg["R15"] \in {Base, Ptr(0)}
    BY <1>1 DEF Opened, Waiting, Owned
  <2>2. PICK b : /\ Flows(v, PushReg, a, b) /\ Fit(v, b) /\ Pushes(v, a, b)
                 /\ \A q \in Regs : b.reg[q] = IF q = "RAX" THEN Ra ELSE IF q = "R15" THEN Ptr(2) ELSE a.reg[q]
    BY <1>0, <1>1, <2>1, FlowPushReg
  <2>3. b.reg["RAX"] = Ra /\ b.reg["R15"] = Ptr(2) /\ \A r \in {"RCX", "RDX", "R10", "R11", "RSP", "GS"} : b.reg[r] = a.reg[r]
    BY <2>2, RegFacts
  <2>4. Pushed(v, b, "open")
    BY <1>0, <1>1, <2>2, <2>3 DEF Pushed, Pushes, Complete, Final, ArgsIn, Saves, Opened, Mirrored, Stacked
  <2> QED  BY <1>1, <2>2, <2>4 DEF Pushing
<1>2. CASE v.scheme = "SEG"
  <2>1. Scratch(v) \in {"R10", "RCX"}
    BY DEF Scratch
  <2>2. PICK ra : ra = Scratch(v)
    OBVIOUS
  <2>3. PICK b : /\ Flows(v, PushSeg(ra), a, b) /\ Fit(v, b) /\ Pushes(v, a, b)
                 /\ \A q \in Regs : b.reg[q] = IF q = "RAX" THEN Ra ELSE IF q = ra THEN Ptr(2) ELSE a.reg[q]
    BY <1>0, <1>2, <2>1, <2>2, FlowPushSeg DEF PageOf
  <2>4. b.reg["RAX"] = Ra /\ b.reg[ra] = Ptr(2) /\ \A r \in {"RDX", "R11", "RSP", "GS", "R15"} : b.reg[r] = a.reg[r]
    BY <2>1, <2>2, <2>3, RegFacts
  <2>5. b.reg["R15"] = Final(v)
    BY <1>2, <2>4 DEF Opened, Waiting, Owned, Final
  <2>6. ArgsIn(v, b) /\ (Saves(v) \/ b.reg["R10"] = Ptr(2))
    <3>1. CASE v.mpk
      <4>1. Saves(v) /\ b.reg["R10"] = a.reg["R10"]
        BY <3>1, <2>2, <2>3, RegFacts DEF Saves, Scratch
      <4> QED  BY <4>1, <2>4, <1>0 DEF ArgsIn
    <3>2. CASE ~v.mpk
      <4>1. ~Saves(v) /\ ra = "R10" /\ b.reg["RCX"] = a.reg["RCX"]
        BY <3>2, <1>2, <2>2, <2>3, RegFacts DEF Saves, Scratch
      <4> QED  BY <4>1, <2>4, <1>0 DEF ArgsIn
    <3> QED  BY <3>1, <3>2
  <2>7. Stacked(v) /\ ~Mirrored(v)
    BY <1>2 DEF Stacked, Mirrored
  <2>8. Pushed(v, b, "open")
    BY <1>0, <2>3, <2>4, <2>5, <2>6, <2>7 DEF Pushed, Pushes, Complete
  <2> QED  BY <1>2, <2>2, <2>3, <2>8 DEF Pushing
<1>3. CASE v.scheme = "MEM"
  <2>2. PICK b : /\ Flows(v, PushMem, a, b) /\ Fit(v, b) /\ Pushes(v, a, b)
                 /\ \A q \in Regs : q \notin {"RAX", "RCX", "RDX"} => b.reg[q] = a.reg[q]
                 /\ b.reg["RAX"] = Ra
    BY <1>0, <1>3, FlowPushMem
  <2>3. b.reg["RAX"] = Ra /\ \A r \in {"R10", "R11", "RSP", "GS", "R15"} : b.reg[r] = a.reg[r]
    BY <2>2, RegFacts
  <2>4. b.reg["R15"] = Final(v)
    BY <1>3, <2>3 DEF Opened, Waiting, Owned, Final
  <2>5. Saves(v) /\ ~Mirrored(v)
    BY <1>3 DEF Saves, Mirrored
  <2>6. Pushed(v, b, "open")
    BY <1>0, <2>2, <2>3, <2>4, <2>5 DEF Pushed, Pushes, Complete, ArgsIn
  <2> QED  BY <1>3, <2>2, <2>6 DEF Pushing
<1>4. CASE v.scheme \in {"PARR", "CON"}
  <2>1. Mirrored(v) /\ ~Stacked(v) /\ (v.scheme = "PARR" => a.reg["R15"] \in {Base, Ptr(0)})
    BY <1>4 DEF Mirrored, Stacked, Opened, Waiting, Owned
  <2>2. PICK b : /\ Flows(v, <<<<"load", "RAX", "RSP", 0>>, StoreMirror(v)>>, a, b) /\ Fit(v, b)
                 /\ b.slot = a.slot /\ b.mir /\ b.pk = a.pk /\ b.fresh /\ b.open = a.open
                 /\ \A q \in Regs : b.reg[q] = IF q = "RAX" THEN Ra
                                               ELSE IF q = "R15" /\ v.scheme = "PARR" THEN Ptr(0) ELSE a.reg[q]
    BY <1>0, <2>1, FlowMirror
  <2>3. b.reg["RAX"] = Ra /\ \A r \in {"RCX", "RDX", "R10", "R11", "RSP", "GS"} : b.reg[r] = a.reg[r]
    BY <2>2, RegFacts
  <2>4. b.reg["R15"] = Final(v)
    BY <1>4, <2>2, RegFacts DEF Opened, Waiting, Owned, Final
  <2>5. Pushed(v, b, "open")
    BY <1>0, <1>4, <2>1, <2>2, <2>3, <2>4 DEF Pushed, Complete, ArgsIn, Saves, Opened
  <2>6. Pushing(v) = <<<<"load", "RAX", "RSP", 0>>, StoreMirror(v)>>
    BY <1>4 DEF Pushing
  <2> QED  BY <2>2, <2>5, <2>6
<1> QED  BY <1>1, <1>2, <1>3, <1>4 DEF Variant, Schemes

\* A register is cleared after use.
LEMMA StepClear ==
  ASSUME NEW v, NEW a, NEW pk, Pushed(v, a, pk), Saves(v), NEW r \in {"RCX", "RDX"}
  PROVE  \E b : Stepped(v, <<"imm", r, 0>>, a, b) /\ Pushed(v, b, pk)
<1>1. Fit(v, a) /\ r \in Free
  BY RegFacts DEF Pushed
<1>2. PICK b : Stepped(v, <<"imm", r, 0>>, a, b) /\ Fit(v, b) /\ Has(a, b, r, Lit(0))
  BY <1>1, StepImm
<1>3. Same(a, b) /\ \A q \in {"R10", "R11", "RSP", "GS", "R15", "RAX"} : b.reg[q] = a.reg[q]
  BY <1>2, RegFacts DEF Has
<1>4. Top(v, b) = Top(v, a)
  BY <1>3 DEF Top, Same
<1>5. Complete(v, b)
  BY <1>3, <1>4 DEF Complete, Same, Pushed
<1> QED  BY <1>2, <1>3, <1>5 DEF Pushed, Same, ArgsIn

\* The key is locked, with pkeys.
LEMMA FlowLock ==
  ASSUME NEW v, NEW a, Pushed(v, a, "open"), v.mpk
  PROVE  \E b : Flows(v, Protect, a, b) /\ Pushed(v, b, "lock")
<1>1. Fit(v, a)
  BY DEF Pushed
<1>2. PICK b : /\ Flows(v, Protect, a, b) /\ Fit(v, b) /\ Locks(a, b, "lock")
               /\ \A q \in Regs : b.reg[q] = IF q = "RAX" THEN Lit(WriteProt) ELSE a.reg[q]
  BY <1>1, FlowProtect
<1>3. b.reg["RAX"] = Lit(WriteProt) /\ \A q \in {"RCX", "RDX", "R10", "R11", "RSP", "GS", "R15"} : b.reg[q] = a.reg[q]
  BY <1>2, RegFacts
<1>4. Complete(v, b)
  BY <1>2, <1>3 DEF Complete, Locks, Pushed, Top
<1> QED  BY <1>2, <1>3, <1>4 DEF Pushed, Locks, ArgsIn

\* rcx and rdx come back.
LEMMA FlowGiveBack ==
  ASSUME NEW v, NEW a, Pushed(v, a, "lock"), Saves(v)
  PROVE  \E b : Flows(v, RestoreArgs, a, b) /\ Ready(v, b)
<1>1. Fit(v, a) /\ a.reg["R10"] = Want("RCX", 0) /\ a.reg["R11"] = Want("RDX", 0)
  BY DEF Pushed, ArgsIn
<1>2. a.reg["R10"].t = "want" /\ a.reg["R11"].t = "want"
  BY <1>1 DEF Want
<1>3. PICK b : /\ Flows(v, RestoreArgs, a, b) /\ Fit(v, b) /\ Same(a, b)
               /\ \A q \in Regs : b.reg[q] = IF q = "RCX" THEN a.reg["R10"]
                                             ELSE IF q = "RDX" THEN a.reg["R11"] ELSE a.reg[q]
  BY <1>1, <1>2, FlowRestoreArgs
<1>4. b.reg["RCX"] = Want("RCX", 0) /\ b.reg["RDX"] = Want("RDX", 0)
      /\ \A q \in {"RAX", "R10", "RSP", "GS", "R15"} : b.reg[q] = a.reg[q]
  BY <1>1, <1>3, RegFacts
<1>5. Complete(v, b)
  BY <1>3, <1>4 DEF Complete, Same, Pushed, Top
<1>6. v.mpk \/ Stacked(v)
  BY DEF Saves, Stacked
<1> QED  BY <1>1, <1>3, <1>4, <1>5, <1>6 DEF Pushed, Ready, Same, Here

\* What comes after the push.
LEMMA FlowClose ==
  ASSUME NEW v, NEW a, Pushed(v, a, "open"), v.mpk
  PROVE  \E b : Flows(v, Protect \o RestoreArgs, a, b) /\ Ready(v, b)
<1>1. PICK c : Flows(v, Protect, a, c) /\ Pushed(v, c, "lock")
  BY FlowLock
<1>2. PICK b : Flows(v, RestoreArgs, c, b) /\ Ready(v, b)
  BY <1>1, FlowGiveBack DEF Saves
<1> QED  BY <1>1, <1>2, FlowJoin

\* A pushed entry and restored registers are what the body needs.
LEMMA PushedReady ==
  ASSUME NEW v, NEW a, Pushed(v, a, "open"), ~Saves(v)
  PROVE  Ready(v, a)
<1>1. ~v.mpk
  BY DEF Saves
<1>2. a.reg["RCX"] = Want("RCX", 0) /\ a.reg["RDX"] = Want("RDX", 0) /\ a.reg["RSP"] = Want("RSP", 0)
  BY DEF Pushed, ArgsIn, Here
<1>3. IF ~v.mpk /\ ~Stacked(v) THEN a.reg["R10"] = Want("R10", 0) ELSE a.reg["R10"] \in {Want("RCX", 0), Ptr(2)}
  BY <1>1 DEF Pushed
<1> QED  BY <1>1, <1>2, <1>3 DEF Pushed, Ready

\* The end of the prolog.
LEMMA FlowEnd ==
  ASSUME NEW v, NEW a, Pushed(v, a, "open"), v.scheme # "MEM"
  PROVE  \E b : Flows(v, If(v.mpk, Protect \o RestoreArgs), a, b) /\ Ready(v, b)
<1>1. CASE v.mpk
  BY <1>1, FlowClose DEF If
<1>2. CASE ~v.mpk
  <2>1. Flows(v, << >>, a, a)
    BY FlowEmpty DEF Pushed, Fit
  <2>2. Ready(v, a)
    BY <1>2, PushedReady DEF Saves
  <2> QED  BY <1>2, <2>1, <2>2 DEF If
<1> QED  BY <1>1, <1>2

\* A prolog hands over a complete entry, the key locked and the arguments in place.
LEMMA FlowProlog ==
  ASSUME NEW v \in Variant, NEW a, Loaded(v, a)
  PROVE  \E b : Flows(v, Prolog(v), a, b) /\ Ready(v, b)
<1>1. PICK c : Flows(v, Opening(v), a, c) /\ Opened(v, c)
  BY FlowOpening
<1>2. PICK d : Flows(v, Pushing(v), c, d) /\ Pushed(v, d, "open")
  BY <1>1, FlowPushing
<1>3. Flows(v, Opening(v) \o Pushing(v), a, d)
  BY <1>1, <1>2, FlowJoin
<1>4. CASE v.scheme \in {"REG", "PARR", "CON"}
  <2>1. PICK b : Flows(v, If(v.mpk, Protect \o RestoreArgs), d, b) /\ Ready(v, b)
    BY <1>2, <1>4, FlowEnd
  <2>2. Flows(v, (Opening(v) \o Pushing(v)) \o If(v.mpk, Protect \o RestoreArgs), a, b)
    BY <1>3, <2>1, FlowJoin
  <2>3. Prolog(v) = (Opening(v) \o Pushing(v)) \o If(v.mpk, Protect \o RestoreArgs)
    BY <1>4 DEF Prolog, Opening, Pushing, StoreMirror
  <2> QED  BY <2>1, <2>2, <2>3
<1>5. CASE v.scheme = "SEG"
  <2>1. PICK e : Flows(v, If(v.mpk, <<<<"imm", "RCX", 0>>>>), d, e) /\ Pushed(v, e, "open")
    <3>1. CASE v.mpk
      <4>1. PICK e : Stepped(v, <<"imm", "RCX", 0>>, d, e) /\ Pushed(v, e, "open")
        BY <1>2, <3>1, StepClear DEF Saves
      <4>2. Flows(v, <<<<"imm", "RCX", 0>>>>, d, e)
        BY <4>1, FlowOne
      <4> QED  BY <3>1, <4>1, <4>2 DEF If
    <3>2. CASE ~v.mpk
      <4>1. Flows(v, << >>, d, d)
        BY <1>2, FlowEmpty DEF Pushed, Fit
      <4> QED  BY <1>2, <3>2, <4>1 DEF If
    <3> QED  BY <3>1, <3>2
  <2>2. PICK b : Flows(v, If(v.mpk, Protect \o RestoreArgs), e, b) /\ Ready(v, b)
    BY <2>1, <1>5, FlowEnd
  <2>3. Flows(v, (Opening(v) \o Pushing(v)) \o If(v.mpk, <<<<"imm", "RCX", 0>>>>), a, e)
    BY <1>3, <2>1, FlowJoin
  <2>4. Flows(v, ((Opening(v) \o Pushing(v)) \o If(v.mpk, <<<<"imm", "RCX", 0>>>>)) \o If(v.mpk, Protect \o RestoreArgs), a, b)
    BY <2>2, <2>3, FlowJoin
  <2>5. Prolog(v) = ((Opening(v) \o Pushing(v)) \o If(v.mpk, <<<<"imm", "RCX", 0>>>>)) \o If(v.mpk, Protect \o RestoreArgs)
    BY <1>5 DEF Prolog, Opening, Pushing, Scratch
  <2> QED  BY <2>2, <2>4, <2>5
<1>6. CASE v.scheme = "MEM"
  <2> DEFINE clear == <<<<"imm", "RCX", 0>>, <<"imm", "RDX", 0>>>>
  <2>0. Saves(v)
    BY <1>6 DEF Saves
  <2>1. PICK e : Flows(v, If(v.mpk, clear \o Protect), d, e) /\ Pushed(v, e, "lock")
    <3>1. CASE v.mpk
      <4>1. PICK f : Stepped(v, <<"imm", "RCX", 0>>, d, f) /\ Pushed(v, f, "open")
        BY <1>2, <2>0, StepClear
      <4>2. PICK g : Stepped(v, <<"imm", "RDX", 0>>, f, g) /\ Pushed(v, g, "open")
        BY <4>1, <2>0, StepClear
      <4>3. PICK e : Flows(v, Protect, g, e) /\ Pushed(v, e, "lock")
        BY <4>2, <3>1, FlowLock
      <4>4. Flows(v, clear, d, g)
        BY <4>1, <4>2, FlowTwo
      <4> HIDE DEF clear
      <4>5. Flows(v, clear \o Protect, d, e)
        BY <4>3, <4>4, FlowJoin
      <4> QED  BY <3>1, <4>3, <4>5 DEF If
    <3>2. CASE ~v.mpk
      <4>1. Flows(v, << >>, d, d)
        BY <1>2, FlowEmpty DEF Pushed, Fit
      <4>2. Pushed(v, d, "lock")
        BY <1>2, <3>2 DEF Pushed
      <4> QED  BY <3>2, <4>1, <4>2 DEF If
    <3> QED  BY <3>1, <3>2
  <2>2. PICK b : Flows(v, RestoreArgs, e, b) /\ Ready(v, b)
    BY <2>0, <2>1, FlowGiveBack
  <2>3. Prolog(v) = ((Opening(v) \o Pushing(v)) \o If(v.mpk, clear \o Protect)) \o RestoreArgs
    BY <1>6 DEF Prolog, Opening, Pushing
  <2> HIDE DEF clear
  <2>4. Flows(v, (Opening(v) \o Pushing(v)) \o If(v.mpk, clear \o Protect), a, e)
    BY <1>3, <2>1, FlowJoin
  <2>5. Flows(v, ((Opening(v) \o Pushing(v)) \o If(v.mpk, clear \o Protect)) \o RestoreArgs, a, b)
    BY <2>2, <2>4, FlowJoin
  <2> QED  BY <2>2, <2>3, <2>5
<1> QED  BY <1>4, <1>5, <1>6 DEF Variant, Schemes

\* The function's own code.
LEMMA StepBody ==
  ASSUME NEW v \in Variant, NEW a, Ready(v, a)
  PROVE  \E b : Stepped(v, <<"body">>, a, b) /\ Started(v, b)
<1>0. a \in Syms /\ Stable(v, a)
  BY DEF Ready, Fit
<1> DEFINE reg == [r \in Regs |-> IF r \in {"RSP", "GS", "R15"} THEN a.reg[r] ELSE Want(r, 0)]
           slot == [j \in 1 .. 3 |-> Any]
<1>1. reg \in [Regs -> Values] /\ slot \in [1 .. 3 -> Values]
  <2>1. \A r \in Regs : Want(r, 0) \in Values /\ a.reg[r] \in Values
    BY <1>0, ValueFacts DEF Syms
  <2> QED  BY <2>1, ValueFacts
<1>2. /\ reg["RSP"] = a.reg["RSP"] /\ reg["GS"] = a.reg["GS"] /\ reg["R15"] = a.reg["R15"]
      /\ \A r \in Free : reg[r] = Want(r, 0)
      /\ \A j \in 1 .. 3 : slot[j] = Any
  BY RegFacts
<1>3. PICK b : b = [a EXCEPT !.reg = reg, !.slot = slot, !.zf = FALSE, !.fresh = FALSE]
  OBVIOUS
<1>4. RBody(v, <<"body">>, a, b)
  <2>1. a.reg["R15"] = IF v.scheme = "REG" THEN Ptr(2) ELSE IF v.scheme = "PARR" THEN Ptr(0) ELSE Want("R15", 0)
    BY DEF Ready, Final
  <2>2. IF Mirrored(v) THEN a.mir ELSE Top(v, a) = 2 /\ a.ent = 2
    BY DEF Ready, Complete
  <2> QED  BY <1>3, <2>1, <2>2 DEF RBody, Ready
<1> HIDE DEF reg, slot
<1>5. b \in Syms /\ b.reg = reg /\ b.slot = slot /\ b.ptr = a.ptr /\ b.ent = a.ent /\ b.mir = a.mir
      /\ b.pk = a.pk /\ b.zf = FALSE /\ b.open = a.open /\ b.fresh = FALSE
  BY <1>0, <1>1, <1>3 DEF Syms
<1>6. Top(v, b) = Top(v, a) /\ b.reg["RSP"] = a.reg["RSP"] /\ b.reg["RSP"] = Want("RSP", 0)
  BY <1>2, <1>5 DEF Top, Ready
<1>7. Stable(v, b)
  BY <1>0, <1>2, <1>5, <1>6 DEF Stable, Any, Tagged
<1>8. Stepped(v, <<"body">>, a, b)
  BY <1>0, <1>4, <1>5, <1>6, <1>7, TagFacts DEF Stepped, Plain, Rule
<1>9. Started(v, b)
  BY <1>2, <1>5, <1>6, <1>7, TagFacts DEF Started, Ready, Complete, Fit
<1> QED  BY <1>8, <1>9

-------------------------------------------------------------------------------
(* Popping an entry.                                                       *)

\* b is a but for registers and the words below the slot.
Shifts(a, b) ==
  /\ b.ptr = a.ptr /\ b.ent = a.ent /\ b.mir = a.mir
  /\ b.pk = a.pk /\ b.zf = a.zf /\ b.open = a.open /\ b.fresh = a.fresh

\* A note whose rsp moved by a push or a pop is stable.
LEMMA ShiftStable ==
  ASSUME NEW v, NEW a, Fit(v, a), NEW b \in Syms, Shifts(a, b),
         b.reg["R15"] = a.reg["R15"],
         b.reg["RSP"] \in {Want("RSP", -2), Want("RSP", -1), Here, Choice, Sure},
         \A j \in 1 .. 3 : b.slot[j].t \in {"any", "want"}
  PROVE  Fit(v, b)
<1>1. Top(v, b) = Top(v, a)
  BY DEF Top, Shifts
<1>2. b.reg["RSP"].t # "lit"
  BY TagFacts
<1> QED  BY <1>1, <1>2 DEF Fit, Stable, Shifts

\* The three words below the slot.
LEMMA SlotFacts ==
  ASSUME NEW v, NEW a, Fit(v, a), NEW j \in 1 .. 3
  PROVE  a.slot[j] \in Values /\ a.slot[j].t \in {"any", "want"}
BY DEF Fit, Syms, Stable

\* Giving one of them a value.
LEMMA SlotHolds ==
  ASSUME NEW a \in Syms, NEW j \in 1 .. 3, NEW x \in Values,
         NEW b, b = Fill(a, j, x)
  PROVE  b \in Syms /\ Shifts(a, b) /\ b.reg = a.reg
         /\ \A k \in 1 .. 3 : b.slot[k] = IF k = j THEN x ELSE a.slot[k]
BY DEF Syms, Shifts, Fill

\* A register is kept below rsp.
LEMMA StepStoreSlot ==
  ASSUME NEW v, NEW a, Fit(v, a), NEW r \in Free, NEW j \in 1 .. 3, NEW n, n = -j,
         a.reg["RSP"] = Here, a.reg[r].t = "want"
  PROVE  \E b : /\ Stepped(v, <<"store", "RSP", n, r>>, a, b) /\ Fit(v, b) /\ Shifts(a, b) /\ b.reg = a.reg
                /\ \A k \in 1 .. 3 : b.slot[k] = IF k = j THEN a.reg[r] ELSE a.slot[k]
<1> DEFINE i == <<"store", "RSP", n, r>>
<1>0. a.reg[r] \in Values /\ a \in Syms
  BY RegFacts DEF Fit, Syms
<1>1. PICK b : b = Fill(a, j, a.reg[r])
  OBVIOUS
<1>2. b \in Syms /\ Shifts(a, b) /\ b.reg = a.reg
      /\ \A k \in 1 .. 3 : b.slot[k] = IF k = j THEN a.reg[r] ELSE a.slot[k]
  <2>1. PICK x : x = a.reg[r]
    OBVIOUS
  <2>2. x \in Values /\ b = Fill(a, j, x) /\ a \in Syms
    BY <1>0, <1>1, <2>1
  <2>3. b \in Syms
    BY <2>2, SlotHolds
  <2>4. Shifts(a, b)
    BY <2>2, SlotHolds
  <2>5. b.reg = a.reg
    BY <2>2, SlotHolds
  <2>6. \A k \in 1 .. 3 : b.slot[k] = IF k = j THEN x ELSE a.slot[k]
    BY <2>2, SlotHolds
  <2> QED  BY <2>1, <2>3, <2>4, <2>5, <2>6
<1>3. RStoreSlot(v, i, a, b)
  BY <1>1 DEF RStoreSlot
<1>4. Fit(v, b)
  <2>1. \A k \in 1 .. 3 : b.slot[k].t \in {"any", "want"}
    BY <1>2, SlotFacts
  <2> QED  BY <1>2, <2>1, ShiftStable
<1> QED  BY <1>2, <1>3, <1>4 DEF Stepped, Plain, Rule, Fit

\* push.
LEMMA StepPush ==
  ASSUME NEW v, NEW a, Fit(v, a), NEW r \in Free, a.reg[r].t = "want",
         NEW d, NEW m, NEW n, (d = 1 /\ m = 0 /\ n = -1) \/ (d = 2 /\ m = -1 /\ n = -2),
         a.reg["RSP"] = Want("RSP", m)
  PROVE  \E b : /\ Stepped(v, <<"push", r>>, a, b) /\ Fit(v, b) /\ Shifts(a, b)
                /\ \A q \in Regs : b.reg[q] = IF q = "RSP" THEN Want("RSP", n) ELSE a.reg[q]
                /\ \A k \in 1 .. 3 : b.slot[k] = IF k = d THEN a.reg[r] ELSE a.slot[k]
<1> DEFINE i == <<"push", r>>
<1>0. a.reg[r] \in Values /\ a \in Syms /\ r \in Regs /\ r # "RSP"
  BY RegFacts DEF Fit, Syms
<1>1. PICK h : h = Hold(a, "RSP", Want("RSP", n))
  OBVIOUS
<1>8. Want("RSP", n) \in Values /\ d \in 1 .. 3
  BY ValueFacts, RegFacts
<1>2. h \in Syms /\ Has(a, h, "RSP", Want("RSP", n))
  BY <1>0, <1>1, <1>8, HoldFacts, RegFacts
<1>3. PICK b : b = Fill(h, d, a.reg[r])
  OBVIOUS
<1>4. b \in Syms /\ Shifts(h, b) /\ b.reg = h.reg
      /\ \A k \in 1 .. 3 : b.slot[k] = IF k = d THEN a.reg[r] ELSE h.slot[k]
  <2>1. PICK x : x = a.reg[r]
    OBVIOUS
  <2>2. x \in Values /\ b = Fill(h, d, x) /\ h \in Syms /\ d \in 1 .. 3
    BY <1>0, <1>2, <1>3, <1>8, <2>1
  <2>3. b \in Syms
    BY <2>2, SlotHolds
  <2>4. Shifts(h, b)
    BY <2>2, SlotHolds
  <2>5. b.reg = h.reg
    BY <2>2, SlotHolds
  <2>6. \A k \in 1 .. 3 : b.slot[k] = IF k = d THEN x ELSE h.slot[k]
    BY <2>2, SlotHolds
  <2> QED  BY <2>1, <2>3, <2>4, <2>5, <2>6
<1>5. RPush(v, i, a, b)
  <2>1. d \in 1 .. 2 /\ m = 1 - d /\ n = -d
    OBVIOUS
  <2> QED  BY <1>1, <1>3, <2>1 DEF RPush
<1>6. Shifts(a, b) /\ (\A q \in Regs : b.reg[q] = IF q = "RSP" THEN Want("RSP", n) ELSE a.reg[q])
      /\ \A k \in 1 .. 3 : b.slot[k] = IF k = d THEN a.reg[r] ELSE a.slot[k]
  BY <1>2, <1>4 DEF Shifts, Has, Same
<1>7. Fit(v, b)
  <2>1. \A k \in 1 .. 3 : b.slot[k].t \in {"any", "want"}
    BY <1>6, SlotFacts
  <2>2. b.reg["RSP"] = Want("RSP", n) /\ b.reg["R15"] = a.reg["R15"]
    BY <1>6, RegFacts
  <2> QED  BY <1>4, <1>6, <2>1, <2>2, ShiftStable
<1> QED  BY <1>4, <1>5, <1>6, <1>7 DEF Stepped, Plain, Rule, Fit

\* pop.
LEMMA StepPop ==
  ASSUME NEW v, NEW a, Fit(v, a), NEW r \in Free,
         NEW d, NEW m, NEW n, (d = 1 /\ m = -1 /\ n = 0) \/ (d = 2 /\ m = -2 /\ n = -1),
         a.reg["RSP"] = Want("RSP", m)
  PROVE  \E b : /\ Stepped(v, <<"pop", r>>, a, b) /\ Fit(v, b) /\ Shifts(a, b) /\ b.slot = a.slot
                /\ \A q \in Regs : b.reg[q] = IF q = "RSP" THEN Want("RSP", n)
                                              ELSE IF q = r THEN a.slot[d] ELSE a.reg[q]
<1> DEFINE i == <<"pop", r>>
<1>0. d \in 1 .. 3 /\ a \in Syms /\ r \in Regs /\ r # "RSP" /\ r # "R15"
  BY RegFacts DEF Fit
<1>1. PICK h : h = Hold(a, r, a.slot[d])
  OBVIOUS
<1>2. h \in Syms /\ Has(a, h, r, a.slot[d])
  BY <1>0, <1>1, HoldFacts, SlotFacts
<1>3. PICK b : b = Hold(h, "RSP", Want("RSP", n))
  OBVIOUS
<1> Want("RSP", n) \in Values
  BY ValueFacts, RegFacts
<1>4. b \in Syms /\ Has(h, b, "RSP", Want("RSP", n))
  BY <1>2, <1>3, HoldFacts, RegFacts
<1>5. RPop(v, i, a, b)
  <2>1. d \in 1 .. 2 /\ m = -d /\ n = 1 - d
    OBVIOUS
  <2> QED  BY <1>1, <1>3, <2>1 DEF RPop
<1>6. Shifts(a, b) /\ b.slot = a.slot
      /\ (\A q \in Regs : b.reg[q] = IF q = "RSP" THEN Want("RSP", n) ELSE IF q = r THEN a.slot[d] ELSE a.reg[q])
  BY <1>2, <1>4 DEF Shifts, Has, Same
<1>7. Fit(v, b)
  <2>1. \A k \in 1 .. 3 : b.slot[k].t \in {"any", "want"}
    BY <1>6, SlotFacts
  <2>2. b.reg["RSP"] = Want("RSP", n) /\ b.reg["R15"] = a.reg["R15"]
    BY <1>0, <1>6, RegFacts
  <2>3. b.reg["RSP"] \in {Want("RSP", -1), Here}
    BY <2>2 DEF Here
  <2> QED  BY <1>4, <1>6, <2>1, <2>2, <2>3, ShiftStable
<1> QED  BY <1>4, <1>5, <1>6, <1>7 DEF Stepped, Plain, Rule, Fit

\* A register comes back from below rsp.
LEMMA StepLoadSlot ==
  ASSUME NEW v, NEW a, Fit(v, a), NEW r \in Free, NEW j \in 1 .. 3, NEW n, n = -j, a.reg["RSP"] \in {Choice, Sure}
  PROVE  \E b : /\ Stepped(v, <<"load", r, "RSP", n>>, a, b) /\ Fit(v, b) /\ Shifts(a, b) /\ b.slot = a.slot
                /\ \A q \in Regs : b.reg[q] = IF q = "RSP" THEN Sure ELSE IF q = r THEN a.slot[j] ELSE a.reg[q]
<1> DEFINE i == <<"load", r, "RSP", n>>
<1>0. a \in Syms /\ r \in Regs /\ r # "RSP" /\ r # "R15"
  BY RegFacts DEF Fit
<1>1. PICK h : h = Hold(a, r, a.slot[j])
  OBVIOUS
<1>2. h \in Syms /\ Has(a, h, r, a.slot[j])
  BY <1>0, <1>1, HoldFacts, SlotFacts
<1>3. PICK b : b = Hold(h, "RSP", Sure)
  OBVIOUS
<1>4. b \in Syms /\ Has(h, b, "RSP", Sure)
  BY <1>2, <1>3, HoldFacts, ValueFacts, RegFacts
<1>5. RLoadSlot(v, i, a, b)
  BY <1>1, <1>3 DEF RLoadSlot
<1>6. Shifts(a, b) /\ b.slot = a.slot
      /\ (\A q \in Regs : b.reg[q] = IF q = "RSP" THEN Sure ELSE IF q = r THEN a.slot[j] ELSE a.reg[q])
  BY <1>2, <1>4 DEF Shifts, Has, Same
<1>7. Fit(v, b)
  <2>1. \A k \in 1 .. 3 : b.slot[k].t \in {"any", "want"}
    BY <1>6, SlotFacts
  <2>2. b.reg["RSP"] = Sure /\ b.reg["R15"] = a.reg["R15"]
    BY <1>0, <1>6, RegFacts
  <2> QED  BY <1>4, <1>6, <2>1, <2>2, ShiftStable
<1> QED  BY <1>4, <1>5, <1>6, <1>7 DEF Stepped, Plain, Rule, Fit

\* The entry is loaded and done with.
Takes(a, b, ptr) ==
  /\ b.slot = a.slot /\ b.ptr = ptr /\ b.mir = a.mir
  /\ b.pk = a.pk /\ b.zf = a.zf /\ b.fresh = a.fresh /\ b.ent = 0 /\ b.open = FALSE

\* An epilog loads the entry: its window closes.
LEMMA StepTake ==
  ASSUME NEW v, NEW a, Fit(v, a), Stacked(v), a.reg["R11"] = Ptr(0), a.ent > 0, Reads(v, a)
  PROVE  \E b : /\ Stepped(v, <<"load", "R11", "R11", 0>>, a, b) /\ Fit(v, b) /\ Takes(a, b, a.ptr)
                /\ \A q \in Regs : b.reg[q] = IF q = "R11" THEN Old ELSE a.reg[q]
<1> DEFINE i == <<"load", "R11", "R11", 0>>
<1>1. PICK h : h = Hold(a, "R11", Old)
  OBVIOUS
<1>2. h \in Syms /\ Has(a, h, "R11", Old)
  BY <1>1, HoldFacts, ValueFacts, RegFacts DEF Fit
<1>3. PICK b : b = [h EXCEPT !.ent = 0, !.open = FALSE]
  OBVIOUS
<1>4. b \in Syms /\ b.reg = h.reg /\ Takes(h, b, h.ptr)
  BY <1>2, <1>3 DEF Syms, Takes
<1>5. RLoadEntry(v, i, a, b)
  BY <1>1, <1>3 DEF RLoadEntry
<1>6. Takes(a, b, a.ptr) /\ \A q \in Regs : b.reg[q] = IF q = "R11" THEN Old ELSE a.reg[q]
  BY <1>2, <1>4 DEF Takes, Has, Same
<1>7. Stable(v, b) /\ b.reg["RSP"].t # "lit"
  <2>1. Top(v, b) = Top(v, a) /\ b.reg["RSP"] = a.reg["RSP"] /\ b.slot = a.slot /\ b.ent = 0
    BY <1>6, RegFacts DEF Top, Stacked, Takes
  <2> QED  BY <2>1 DEF Fit, Stable
<1> QED  BY <1>4, <1>5, <1>6, <1>7 DEF Stepped, Plain, Rule, Fit

\* SEG's epilog moves the pointer back and loads the entry.
LEMMA FlowTakeSeg ==
  ASSUME NEW v, NEW a, Fit(v, a), v.scheme = "SEG", a.reg["GS"] = Lit(ShadowBase), a.ptr = 2, a.ent = 2, Writes(v, a)
  PROVE  \E b : /\ Flows(v, <<<<"load", "R11", "GS", 0>>, <<"add", "R11", -2>>, <<"store", "GS", 0, "R11">>,
                              <<"load", "R11", "R11", 0>>>>, a, b)
                /\ Fit(v, b) /\ Takes(a, b, 0)
                /\ \A q \in Regs : b.reg[q] = IF q = "R11" THEN Old ELSE a.reg[q]
<1>0. Stacked(v) /\ Reads(v, a)
  BY DEF Stacked, Reads, Writes
<1>1. PICK c : Stepped(v, <<"load", "R11", "GS", 0>>, a, c) /\ Fit(v, c) /\ Has(a, c, "R11", Ptr(2))
  BY <1>0, RegFacts, StepLoadPtr
<1>2. c.reg["R11"] = Ptr(2)
  BY <1>1, RegFacts DEF Has
<1>3. PICK d : Stepped(v, <<"add", "R11", -2>>, c, d) /\ Fit(v, d) /\ Has(c, d, "R11", Ptr(0))
  BY <1>1, <1>2, RegFacts, StepAdd
<1>4. d.reg["R11"] = Ptr(0) /\ d.reg["GS"] = Lit(ShadowBase) /\ Writes(v, d) /\ d.ent = 2
  BY <1>1, <1>3, RegFacts DEF Has, Same, Writes
<1>5. PICK e : Stepped(v, <<"store", "GS", 0, "R11">>, d, e) /\ Fit(v, e) /\ Points(d, e, 0, TRUE)
  <2>1. \E e : /\ Stepped(v, <<"store", "GS", 0, "R11">>, d, e) /\ Fit(v, e)
               /\ Points(d, e, IF "R11" = "R11" THEN 0 ELSE 2, "R11" = "R11")
    BY <1>3, <1>4, StepStorePtr
  <2> QED  BY <2>1
<1>6. e.reg["R11"] = Ptr(0) /\ e.ent > 0 /\ Reads(v, e)
  BY <1>0, <1>1, <1>3, <1>4, <1>5 DEF Points, Reads, Has, Same
<1>7. PICK b : /\ Stepped(v, <<"load", "R11", "R11", 0>>, e, b) /\ Fit(v, b) /\ Takes(e, b, e.ptr)
               /\ \A q \in Regs : b.reg[q] = IF q = "R11" THEN Old ELSE e.reg[q]
  BY <1>0, <1>5, <1>6, StepTake
<1>8. Flows(v, <<<<"load", "R11", "GS", 0>>, <<"add", "R11", -2>>, <<"store", "GS", 0, "R11">>,
                 <<"load", "R11", "R11", 0>>>>, a, b)
  BY <1>1, <1>3, <1>5, <1>7, FlowFour
<1>9. Takes(a, b, 0)
  BY <1>1, <1>3, <1>5, <1>7 DEF Takes, Points, Has, Same
<1>10. \A q \in Regs : b.reg[q] = IF q = "R11" THEN Old ELSE a.reg[q]
  BY <1>1, <1>3, <1>5, <1>7 DEF Points, Has
<1> QED  BY <1>7, <1>8, <1>9, <1>10

\* So does MEM's.
LEMMA FlowTakeMem ==
  ASSUME NEW v, NEW a, Fit(v, a), v.scheme = "MEM", a.ptr = 2, a.ent = 2, Writes(v, a)
  PROVE  \E b : /\ Flows(v, <<<<"imm", "RDX", ShadowBase>>, <<"addm", "RDX", -2>>, <<"load", "R11", "RDX", 0>>,
                              <<"load", "R11", "R11", 0>>>>, a, b)
                /\ Fit(v, b) /\ Takes(a, b, 0)
                /\ \A q \in Regs : b.reg[q] = IF q = "R11" THEN Old ELSE IF q = "RDX" THEN Lit(ShadowBase) ELSE a.reg[q]
<1>0. Stacked(v) /\ Reads(v, a)
  BY DEF Stacked, Reads, Writes
<1>1. PICK c : Stepped(v, <<"imm", "RDX", ShadowBase>>, a, c) /\ Fit(v, c) /\ Has(a, c, "RDX", Lit(ShadowBase))
  BY RegFacts, StepImm
<1>2. c.reg["RDX"] = Lit(ShadowBase) /\ Writes(v, c) /\ c.ptr = 2
  BY <1>1, RegFacts DEF Has, Same, Writes
<1>3. PICK d : Stepped(v, <<"addm", "RDX", -2>>, c, d) /\ Fit(v, d) /\ Points(c, d, 0, TRUE)
  BY <1>1, <1>2, StepAddPtr
<1>4. d.reg["RDX"] = Lit(ShadowBase) /\ Reads(v, d) /\ d.ptr = 0
  BY <1>0, <1>1, <1>2, <1>3 DEF Points, Reads, Has, Same
<1>5. PICK e : Stepped(v, <<"load", "R11", "RDX", 0>>, d, e) /\ Fit(v, e) /\ Has(d, e, "R11", Ptr(0))
  BY <1>0, <1>3, <1>4, RegFacts, StepLoadPtr
<1>6. e.reg["R11"] = Ptr(0) /\ e.ent > 0 /\ Reads(v, e) /\ e.ptr = 0
  BY <1>1, <1>3, <1>4, <1>5, RegFacts DEF Points, Reads, Has, Same
<1>7. PICK b : /\ Stepped(v, <<"load", "R11", "R11", 0>>, e, b) /\ Fit(v, b) /\ Takes(e, b, e.ptr)
               /\ \A q \in Regs : b.reg[q] = IF q = "R11" THEN Old ELSE e.reg[q]
  BY <1>0, <1>5, <1>6, StepTake
<1>8. Flows(v, <<<<"imm", "RDX", ShadowBase>>, <<"addm", "RDX", -2>>, <<"load", "R11", "RDX", 0>>,
                 <<"load", "R11", "R11", 0>>>>, a, b)
  BY <1>1, <1>3, <1>5, <1>7, FlowFour
<1>9. Takes(a, b, 0)
  BY <1>1, <1>3, <1>5, <1>6, <1>7 DEF Takes, Points, Has, Same
<1>10. \A q \in Regs : b.reg[q] = IF q = "R11" THEN Old ELSE IF q = "RDX" THEN Lit(ShadowBase) ELSE a.reg[q]
  BY <1>1, <1>3, <1>5, <1>7 DEF Points, Has
<1> QED  BY <1>7, <1>8, <1>9, <1>10

\* REG's epilog loads the entry, then moves r15.
LEMMA FlowPopReg ==
  ASSUME NEW v, NEW a, Fit(v, a), v.scheme = "REG", a.reg["R15"] = Ptr(2), a.ent > 0, ~a.open, Reads(v, a)
  PROVE  \E b : /\ Flows(v, PopReg, a, b) /\ Fit(v, b) /\ Takes(a, b, a.ptr)
                /\ \A q \in Regs : b.reg[q] = IF q = "R11" THEN Old ELSE IF q = "R15" THEN Ptr(0) ELSE a.reg[q]
<1>1. PICK c : Stepped(v, <<"load", "R11", "R15", -2>>, a, c) /\ Fit(v, c) /\ Has(a, c, "R11", Old)
  <2>1. RLoadEntry(v, <<"load", "R11", "R15", -2>>, a, Hold(a, "R11", Old))
    BY DEF RLoadEntry
  <2>2. Rule(v, <<"load", "R11", "R15", -2>>, a, Hold(a, "R11", Old))
    BY <2>1 DEF Rule
  <2> QED  BY <2>2, StepFree, ValueFacts, RegFacts
<1>2. c.reg["R15"] = Ptr(2) /\ ~c.open /\ c \in Syms /\ Stable(v, c) /\ c.reg["RSP"].t # "lit"
  BY <1>1, RegFacts DEF Has, Same, Fit
<1>3. PICK h : h = Hold(c, "R15", Ptr(0))
  OBVIOUS
<1>4. h \in Syms /\ Has(c, h, "R15", Ptr(0))
  BY <1>2, <1>3, HoldFacts, ValueFacts, RegFacts
<1>5. PICK b : b = [h EXCEPT !.ent = 0]
  OBVIOUS
<1>6. b \in Syms /\ b.reg = h.reg /\ b.slot = h.slot /\ b.ptr = h.ptr /\ b.mir = h.mir
      /\ b.pk = h.pk /\ b.zf = h.zf /\ b.fresh = h.fresh /\ b.ent = 0 /\ b.open = h.open
  BY <1>4, <1>5 DEF Syms
<1>7. RBack(v, <<"add", "R15", -2>>, c, b)
  BY <1>2, <1>3, <1>5 DEF RBack
<1>8. \A q \in Regs : b.reg[q] = IF q = "R11" THEN Old ELSE IF q = "R15" THEN Ptr(0) ELSE a.reg[q]
  BY <1>1, <1>4, <1>6 DEF Has
<1>9. Takes(a, b, a.ptr)
  <2>1. a.open = FALSE
    BY DEF Fit, Syms
  <2> QED  BY <2>1, <1>1, <1>4, <1>6 DEF Takes, Has, Same
<1>10. Stable(v, b) /\ b.reg["RSP"].t # "lit"
  <2>1. Top(v, b) = 0 /\ b.reg["RSP"] = c.reg["RSP"] /\ b.slot = c.slot /\ b.ent = 0
    BY <1>4, <1>6, RegFacts DEF Top, Ptr, Has, Same
  <2> QED  BY <2>1, <1>2 DEF Stable
<1>11. Stepped(v, <<"add", "R15", -2>>, c, b)
  BY <1>2, <1>6, <1>7, <1>10 DEF Stepped, Plain, Rule
<1>12. Flows(v, PopReg, a, b)
  BY <1>1, <1>11, FlowTwo DEF PopReg
<1> QED  BY <1>6, <1>8, <1>9, <1>10, <1>12 DEF Fit

LoadMirror(v) == IF v.scheme = "PARR" THEN <<"loadx", "R11", "RSP", "R15">> ELSE <<"load", "R11", "RSP", ParOffset>>

\* PARR's and CON's epilogs load the mirror.
LEMMA StepLoadMirror ==
  ASSUME NEW v, NEW a, Fit(v, a), Mirrored(v), a.reg["RSP"] = Here, a.mir, Reads(v, a),
         v.scheme = "PARR" => a.reg["R15"] = Ptr(0)
  PROVE  \E b : Stepped(v, LoadMirror(v), a, b) /\ Fit(v, b) /\ Has(a, b, "R11", Old)
<1>1. RLoadMirror(v, LoadMirror(v), a, Hold(a, "R11", Old))
  BY DEF RLoadMirror, LoadMirror, Mirrored
<1>2. Rule(v, LoadMirror(v), a, Hold(a, "R11", Old))
  BY <1>1 DEF Rule
<1> QED  BY <1>2, StepFree, ValueFacts, RegFacts

\* r10 and r11 are kept for a tail call.
Kept(v, a) ==
  /\ "R11" \in v.reads /\ ~Clobbers(v) => a.slot[2] = Want("R11", 0)
  /\ "R10" \in v.reads => a.slot[3] = Want("R10", 0)
SavedAll(v, a) ==
  /\ "R11" \in v.reads => a.slot[2] = Want("R11", 0)
  /\ "R10" \in v.reads => a.slot[3] = Want("R10", 0)

\* One of r10 and r11 is kept, if the last instruction reads it.
LEMMA StepKeep ==
  ASSUME NEW v, NEW a, Started(v, a), NEW r \in Free, NEW j, NEW n, (j = 2 /\ n = -2) \/ (j = 3 /\ n = -3)
  PROVE  \E b : /\ Stepped(v, <<"store", "RSP", n, r>>, a, b) /\ Started(v, b)
                /\ b.slot[j] = Want(r, 0) /\ \A k \in 1 .. 3 : k # j => b.slot[k] = a.slot[k]
<1>1. Fit(v, a) /\ a.reg["RSP"] = Here /\ a.reg[r] = Want(r, 0) /\ j \in 1 .. 3 /\ n = -j
  BY DEF Started, Here
<1>2. a.reg[r].t = "want"
  BY <1>1 DEF Want
<1>4. PICK b : /\ Stepped(v, <<"store", "RSP", n, r>>, a, b) /\ Fit(v, b) /\ Shifts(a, b) /\ b.reg = a.reg
               /\ \A k \in 1 .. 3 : b.slot[k] = IF k = j THEN a.reg[r] ELSE a.slot[k]
  BY <1>1, <1>2, StepStoreSlot
<1>5. Complete(v, b)
  BY <1>4 DEF Started, Complete, Shifts, Top
<1>6. Started(v, b)
  BY <1>4, <1>5 DEF Started, Shifts
<1> QED  BY <1>1, <1>4, <1>6

\* SaveScratch keeps those the last instruction reads.
LEMMA FlowSaveScratch ==
  ASSUME NEW v, NEW a, Started(v, a)
  PROVE  \E b : Flows(v, SaveScratch(v), a, b) /\ Started(v, b) /\ SavedAll(v, b)
<1>1. PICK c : /\ Flows(v, If("R11" \in v.reads, <<<<"store", "RSP", -2, "R11">>>>), a, c) /\ Started(v, c)
               /\ "R11" \in v.reads => c.slot[2] = Want("R11", 0)
  <2>1. CASE "R11" \in v.reads
    <3>1. PICK c : Stepped(v, <<"store", "RSP", -2, "R11">>, a, c) /\ Started(v, c) /\ c.slot[2] = Want("R11", 0)
      BY RegFacts, StepKeep
    <3>2. Flows(v, <<<<"store", "RSP", -2, "R11">>>>, a, c)
      BY <3>1, FlowOne
    <3> QED  BY <2>1, <3>1, <3>2 DEF If
  <2>2. CASE "R11" \notin v.reads
    <3>1. Flows(v, << >>, a, a)
      BY FlowEmpty DEF Started, Fit
    <3> QED  BY <2>2, <3>1 DEF If
  <2> QED  BY <2>1, <2>2
<1>2. PICK b : /\ Flows(v, If("R10" \in v.reads, <<<<"store", "RSP", -3, "R10">>>>), c, b) /\ Started(v, b)
               /\ SavedAll(v, b)
  <2>1. CASE "R10" \in v.reads
    <3>1. PICK b : /\ Stepped(v, <<"store", "RSP", -3, "R10">>, c, b) /\ Started(v, b)
                   /\ b.slot[3] = Want("R10", 0) /\ \A k \in 1 .. 3 : k # 3 => b.slot[k] = c.slot[k]
      BY <1>1, RegFacts, StepKeep
    <3>2. Flows(v, <<<<"store", "RSP", -3, "R10">>>>, c, b)
      BY <3>1, FlowOne
    <3>3. SavedAll(v, b)
      BY <1>1, <3>1 DEF SavedAll
    <3> QED  BY <2>1, <3>1, <3>2, <3>3 DEF If
  <2>2. CASE "R10" \notin v.reads
    <3>1. Flows(v, << >>, c, c)
      BY <1>1, FlowEmpty DEF Started, Fit
    <3> QED  BY <1>1, <2>2, <3>1 DEF If, SavedAll
  <2> QED  BY <2>1, <2>2
<1>3. Flows(v, SaveScratch(v), a, b)
  BY <1>1, <1>2, FlowJoin DEF SaveScratch
<1> QED  BY <1>2, <1>3

\* The comparison can begin.
Popped(v, a) ==
  /\ Fit(v, a) /\ ~a.fresh /\ (v.mpk => a.pk = "lock")
  /\ a.reg["RSP"] = Here /\ a.reg["R11"] = Old /\ Top(v, a) = 0 /\ Balanced(v, a)
  /\ \A r \in v.reads \cap {"RAX", "RCX", "RDX"} : a.reg[r] = Want(r, 0)
  /\ Kept(v, a)

\* PopSeg, with pkeys: what is saved.
Reg1(v) == IF v.tail THEN "RCX" ELSE "RAX"
SegSaved(v, a) ==
  /\ Fit(v, a) /\ ~a.fresh /\ a.reg["R10"] = Want(Reg1(v), 0)
  /\ "R10" \in v.reads => a.slot[3] = Want("R10", 0)
  /\ IF "RAX" \in v.reads
       THEN a.reg["RSP"] = Want("RSP", -2) /\ a.slot[1] = Want("RAX", 0) /\ a.slot[2] = Want("RDX", 0)
       ELSE /\ a.reg["RSP"] = Want("RSP", -1) /\ a.slot[1] = Want("RDX", 0)
            /\ "R11" \in v.reads => a.slot[2] = Want("R11", 0)
SegHead(v) ==
  (If("RAX" \in v.reads, <<<<"push", "RAX">>>>) \o <<<<"mov", "R10", Reg1(v)>>, <<"push", "RDX">>>>) \o WRPKRUI(OpenAll)
SegTail(v) ==
  (Protect \o <<<<"mov", Reg1(v), "R10">>, <<"pop", "RDX">>>>) \o If("RAX" \in v.reads, <<<<"pop", "RAX">>>>)

\* What the caller left, by register.
LEMMA WantFacts ==
  /\ \A q, n : Want(q, n).t = "want"
  /\ Here = Want("RSP", 0)
BY DEF Want, Here

\* SEG's epilog with pkeys saves and opens.
LEMMA FlowSegHead ==
  ASSUME NEW v \in Variant, NEW a, Started(v, a), SavedAll(v, a), v.mpk, v.scheme = "SEG"
  PROVE  \E b : /\ Flows(v, SegHead(v), a, b) /\ SegSaved(v, b) /\ b.pk = "open"
                /\ b.reg["GS"] = Lit(ShadowBase) /\ b.ptr = 2 /\ b.ent = 2
<1>0. /\ Fit(v, a) /\ ~a.fresh /\ a.reg["GS"] = Lit(ShadowBase) /\ a.ptr = 2 /\ a.ent = 2
      /\ \A r \in Free \cup {"RSP"} : a.reg[r] = Want(r, 0)
  BY DEF Started, PageOf, Complete, Mirrored, Stacked, Top
<1>1. Reg1(v) \in {"RAX", "RCX"}
  BY DEF Reg1
<1>2. PICK c : /\ Flows(v, If("RAX" \in v.reads, <<<<"push", "RAX">>>>), a, c) /\ Fit(v, c) /\ Shifts(a, c)
               /\ \A r \in Free \cup {"GS"} : c.reg[r] = a.reg[r]
               /\ c.slot[2] = a.slot[2] /\ c.slot[3] = a.slot[3]
               /\ IF "RAX" \in v.reads THEN c.reg["RSP"] = Want("RSP", -1) /\ c.slot[1] = Want("RAX", 0)
                  ELSE c.reg["RSP"] = Want("RSP", 0)
  <2>1. CASE "RAX" \in v.reads
    <3>1. a.reg["RAX"] = Want("RAX", 0) /\ a.reg["RSP"] = Want("RSP", 0) /\ a.reg["RAX"].t = "want"
      BY <1>0, RegFacts, WantFacts
    <3>2. PICK c : /\ Stepped(v, <<"push", "RAX">>, a, c) /\ Fit(v, c) /\ Shifts(a, c)
                   /\ \A q \in Regs : c.reg[q] = IF q = "RSP" THEN Want("RSP", -1) ELSE a.reg[q]
                   /\ \A k \in 1 .. 3 : c.slot[k] = IF k = 1 THEN a.reg["RAX"] ELSE a.slot[k]
      BY <1>0, <3>1, RegFacts, StepPush
    <3>3. Flows(v, <<<<"push", "RAX">>>>, a, c)
      BY <3>2, FlowOne
    <3>4. c.slot[1] = Want("RAX", 0) /\ c.slot[2] = a.slot[2] /\ c.slot[3] = a.slot[3]
      BY <3>1, <3>2
    <3>5. c.reg["RSP"] = Want("RSP", -1) /\ \A r \in Free \cup {"GS"} : c.reg[r] = a.reg[r]
      BY <3>2, RegFacts
    <3> QED  BY <2>1, <3>2, <3>3, <3>4, <3>5 DEF If
  <2>2. CASE "RAX" \notin v.reads
    <3>1. Flows(v, << >>, a, a)
      BY <1>0, FlowEmpty DEF Fit
    <3>2. Shifts(a, a)
      BY DEF Shifts
    <3> QED  BY <1>0, <2>2, <3>1, <3>2 DEF If
  <2> QED  BY <2>1, <2>2
<1>3. /\ c.reg[Reg1(v)] = Want(Reg1(v), 0) /\ c.reg["RDX"] = Want("RDX", 0) /\ Reg1(v) \in Regs
      /\ c.reg["GS"] = Lit(ShadowBase)
  BY <1>0, <1>1, <1>2, RegFacts
<1>4. PICK d : Stepped(v, <<"mov", "R10", Reg1(v)>>, c, d) /\ Fit(v, d) /\ Has(c, d, "R10", c.reg[Reg1(v)])
  BY <1>2, <1>3, RegFacts, WantFacts, StepMov
<1>5. d.reg["RDX"] = Want("RDX", 0) /\ d.reg["RSP"] = c.reg["RSP"] /\ d.reg["GS"] = Lit(ShadowBase)
      /\ d.reg["R10"] = Want(Reg1(v), 0) /\ d.reg["RDX"].t = "want" /\ d.slot = c.slot
  BY <1>3, <1>4, RegFacts, WantFacts DEF Has, Same
<1>6. PICK e : /\ Stepped(v, <<"push", "RDX">>, d, e) /\ Fit(v, e) /\ Shifts(d, e)
               /\ e.reg["R10"] = Want(Reg1(v), 0) /\ e.reg["GS"] = Lit(ShadowBase) /\ e.slot[3] = c.slot[3]
               /\ IF "RAX" \in v.reads THEN e.reg["RSP"] = Want("RSP", -2) /\ e.slot[1] = c.slot[1] /\ e.slot[2] = Want("RDX", 0)
                  ELSE e.reg["RSP"] = Want("RSP", -1) /\ e.slot[1] = Want("RDX", 0) /\ e.slot[2] = c.slot[2]
  <2>1. CASE "RAX" \in v.reads
    <3>0. d.reg["RSP"] = Want("RSP", -1) /\ d.reg["RDX"].t = "want" /\ Fit(v, d)
      BY <1>2, <1>4, <1>5, <2>1
    <3>1. PICK e : /\ Stepped(v, <<"push", "RDX">>, d, e) /\ Fit(v, e) /\ Shifts(d, e)
                   /\ \A q \in Regs : e.reg[q] = IF q = "RSP" THEN Want("RSP", -2) ELSE d.reg[q]
                   /\ \A k \in 1 .. 3 : e.slot[k] = IF k = 2 THEN d.reg["RDX"] ELSE d.slot[k]
      BY <3>0, RegFacts, StepPush
    <3>2. e.reg["R10"] = d.reg["R10"] /\ e.reg["GS"] = d.reg["GS"] /\ e.reg["RSP"] = Want("RSP", -2)
      BY <3>1, RegFacts
    <3>3. e.slot[1] = c.slot[1] /\ e.slot[2] = Want("RDX", 0) /\ e.slot[3] = c.slot[3]
      BY <1>5, <3>1
    <3> QED  BY <1>5, <2>1, <3>1, <3>2, <3>3
  <2>2. CASE "RAX" \notin v.reads
    <3>0. d.reg["RSP"] = Want("RSP", 0) /\ d.reg["RDX"].t = "want" /\ Fit(v, d)
      BY <1>2, <1>4, <1>5, <2>2
    <3>1. PICK e : /\ Stepped(v, <<"push", "RDX">>, d, e) /\ Fit(v, e) /\ Shifts(d, e)
                   /\ \A q \in Regs : e.reg[q] = IF q = "RSP" THEN Want("RSP", -1) ELSE d.reg[q]
                   /\ \A k \in 1 .. 3 : e.slot[k] = IF k = 1 THEN d.reg["RDX"] ELSE d.slot[k]
      BY <3>0, RegFacts, StepPush
    <3>2. e.reg["R10"] = d.reg["R10"] /\ e.reg["GS"] = d.reg["GS"] /\ e.reg["RSP"] = Want("RSP", -1)
      BY <3>1, RegFacts
    <3>3. e.slot[1] = Want("RDX", 0) /\ e.slot[2] = c.slot[2] /\ e.slot[3] = c.slot[3]
      BY <1>5, <3>1
    <3> QED  BY <1>5, <2>2, <3>1, <3>2, <3>3
  <2> QED  BY <2>1, <2>2
<1>7. PICK b : /\ Flows(v, WRPKRUI(OpenAll), e, b) /\ Fit(v, b) /\ Locks(e, b, "open")
               /\ \A q \in Regs : b.reg[q] = IF q \in {"RAX", "RCX", "RDX"} THEN Lit(0) ELSE e.reg[q]
  BY <1>6, FlowUnlock
<1>8. Flows(v, <<<<"mov", "R10", Reg1(v)>>, <<"push", "RDX">>>>, c, e)
  BY <1>4, <1>6, FlowTwo
<1>9. Flows(v, SegHead(v), a, b)
  <2>1. Flows(v, If("RAX" \in v.reads, <<<<"push", "RAX">>>>) \o <<<<"mov", "R10", Reg1(v)>>, <<"push", "RDX">>>>, a, e)
    BY <1>2, <1>8, FlowJoin
  <2> QED  BY <2>1, <1>7, FlowJoin DEF SegHead
<1>10. b.reg["R10"] = e.reg["R10"] /\ b.reg["GS"] = e.reg["GS"] /\ b.reg["RSP"] = e.reg["RSP"] /\ b.slot = e.slot
  BY <1>7, RegFacts DEF Locks
<1>11. b.pk = "open" /\ b.ptr = 2 /\ b.ent = 2 /\ ~b.fresh
  BY <1>0, <1>2, <1>4, <1>6, <1>7 DEF Locks, Shifts, Has, Same
<1>12. SegSaved(v, b)
  BY <1>2, <1>6, <1>7, <1>10, <1>11 DEF SegSaved, SavedAll
<1> QED  BY <1>6, <1>9, <1>10, <1>11, <1>12

\* It locks and restores: the pushes may have overwritten r11's slot.
LEMMA FlowSegTail ==
  ASSUME NEW v \in Variant, NEW a, SegSaved(v, a), v.mpk, v.scheme = "SEG", a.reg["R11"] = Old, a.ptr = 0
  PROVE  \E b : Flows(v, SegTail(v), a, b) /\ Popped(v, b)
<1>0. Reg1(v) \in {"RAX", "RCX"} /\ Reg1(v) \in Free /\ Fit(v, a) /\ a.reg["R10"] = Want(Reg1(v), 0)
  BY RegFacts DEF Reg1, SegSaved
<1>1. PICK c : /\ Flows(v, Protect, a, c) /\ Fit(v, c) /\ Locks(a, c, "lock")
               /\ \A q \in Regs : c.reg[q] = IF q = "RAX" THEN Lit(WriteProt) ELSE a.reg[q]
  BY <1>0, FlowProtect
<1>2. c.reg["R10"] = Want(Reg1(v), 0) /\ c.reg["RSP"] = a.reg["RSP"] /\ c.reg["R11"] = Old /\ c.slot = a.slot
  BY <1>0, <1>1, RegFacts DEF Locks
<1>3. PICK d : Stepped(v, <<"mov", Reg1(v), "R10">>, c, d) /\ Fit(v, d) /\ Has(c, d, Reg1(v), c.reg["R10"])
  BY <1>0, <1>1, <1>2, RegFacts, WantFacts, StepMov
<1>4. d.reg[Reg1(v)] = Want(Reg1(v), 0) /\ d.reg["RSP"] = a.reg["RSP"] /\ d.reg["R11"] = Old /\ d.slot = a.slot
  BY <1>0, <1>2, <1>3, RegFacts DEF Has, Same
<1>5. PICK e : /\ Stepped(v, <<"pop", "RDX">>, d, e) /\ Fit(v, e) /\ Shifts(d, e) /\ e.slot = a.slot
               /\ e.reg["RDX"] = Want("RDX", 0) /\ e.reg["R11"] = Old /\ e.reg[Reg1(v)] = Want(Reg1(v), 0)
               /\ e.reg["RSP"] = IF "RAX" \in v.reads THEN Want("RSP", -1) ELSE Want("RSP", 0)
  <2>1. CASE "RAX" \in v.reads
    <3>1. d.reg["RSP"] = Want("RSP", -2) /\ d.slot[2] = Want("RDX", 0)
      BY <1>4, <2>1 DEF SegSaved
    <3>2. PICK e : /\ Stepped(v, <<"pop", "RDX">>, d, e) /\ Fit(v, e) /\ Shifts(d, e) /\ e.slot = d.slot
                   /\ \A q \in Regs : e.reg[q] = IF q = "RSP" THEN Want("RSP", -1)
                                                 ELSE IF q = "RDX" THEN d.slot[2] ELSE d.reg[q]
      BY <1>3, <3>1, RegFacts, StepPop
    <3>3. e.reg["RDX"] = Want("RDX", 0) /\ e.reg["R11"] = Old /\ e.reg[Reg1(v)] = d.reg[Reg1(v)] /\ e.reg["RSP"] = Want("RSP", -1)
      BY <1>0, <1>4, <3>1, <3>2, RegFacts
    <3> QED  BY <1>4, <2>1, <3>2, <3>3
  <2>2. CASE "RAX" \notin v.reads
    <3>1. d.reg["RSP"] = Want("RSP", -1) /\ d.slot[1] = Want("RDX", 0)
      BY <1>4, <2>2 DEF SegSaved
    <3>2. PICK e : /\ Stepped(v, <<"pop", "RDX">>, d, e) /\ Fit(v, e) /\ Shifts(d, e) /\ e.slot = d.slot
                   /\ \A q \in Regs : e.reg[q] = IF q = "RSP" THEN Want("RSP", 0)
                                                 ELSE IF q = "RDX" THEN d.slot[1] ELSE d.reg[q]
      BY <1>3, <3>1, RegFacts, StepPop
    <3>3. e.reg["RDX"] = Want("RDX", 0) /\ e.reg["R11"] = Old /\ e.reg[Reg1(v)] = d.reg[Reg1(v)] /\ e.reg["RSP"] = Want("RSP", 0)
      BY <1>0, <1>4, <3>1, <3>2, RegFacts
    <3> QED  BY <1>4, <2>2, <3>2, <3>3
  <2> QED  BY <2>1, <2>2
<1>6. PICK b : /\ Flows(v, If("RAX" \in v.reads, <<<<"pop", "RAX">>>>), e, b) /\ Fit(v, b) /\ Shifts(e, b) /\ b.slot = a.slot
               /\ b.reg["RDX"] = Want("RDX", 0) /\ b.reg["R11"] = Old /\ b.reg["RSP"] = Want("RSP", 0)
               /\ "RAX" \in v.reads => b.reg["RAX"] = Want("RAX", 0)
               /\ Reg1(v) = "RCX" => b.reg["RCX"] = Want("RCX", 0)
  <2>1. CASE "RAX" \in v.reads
    <3>1. e.reg["RSP"] = Want("RSP", -1) /\ e.slot[1] = Want("RAX", 0)
      BY <1>5, <2>1 DEF SegSaved
    <3>2. PICK b : /\ Stepped(v, <<"pop", "RAX">>, e, b) /\ Fit(v, b) /\ Shifts(e, b) /\ b.slot = e.slot
                   /\ \A q \in Regs : b.reg[q] = IF q = "RSP" THEN Want("RSP", 0)
                                                 ELSE IF q = "RAX" THEN e.slot[1] ELSE e.reg[q]
      BY <1>5, <3>1, RegFacts, StepPop
    <3>3. b.reg["RAX"] = Want("RAX", 0) /\ b.reg["RDX"] = e.reg["RDX"] /\ b.reg["R11"] = Old /\ b.reg["RSP"] = Want("RSP", 0)
          /\ b.reg["RCX"] = e.reg["RCX"]
      BY <1>5, <3>1, <3>2, RegFacts
    <3>4. Flows(v, <<<<"pop", "RAX">>>>, e, b)
      BY <3>2, FlowOne
    <3> QED  BY <1>5, <2>1, <3>2, <3>3, <3>4 DEF If
  <2>2. CASE "RAX" \notin v.reads
    <3>1. Flows(v, << >>, e, e)
      BY <1>5, FlowEmpty DEF Fit
    <3>2. Shifts(e, e)
      BY DEF Shifts
    <3> QED  BY <1>5, <2>2, <3>1, <3>2 DEF If
  <2> QED  BY <2>1, <2>2
<1>7. Flows(v, SegTail(v), a, b)
  <2>1. Flows(v, <<<<"mov", Reg1(v), "R10">>, <<"pop", "RDX">>>>, c, e)
    BY <1>3, <1>5, FlowTwo
  <2>2. Flows(v, Protect \o <<<<"mov", Reg1(v), "R10">>, <<"pop", "RDX">>>>, a, e)
    BY <2>1, <1>1, FlowJoin
  <2> QED  BY <2>2, <1>6, FlowJoin DEF SegTail
<1>8. b.pk = "lock" /\ ~b.fresh /\ b.ptr = 0
  BY <1>1, <1>3, <1>5, <1>6 DEF Locks, Shifts, Has, Same, SegSaved
<1>9. Top(v, b) = 0 /\ Balanced(v, b)
  BY <1>8 DEF Top, Stacked, Balanced
<1>10. \A r \in v.reads \cap {"RAX", "RCX", "RDX"} : b.reg[r] = Want(r, 0)
  <2>1. "RCX" \in v.reads => Reg1(v) = "RCX"
    BY DEF Variant, Reg1
  <2> QED  BY <1>6, <2>1
<1>11. Kept(v, b)
  BY <1>6 DEF Kept, SegSaved, Clobbers
<1> QED  BY <1>6, <1>7, <1>8, <1>9, <1>10, <1>11, WantFacts DEF Popped

\* SEG's epilog as a whole, up to the comparison.
LEMMA FlowPopSeg ==
  ASSUME NEW v \in Variant, NEW a, Started(v, a), SavedAll(v, a), v.scheme = "SEG"
  PROVE  \E b : Flows(v, PopSeg(v), a, b) /\ Popped(v, b)
<1> DEFINE four == <<<<"load", "R11", "GS", 0>>, <<"add", "R11", -2>>, <<"store", "GS", 0, "R11">>,
                     <<"load", "R11", "R11", 0>>>>
<1>1. PopSeg(v) = (If(v.mpk, SegHead(v)) \o four) \o If(v.mpk, SegTail(v))
  BY DEF PopSeg, SegHead, SegTail, Reg1
<1>2. CASE v.mpk
  <2>1. PICK c : /\ Flows(v, SegHead(v), a, c) /\ SegSaved(v, c) /\ c.pk = "open"
                 /\ c.reg["GS"] = Lit(ShadowBase) /\ c.ptr = 2 /\ c.ent = 2
    BY <1>2, FlowSegHead
  <2>2. PICK d : /\ Flows(v, four, c, d) /\ Fit(v, d) /\ Takes(c, d, 0)
                 /\ \A q \in Regs : d.reg[q] = IF q = "R11" THEN Old ELSE c.reg[q]
    BY <2>1, FlowTakeSeg DEF SegSaved, Writes
  <2> HIDE DEF four
  <2>3. d.reg["R11"] = Old /\ d.reg["R10"] = c.reg["R10"] /\ d.reg["RSP"] = c.reg["RSP"]
    BY <2>2, RegFacts
  <2>4. SegSaved(v, d) /\ d.ptr = 0
    BY <2>1, <2>2, <2>3 DEF SegSaved, Takes
  <2>5. PICK b : Flows(v, SegTail(v), d, b) /\ Popped(v, b)
    BY <1>2, <2>3, <2>4, FlowSegTail
  <2>6. Flows(v, SegHead(v) \o four, a, d)
    BY <2>1, <2>2, FlowJoin
  <2>7. Flows(v, (SegHead(v) \o four) \o SegTail(v), a, b)
    BY <2>5, <2>6, FlowJoin
  <2> QED  BY <1>1, <1>2, <2>5, <2>7 DEF If
<1>3. CASE ~v.mpk
  <2>1. /\ Fit(v, a) /\ ~a.fresh /\ a.reg["GS"] = Lit(ShadowBase) /\ a.ptr = 2 /\ a.ent = 2 /\ Writes(v, a)
        /\ \A r \in Free \cup {"RSP"} : a.reg[r] = Want(r, 0)
    BY <1>3 DEF Started, PageOf, Complete, Mirrored, Stacked, Top, Writes
  <2>2. PICK b : /\ Flows(v, four, a, b) /\ Fit(v, b) /\ Takes(a, b, 0)
                 /\ \A q \in Regs : b.reg[q] = IF q = "R11" THEN Old ELSE a.reg[q]
    BY <2>1, FlowTakeSeg
  <2> HIDE DEF four
  <2>3. b.reg["R11"] = Old /\ b.reg["RSP"] = Here /\ \A r \in {"RAX", "RCX", "RDX"} : b.reg[r] = Want(r, 0)
    BY <2>1, <2>2, RegFacts, WantFacts
  <2>4. Top(v, b) = 0 /\ Balanced(v, b)
    BY <2>2 DEF Takes, Top, Stacked, Balanced
  <2>5. Popped(v, b)
    BY <1>3, <2>1, <2>2, <2>3, <2>4 DEF Popped, Kept, SavedAll, Takes
  <2>6. Flows(v, << >>, a, a) /\ Flows(v, << >>, b, b)
    BY <2>1, <2>2, FlowEmpty DEF Fit
  <2>7. Flows(v, << >> \o four, a, b)
    BY <2>2, <2>6, FlowJoin
  <2>8. Flows(v, (<< >> \o four) \o << >>, a, b)
    BY <2>6, <2>7, FlowJoin
  <2> QED  BY <1>1, <1>3, <2>5, <2>8 DEF If
<1> QED  BY <1>2, <1>3

\* PopMem: what is saved.
MemSaved(v, a) ==
  /\ Fit(v, a) /\ ~a.fresh /\ a.reg["R10"] = Want("RAX", 0) /\ a.slot[1] = Want("RDX", 0)
  /\ "R10" \in v.reads => a.slot[3] = Want("R10", 0)
  /\ IF v.mpk
       THEN a.reg["RSP"] = Want("RSP", -2) /\ a.slot[2] = Want("RCX", 0)
       ELSE /\ a.reg["RSP"] = Want("RSP", -1) /\ a.reg["RCX"] = Want("RCX", 0)
            /\ "R11" \in v.reads => a.slot[2] = Want("R11", 0)
MemHead(v) == <<<<"mov", "R10", "RAX">>, <<"push", "RDX">>>> \o If(v.mpk, <<<<"push", "RCX">>>> \o WRPKRUI(OpenAll))

\* MEM's epilog saves and opens.
LEMMA FlowMemHead ==
  ASSUME NEW v \in Variant, NEW a, Started(v, a), SavedAll(v, a), v.scheme = "MEM"
  PROVE  \E b : Flows(v, MemHead(v), a, b) /\ MemSaved(v, b) /\ Writes(v, b) /\ b.ptr = 2 /\ b.ent = 2
<1>0. /\ Fit(v, a) /\ ~a.fresh /\ a.ptr = 2 /\ a.ent = 2
      /\ \A r \in Free \cup {"RSP"} : a.reg[r] = Want(r, 0)
  BY DEF Started, Complete, Mirrored, Stacked, Top
<1>1. PICK c : Stepped(v, <<"mov", "R10", "RAX">>, a, c) /\ Fit(v, c) /\ Has(a, c, "R10", a.reg["RAX"])
  <2>1. a.reg["RAX"].t = "want"
    BY <1>0, RegFacts, WantFacts
  <2> QED  BY <2>1, <1>0, RegFacts, StepMov
<1>2. c.reg["R10"] = Want("RAX", 0) /\ c.reg["RDX"] = Want("RDX", 0) /\ c.reg["RCX"] = Want("RCX", 0)
      /\ c.reg["RSP"] = Want("RSP", 0) /\ c.slot = a.slot /\ c.reg["RDX"].t = "want"
  BY <1>0, <1>1, RegFacts, WantFacts DEF Has, Same
<1>3. PICK d : /\ Stepped(v, <<"push", "RDX">>, c, d) /\ Fit(v, d) /\ Shifts(c, d)
               /\ \A q \in Regs : d.reg[q] = IF q = "RSP" THEN Want("RSP", -1) ELSE c.reg[q]
               /\ \A k \in 1 .. 3 : d.slot[k] = IF k = 1 THEN c.reg["RDX"] ELSE c.slot[k]
  BY <1>1, <1>2, RegFacts, StepPush
<1>4. d.reg["R10"] = Want("RAX", 0) /\ d.reg["RCX"] = Want("RCX", 0) /\ d.reg["RSP"] = Want("RSP", -1) /\ d.reg["RCX"].t = "want"
  BY <1>2, <1>3, RegFacts, WantFacts
<1>5. d.slot[1] = Want("RDX", 0) /\ d.slot[2] = a.slot[2] /\ d.slot[3] = a.slot[3]
  BY <1>2, <1>3
<1>6. Flows(v, <<<<"mov", "R10", "RAX">>, <<"push", "RDX">>>>, a, d)
  BY <1>1, <1>3, FlowTwo
<1>7. d.ptr = 2 /\ d.ent = 2 /\ ~d.fresh
  BY <1>0, <1>1, <1>3 DEF Has, Same, Shifts
<1>8. CASE v.mpk
  <2>1. PICK e : /\ Stepped(v, <<"push", "RCX">>, d, e) /\ Fit(v, e) /\ Shifts(d, e)
                 /\ \A q \in Regs : e.reg[q] = IF q = "RSP" THEN Want("RSP", -2) ELSE d.reg[q]
                 /\ \A k \in 1 .. 3 : e.slot[k] = IF k = 2 THEN d.reg["RCX"] ELSE d.slot[k]
    BY <1>3, <1>4, RegFacts, StepPush
  <2>2. e.reg["R10"] = Want("RAX", 0) /\ e.reg["RSP"] = Want("RSP", -2)
    BY <1>4, <2>1, RegFacts
  <2>3. e.slot[1] = Want("RDX", 0) /\ e.slot[2] = Want("RCX", 0) /\ e.slot[3] = a.slot[3]
    BY <1>4, <1>5, <2>1
  <2>4. PICK b : /\ Flows(v, WRPKRUI(OpenAll), e, b) /\ Fit(v, b) /\ Locks(e, b, "open")
                 /\ \A q \in Regs : b.reg[q] = IF q \in {"RAX", "RCX", "RDX"} THEN Lit(0) ELSE e.reg[q]
    BY <1>8, <2>1, FlowUnlock
  <2>5. b.reg["R10"] = Want("RAX", 0) /\ b.reg["RSP"] = Want("RSP", -2) /\ b.slot = e.slot
    BY <2>2, <2>4, RegFacts DEF Locks
  <2>6. Flows(v, <<<<"push", "RCX">>>>, d, e)
    BY <2>1, FlowOne
  <2>7. Flows(v, <<<<"push", "RCX">>>> \o WRPKRUI(OpenAll), d, b)
    BY <2>4, <2>6, FlowJoin
  <2>8. Flows(v, MemHead(v), a, b)
    BY <1>6, <1>8, <2>7, FlowJoin DEF MemHead, If
  <2>9. b.ptr = 2 /\ b.ent = 2 /\ ~b.fresh /\ b.pk = "open"
    BY <1>7, <2>1, <2>4 DEF Shifts, Locks
  <2>10. MemSaved(v, b)
    BY <1>8, <2>3, <2>4, <2>5, <2>9 DEF MemSaved, SavedAll
  <2> QED  BY <2>8, <2>9, <2>10 DEF Writes
<1>9. CASE ~v.mpk
  <2>1. Flows(v, << >>, d, d)
    BY <1>3, FlowEmpty DEF Fit
  <2>2. Flows(v, MemHead(v), a, d)
    BY <1>6, <1>9, <2>1, FlowJoin DEF MemHead, If
  <2>3. MemSaved(v, d)
    BY <1>3, <1>4, <1>5, <1>7, <1>9 DEF MemSaved, SavedAll
  <2> QED  BY <1>7, <1>9, <2>2, <2>3 DEF Writes
<1> QED  BY <1>8, <1>9

\* It locks and restores.
LEMMA FlowMemTail ==
  ASSUME NEW v \in Variant, NEW a, MemSaved(v, a), v.scheme = "MEM", a.reg["R11"] = Old, a.ptr = 0
  PROVE  \E b : /\ Flows(v, If(v.mpk, (<<<<"imm", "RDX", 0>>>> \o Protect) \o <<<<"pop", "RCX">>>>), a, b)
                /\ Fit(v, b) /\ ~b.fresh /\ (v.mpk => b.pk = "lock") /\ b.ptr = 0
                /\ b.reg["R10"] = Want("RAX", 0) /\ b.reg["R11"] = Old /\ b.reg["RCX"] = Want("RCX", 0)
                /\ b.reg["RSP"] = Want("RSP", -1) /\ b.slot = a.slot
<1>1. CASE v.mpk
  <2>0. Fit(v, a) /\ ~a.fresh /\ a.reg["R10"] = Want("RAX", 0) /\ a.reg["RSP"] = Want("RSP", -2) /\ a.slot[2] = Want("RCX", 0)
    BY <1>1 DEF MemSaved
  <2>1. PICK c : Stepped(v, <<"imm", "RDX", 0>>, a, c) /\ Fit(v, c) /\ Has(a, c, "RDX", Lit(0))
    BY <2>0, RegFacts, StepImm
  <2>2. PICK d : /\ Flows(v, Protect, c, d) /\ Fit(v, d) /\ Locks(c, d, "lock")
                 /\ \A q \in Regs : d.reg[q] = IF q = "RAX" THEN Lit(WriteProt) ELSE c.reg[q]
    BY <1>1, <2>1, FlowProtect
  <2>3. d.reg["R10"] = Want("RAX", 0) /\ d.reg["R11"] = Old /\ d.reg["RSP"] = Want("RSP", -2) /\ d.slot = a.slot
    BY <2>0, <2>1, <2>2, RegFacts DEF Has, Same, Locks
  <2>4. PICK b : /\ Stepped(v, <<"pop", "RCX">>, d, b) /\ Fit(v, b) /\ Shifts(d, b) /\ b.slot = d.slot
                 /\ \A q \in Regs : b.reg[q] = IF q = "RSP" THEN Want("RSP", -1)
                                               ELSE IF q = "RCX" THEN d.slot[2] ELSE d.reg[q]
    BY <2>2, <2>3, RegFacts, StepPop
  <2>5. b.reg["R10"] = Want("RAX", 0) /\ b.reg["R11"] = Old /\ b.reg["RCX"] = Want("RCX", 0) /\ b.reg["RSP"] = Want("RSP", -1)
    BY <2>0, <2>3, <2>4, RegFacts
  <2>6. Flows(v, <<<<"imm", "RDX", 0>>>>, a, c) /\ Flows(v, <<<<"pop", "RCX">>>>, d, b)
    BY <2>1, <2>4, FlowOne
  <2>7. Flows(v, <<<<"imm", "RDX", 0>>>> \o Protect, a, d)
    BY <2>2, <2>6, FlowJoin
  <2>8. Flows(v, (<<<<"imm", "RDX", 0>>>> \o Protect) \o <<<<"pop", "RCX">>>>, a, b)
    BY <2>6, <2>7, FlowJoin
  <2>9. b.pk = "lock" /\ ~b.fresh /\ b.ptr = 0
    BY <2>0, <2>1, <2>2, <2>4 DEF Has, Same, Locks, Shifts
  <2> QED  BY <1>1, <2>3, <2>4, <2>5, <2>8, <2>9 DEF If
<1>2. CASE ~v.mpk
  <2>1. Flows(v, << >>, a, a)
    BY FlowEmpty DEF MemSaved, Fit
  <2> QED  BY <1>2, <2>1 DEF MemSaved, If
<1> QED  BY <1>1, <1>2

\* MEM's epilog as a whole, up to the comparison.
LEMMA FlowPopMem ==
  ASSUME NEW v \in Variant, NEW a, Started(v, a), SavedAll(v, a), v.scheme = "MEM"
  PROVE  \E b : Flows(v, PopMem(v), a, b) /\ Popped(v, b)
<1> DEFINE four == <<<<"imm", "RDX", ShadowBase>>, <<"addm", "RDX", -2>>, <<"load", "R11", "RDX", 0>>,
                     <<"load", "R11", "R11", 0>>>>
           tail == If(v.mpk, (<<<<"imm", "RDX", 0>>>> \o Protect) \o <<<<"pop", "RCX">>>>)
           last == <<<<"pop", "RDX">>, <<"mov", "RAX", "R10">>>>
<1>1. PopMem(v) = ((MemHead(v) \o four) \o tail) \o last
  BY DEF PopMem, MemHead
<1>2. PICK c : Flows(v, MemHead(v), a, c) /\ MemSaved(v, c) /\ Writes(v, c) /\ c.ptr = 2 /\ c.ent = 2
  BY FlowMemHead
<1>3. PICK d : /\ Flows(v, four, c, d) /\ Fit(v, d) /\ Takes(c, d, 0)
               /\ \A q \in Regs : d.reg[q] = IF q = "R11" THEN Old ELSE IF q = "RDX" THEN Lit(ShadowBase) ELSE c.reg[q]
  BY <1>2, FlowTakeMem DEF MemSaved
<1>4. d.reg["R11"] = Old /\ d.reg["R10"] = c.reg["R10"] /\ d.reg["RSP"] = c.reg["RSP"] /\ d.reg["RCX"] = c.reg["RCX"]
  BY <1>3, RegFacts
<1>5. MemSaved(v, d) /\ d.ptr = 0 /\ d.slot = c.slot
  BY <1>2, <1>3, <1>4 DEF MemSaved, Takes
<1>6. PICK e : /\ Flows(v, tail, d, e)
               /\ Fit(v, e) /\ ~e.fresh /\ (v.mpk => e.pk = "lock") /\ e.ptr = 0
               /\ e.reg["R10"] = Want("RAX", 0) /\ e.reg["R11"] = Old /\ e.reg["RCX"] = Want("RCX", 0)
               /\ e.reg["RSP"] = Want("RSP", -1) /\ e.slot = d.slot
  BY <1>4, <1>5, FlowMemTail
<1>7. PICK f : /\ Stepped(v, <<"pop", "RDX">>, e, f) /\ Fit(v, f) /\ Shifts(e, f) /\ f.slot = e.slot
               /\ \A q \in Regs : f.reg[q] = IF q = "RSP" THEN Want("RSP", 0)
                                             ELSE IF q = "RDX" THEN e.slot[1] ELSE e.reg[q]
  BY <1>6, RegFacts, StepPop
<1>8. f.reg["R10"] = Want("RAX", 0) /\ f.reg["R11"] = Old /\ f.reg["RCX"] = Want("RCX", 0) /\ f.reg["RSP"] = Here
      /\ f.reg["RDX"] = Want("RDX", 0) /\ f.reg["R10"].t = "want"
  BY <1>5, <1>6, <1>7, RegFacts, WantFacts DEF MemSaved
<1>9. PICK b : Stepped(v, <<"mov", "RAX", "R10">>, f, b) /\ Fit(v, b) /\ Has(f, b, "RAX", f.reg["R10"])
  BY <1>7, <1>8, RegFacts, StepMov
<1>10. b.reg["RAX"] = Want("RAX", 0) /\ b.reg["R11"] = Old /\ b.reg["RCX"] = Want("RCX", 0) /\ b.reg["RSP"] = Here
       /\ b.reg["RDX"] = Want("RDX", 0)
  BY <1>8, <1>9, RegFacts DEF Has
<1>11. Flows(v, last, e, b)
  BY <1>7, <1>9, FlowTwo
<1> HIDE DEF four, tail, last
<1>12. Flows(v, MemHead(v) \o four, a, d)
  BY <1>2, <1>3, FlowJoin
<1>13. Flows(v, (MemHead(v) \o four) \o tail, a, e)
  BY <1>6, <1>12, FlowJoin
<1>14. Flows(v, ((MemHead(v) \o four) \o tail) \o last, a, b)
  BY <1>11, <1>13, FlowJoin
<1>15. ~b.fresh /\ (v.mpk => b.pk = "lock") /\ b.ptr = 0 /\ b.slot = d.slot
  BY <1>6, <1>7, <1>9 DEF Has, Same, Shifts
<1>16. Top(v, b) = 0 /\ Balanced(v, b)
  BY <1>15 DEF Top, Stacked, Balanced
<1>17. Kept(v, b)
  BY <1>5, <1>15 DEF Kept, MemSaved, Clobbers
<1>18. Popped(v, b)
  BY <1>9, <1>10, <1>15, <1>16, <1>17 DEF Popped
<1> QED  BY <1>1, <1>14, <1>18

\* How the entry is loaded, in all schemes.
Popping(v) ==
  CASE v.scheme = "REG" -> PopReg
    [] v.scheme = "SEG" -> PopSeg(v)
    [] v.scheme = "MEM" -> PopMem(v)
    [] OTHER -> <<LoadMirror(v)>>

\* Every epilog has the saved return address in r11 and the registers back.
LEMMA FlowPopping ==
  ASSUME NEW v \in Variant, NEW a, Started(v, a), SavedAll(v, a)
  PROVE  \E b : Flows(v, Popping(v), a, b) /\ Popped(v, b)
<1>0. /\ Fit(v, a) /\ ~a.fresh /\ ~a.open /\ (v.mpk => a.pk = "lock") /\ Reads(v, a) /\ a.reg["R15"] = Final(v)
      /\ \A r \in Free \cup {"RSP"} : a.reg[r] = Want(r, 0)
  BY DEF Started, Reads
<1>1. CASE v.scheme = "REG"
  <2>1. a.reg["R15"] = Ptr(2) /\ a.ent > 0
    BY <1>0, <1>1 DEF Final, Started, Complete, Mirrored
  <2>2. PICK b : /\ Flows(v, PopReg, a, b) /\ Fit(v, b) /\ Takes(a, b, a.ptr)
                 /\ \A q \in Regs : b.reg[q] = IF q = "R11" THEN Old ELSE IF q = "R15" THEN Ptr(0) ELSE a.reg[q]
    BY <1>0, <1>1, <2>1, FlowPopReg
  <2>3. b.reg["R11"] = Old /\ b.reg["R15"] = Ptr(0) /\ b.reg["RSP"] = Here /\ \A r \in {"RAX", "RCX", "RDX"} : b.reg[r] = Want(r, 0)
    BY <1>0, <2>2, RegFacts, WantFacts
  <2>4. Top(v, b) = 0 /\ Balanced(v, b)
    BY <1>1, <2>3 DEF Top, Balanced, Ptr
  <2>5. Popped(v, b)
    BY <1>0, <2>2, <2>3, <2>4 DEF Popped, Kept, SavedAll, Takes
  <2> QED  BY <1>1, <2>2, <2>5 DEF Popping
<1>2. CASE v.scheme = "SEG"
  BY <1>2, FlowPopSeg DEF Popping
<1>3. CASE v.scheme = "MEM"
  BY <1>3, FlowPopMem DEF Popping
<1>4. CASE v.scheme \in {"PARR", "CON"}
  <2>1. Mirrored(v) /\ a.mir /\ a.reg["RSP"] = Here /\ (v.scheme = "PARR" => a.reg["R15"] = Ptr(0))
    BY <1>0, <1>4, WantFacts DEF Mirrored, Started, Complete, Final
  <2>2. PICK b : Stepped(v, LoadMirror(v), a, b) /\ Fit(v, b) /\ Has(a, b, "R11", Old)
    BY <1>0, <2>1, StepLoadMirror
  <2>3. b.reg["R11"] = Old /\ b.reg["R15"] = a.reg["R15"] /\ b.reg["RSP"] = Here /\ \A r \in {"RAX", "RCX", "RDX"} : b.reg[r] = Want(r, 0)
    BY <1>0, <2>1, <2>2, RegFacts DEF Has
  <2>4. Top(v, b) = 0 /\ Balanced(v, b)
    BY <1>4, <2>1, <2>3 DEF Top, Balanced, Stacked
  <2>5. Popped(v, b)
    BY <1>0, <2>2, <2>3, <2>4 DEF Popped, Kept, SavedAll, Has, Same
  <2>6. Flows(v, <<LoadMirror(v)>>, a, b)
    BY <2>2, FlowOne
  <2>7. Popping(v) = <<LoadMirror(v)>>
    BY <1>4 DEF Popping
  <2> QED  BY <2>5, <2>6, <2>7
<1> QED  BY <1>1, <1>2, <1>3, <1>4 DEF Variant, Schemes

-------------------------------------------------------------------------------
(* Comparing, and whole epilogs.                                           *)

\* The comparison is over: rsp is zero or the slot's address.
Checked(v, a) ==
  /\ Fit(v, a) /\ ~a.fresh /\ (v.mpk => a.pk = "lock")
  /\ a.reg["RSP"] \in {Sure, Choice} /\ Top(v, a) = 0 /\ Balanced(v, a)
  /\ \A r \in v.reads \cap {"RAX", "RCX", "RDX"} : a.reg[r] = Want(r, 0)
  /\ Kept(v, a)

\* A comparison decides where rsp may point.
LEMMA StepRsp ==
  ASSUME NEW v, NEW a, Fit(v, a), NEW i, NEW x \in {Lit(0), Choice, Sure}, Rule(v, i, a, Hold(a, "RSP", x))
  PROVE  \E b : Stepped(v, i, a, b) /\ b \in Syms /\ Stable(v, b) /\ Has(a, b, "RSP", x)
<1>1. PICK b : b = Hold(a, "RSP", x)
  OBVIOUS
<1>2. x \in Values /\ a \in Syms
  BY ValueFacts DEF Fit
<1>3. b \in Syms /\ Has(a, b, "RSP", x)
  BY <1>1, <1>2, HoldFacts, RegFacts
<1>4. Stable(v, b)
  <2>1. Top(v, b) = Top(v, a) /\ b.slot = a.slot /\ b.ent = a.ent /\ b.open = a.open /\ b.reg["RSP"] = x
    BY <1>3, RegFacts DEF Top, Has, Same
  <2> QED  BY <2>1 DEF Fit, Stable
<1> QED  BY <1>1, <1>3, <1>4 DEF Stepped, Plain, Fit

\* xor compares the two return addresses.
LEMMA StepXor ==
  ASSUME NEW v, NEW a, Fit(v, a), a.reg["R11"] = Old, a.reg["R10"] = Now
  PROVE  \E b : Stepped(v, <<"xor", "R11", "R10">>, a, b) /\ Fit(v, b) /\ Has(a, b, "R11", Diff)
<1>1. Rule(v, <<"xor", "R11", "R10">>, a, Hold(a, "R11", Diff))
  <2>1. RXor(v, <<"xor", "R11", "R10">>, a, Hold(a, "R11", Diff))
    BY DEF RXor
  <2> QED  BY <2>1 DEF Rule
<1> QED  BY <1>1, StepFree, ValueFacts, RegFacts

\* popcnt keeps the difference zero or not.
LEMMA StepPopcnt ==
  ASSUME NEW v, NEW a, Fit(v, a), a.reg["R11"] = Diff
  PROVE  Stepped(v, <<"popcnt", "R11">>, a, a)
<1>1. RPopcnt(v, <<"popcnt", "R11">>, a, a)
  BY DEF RPopcnt
<1> QED  BY <1>1 DEF Stepped, Plain, Rule, Fit

\* pop takes the return address off the stack.
LEMMA StepPopRet ==
  ASSUME NEW v, NEW a, Fit(v, a), a.reg["RSP"] = Here, ~a.fresh
  PROVE  \E b : /\ Stepped(v, <<"pop", "R10">>, a, b) /\ Fit(v, b) /\ Shifts(a, b)
                /\ \A q \in Regs : b.reg[q] = IF q = "RSP" THEN Want("RSP", 1) ELSE IF q = "R10" THEN Now ELSE a.reg[q]
                /\ \A k \in 1 .. 3 : b.slot[k] = Any
<1> DEFINE slot == [j \in 1 .. 3 |-> Any]
<1>0. Want("RSP", 1) \in Values /\ a \in Syms /\ slot \in [1 .. 3 -> Values] /\ \A k \in 1 .. 3 : slot[k] = Any
  BY ValueFacts, RegFacts DEF Fit
<1>1. PICK g : g = Hold(a, "R10", Now)
  OBVIOUS
<1>2. g \in Syms /\ Has(a, g, "R10", Now)
  BY <1>0, <1>1, HoldFacts, ValueFacts, RegFacts
<1>3. PICK h : h = Hold(g, "RSP", Want("RSP", 1))
  OBVIOUS
<1>4. h \in Syms /\ Has(g, h, "RSP", Want("RSP", 1))
  BY <1>0, <1>2, <1>3, HoldFacts, RegFacts
<1>5. PICK b : b = [h EXCEPT !.slot = slot]
  OBVIOUS
<1>6. RPopRet(v, <<"pop", "R10">>, a, b)
  BY <1>1, <1>3, <1>5 DEF RPopRet
<1> HIDE DEF slot
<1>7. b \in Syms /\ b.reg = h.reg /\ b.slot = slot /\ b.ptr = h.ptr /\ b.ent = h.ent /\ b.mir = h.mir
      /\ b.pk = h.pk /\ b.zf = h.zf /\ b.open = h.open /\ b.fresh = h.fresh
  BY <1>0, <1>4, <1>5 DEF Syms
<1>8. Shifts(a, b) /\ (\A q \in Regs : b.reg[q] = IF q = "RSP" THEN Want("RSP", 1) ELSE IF q = "R10" THEN Now ELSE a.reg[q])
  BY <1>2, <1>4, <1>7 DEF Shifts, Has, Same
<1>9. Stable(v, b)
  <2>1. b.reg["RSP"] = Want("RSP", 1) /\ b.reg["R15"] = a.reg["R15"]
    BY <1>8, RegFacts
  <2>2. Top(v, b) = Top(v, a)
    BY <2>1, <1>8 DEF Top, Shifts
  <2>3. \A k \in 1 .. 3 : b.slot[k] = Any
    BY <1>0, <1>7
  <2> QED  BY <1>8, <2>1, <2>2, <2>3 DEF Fit, Stable, Shifts, Any, Tagged
<1>10. Stepped(v, <<"pop", "R10">>, a, b) /\ Fit(v, b)
  BY <1>6, <1>7, <1>8, <1>9, RegFacts, TagFacts DEF Stepped, Plain, Rule, Fit
<1> QED  BY <1>0, <1>7, <1>8, <1>10

\* A jump to a checked return address.
LEMMA StepJmp ==
  ASSUME NEW v, NEW a, Fit(v, a), a.reg["R10"] = Ra, Top(v, a) = 0, Balanced(v, a), ~a.fresh, ~v.ctor
  PROVE  \E b : /\ Stepped(v, <<"jmp", "R10">>, a, b) /\ Fit(v, b) /\ Shifts(a, b) /\ Top(v, b) = 0 /\ Balanced(v, b)
                /\ b.reg["RSP"] = Sure /\ \A r \in Free : b.reg[r] = Want(r, 0)
<1> DEFINE reg == [r \in Regs |-> IF r = "RSP" THEN Sure ELSE IF r \in {"GS", "R15"} THEN a.reg[r] ELSE Want(r, 0)]
<1>1. reg \in [Regs -> Values] /\ a \in Syms
  <2>1. \A r \in Regs : a.reg[r] \in Values /\ Want(r, 0) \in Values
    BY ValueFacts DEF Fit, Syms
  <2> QED  BY <2>1, ValueFacts DEF Fit
<1>2. reg["RSP"] = Sure /\ reg["R15"] = a.reg["R15"] /\ \A r \in Free : reg[r] = Want(r, 0)
  BY RegFacts
<1>3. PICK b : b = [a EXCEPT !.reg = reg]
  OBVIOUS
<1>4. RJmp(v, <<"jmp", "R10">>, a, b)
  BY <1>3 DEF RJmp
<1> HIDE DEF reg
<1>5. b \in Syms /\ b.reg = reg /\ Shifts(a, b) /\ b.slot = a.slot
  BY <1>1, <1>3 DEF Syms, Shifts
<1>6. Fit(v, b)
  <2>1. \A k \in 1 .. 3 : b.slot[k].t \in {"any", "want"}
    BY <1>5, SlotFacts
  <2> QED  BY <1>2, <1>5, <2>1, ShiftStable
<1>7. Top(v, b) = 0 /\ Balanced(v, b)
  BY <1>2, <1>5 DEF Top, Balanced, Shifts
<1> QED  BY <1>2, <1>4, <1>5, <1>6, <1>7 DEF Stepped, Plain, Rule, Fit

\* Comparison by the sentinel: X86ShadowStackReg.
LEMMA FlowCheckLBP ==
  ASSUME NEW v \in Variant, NEW a, Popped(v, a), ~v.ctor
  PROVE  \E b : Flows(v, CheckRALBP(v), a, b) /\ Checked(v, b)
<1>0. /\ Fit(v, a) /\ ~a.fresh /\ (v.mpk => a.pk = "lock") /\ a.reg["RSP"] = Here /\ a.reg["R11"] = Old
      /\ Top(v, a) = 0 /\ Balanced(v, a) /\ Kept(v, a)
      /\ \A r \in v.reads \cap {"RAX", "RCX", "RDX"} : a.reg[r] = Want(r, 0)
  BY DEF Popped
<1>1. CASE v.tail
  <2>1. PICK c : Stepped(v, <<"load", "R10", "RSP", 0>>, a, c) /\ Fit(v, c) /\ Has(a, c, "R10", Now)
    BY <1>0, RegFacts, StepLoadRet
  <2>2. c.reg["R11"] = Old /\ c.reg["R10"] = Now /\ c.reg["RSP"] = Here
    BY <1>0, <2>1, RegFacts DEF Has
  <2>3. PICK d : Stepped(v, <<"xor", "R11", "R10">>, c, d) /\ Fit(v, d) /\ Has(c, d, "R11", Diff)
    BY <2>1, <2>2, StepXor
  <2>4. d.reg["R11"] = Diff /\ d.reg["RSP"] = Here
    BY <2>2, <2>3, RegFacts DEF Has
  <2>5. Stepped(v, <<"popcnt", "R11">>, d, d)
    BY <2>3, <2>4, StepPopcnt
  <2>6. PICK b : Stepped(v, <<"probe", "R11">>, d, b) /\ b \in Syms /\ Stable(v, b) /\ Has(d, b, "RSP", Sure)
    <3>1. RProbe(v, <<"probe", "R11">>, d, Hold(d, "RSP", Sure))
      BY <2>4 DEF RProbe
    <3>2. Rule(v, <<"probe", "R11">>, d, Hold(d, "RSP", Sure))
      BY <3>1 DEF Rule
    <3> QED  BY <2>3, <3>2, StepRsp
  <2>7. Flows(v, <<<<"load", "R10", "RSP", 0>>, <<"xor", "R11", "R10">>, <<"popcnt", "R11">>, <<"probe", "R11">>>>, a, b)
    BY <2>1, <2>3, <2>5, <2>6, FlowFour
  <2>8. Flows(v, << >>, b, b)
    BY <2>6, FlowEmpty
  <2>9. Flows(v, <<<<"load", "R10", "RSP", 0>>, <<"xor", "R11", "R10">>, <<"popcnt", "R11">>, <<"probe", "R11">>>> \o << >>, a, b)
    BY <2>7, <2>8, FlowJoin
  <2>10. Flows(v, CheckRALBP(v), a, b)
    BY <1>1, <2>9 DEF CheckRALBP, If
  <2>11. b.reg["RSP"] = Sure /\ b.reg["R15"] = a.reg["R15"] /\ b.slot = a.slot /\ b.pk = a.pk /\ b.fresh = a.fresh /\ b.ptr = a.ptr
         /\ \A r \in {"RAX", "RCX", "RDX"} : b.reg[r] = a.reg[r]
    BY <2>1, <2>3, <2>6, RegFacts DEF Has, Same
  <2>12. Top(v, b) = 0 /\ Balanced(v, b) /\ Kept(v, b)
    BY <1>0, <2>11 DEF Top, Balanced, Kept
  <2>13. Fit(v, b)
    BY <2>6, <2>11, TagFacts DEF Fit
  <2> QED  BY <1>0, <2>10, <2>11, <2>12, <2>13 DEF Checked
<1>2. CASE ~v.tail
  <2>1. PICK c : /\ Stepped(v, <<"pop", "R10">>, a, c) /\ Fit(v, c) /\ Shifts(a, c)
                 /\ \A q \in Regs : c.reg[q] = IF q = "RSP" THEN Want("RSP", 1) ELSE IF q = "R10" THEN Now ELSE a.reg[q]
                 /\ \A k \in 1 .. 3 : c.slot[k] = Any
    BY <1>0, StepPopRet
  <2>2. c.reg["R11"] = Old /\ c.reg["R10"] = Now /\ c.reg["RSP"] = Want("RSP", 1) /\ c.reg["R15"] = a.reg["R15"]
    BY <1>0, <2>1, RegFacts
  <2>3. PICK d : Stepped(v, <<"xor", "R11", "R10">>, c, d) /\ Fit(v, d) /\ Has(c, d, "R11", Diff)
    BY <2>1, <2>2, StepXor
  <2>4. d.reg["R11"] = Diff /\ d.reg["R10"] = Now /\ d.reg["RSP"] = Want("RSP", 1) /\ d.reg["R15"] = a.reg["R15"]
    BY <2>2, <2>3, RegFacts DEF Has
  <2>5. Stepped(v, <<"popcnt", "R11">>, d, d)
    BY <2>3, <2>4, StepPopcnt
  <2>6. PICK e : Stepped(v, <<"probe", "R11">>, d, e) /\ Fit(v, e) /\ Has(d, e, "R10", Ra)
    <3>1. RProbe(v, <<"probe", "R11">>, d, Hold(d, "R10", Ra))
      BY <2>4 DEF RProbe
    <3>2. Rule(v, <<"probe", "R11">>, d, Hold(d, "R10", Ra))
      BY <3>1 DEF Rule
    <3> QED  BY <2>3, <3>2, StepFree, ValueFacts, RegFacts
  <2>7. e.reg["R10"] = Ra /\ e.reg["R15"] = a.reg["R15"] /\ ~e.fresh /\ e.ptr = a.ptr /\ e.pk = a.pk
    BY <1>0, <2>1, <2>3, <2>4, <2>6, RegFacts DEF Has, Same, Shifts
  <2>8. Top(v, e) = 0 /\ Balanced(v, e)
    BY <1>0, <2>7 DEF Top, Balanced
  <2>9. PICK b : /\ Stepped(v, <<"jmp", "R10">>, e, b) /\ Fit(v, b) /\ Shifts(e, b) /\ Top(v, b) = 0 /\ Balanced(v, b)
                 /\ b.reg["RSP"] = Sure /\ \A r \in Free : b.reg[r] = Want(r, 0)
    BY <2>6, <2>7, <2>8, StepJmp
  <2>10. Flows(v, <<<<"pop", "R10">>, <<"xor", "R11", "R10">>, <<"popcnt", "R11">>, <<"probe", "R11">>>>, a, e)
    BY <2>1, <2>3, <2>5, <2>6, FlowFour
  <2>11. Flows(v, <<<<"jmp", "R10">>>>, e, b)
    BY <2>9, FlowOne
  <2>12. Flows(v, <<<<"pop", "R10">>, <<"xor", "R11", "R10">>, <<"popcnt", "R11">>, <<"probe", "R11">>>> \o <<<<"jmp", "R10">>>>, a, b)
    BY <2>10, <2>11, FlowJoin
  <2>13. Flows(v, CheckRALBP(v), a, b)
    BY <1>2, <2>12 DEF CheckRALBP, If
  <2>14. Kept(v, b)
    BY <1>2 DEF Kept, Variant
  <2>15. \A r \in v.reads \cap {"RAX", "RCX", "RDX"} : b.reg[r] = Want(r, 0)
    BY <2>9, RegFacts
  <2>16. ~b.fresh /\ b.pk = a.pk
    BY <2>7, <2>9 DEF Shifts
  <2> QED  BY <1>0, <2>9, <2>13, <2>14, <2>15, <2>16 DEF Checked
<1> QED  BY <1>1, <1>2

\* Comparison by a zero stack pointer: the other schemes.
LEMMA FlowCheckRA ==
  ASSUME NEW v \in Variant, NEW a, Popped(v, a)
  PROVE  \E b : Flows(v, CheckRA(v), a, b) /\ Checked(v, b)
<1>0. /\ Fit(v, a) /\ ~a.fresh /\ (v.mpk => a.pk = "lock") /\ a.reg["RSP"] = Here /\ a.reg["R11"] = Old
      /\ Top(v, a) = 0 /\ Balanced(v, a) /\ Kept(v, a)
      /\ \A r \in v.reads \cap {"RAX", "RCX", "RDX"} : a.reg[r] = Want(r, 0)
  BY DEF Popped
<1>1. PICK c : Stepped(v, <<"mov", "R10", "RSP">>, a, c) /\ Fit(v, c) /\ Has(a, c, "R10", a.reg["RSP"])
  BY <1>0, RegFacts, WantFacts, StepMov
<1>2. c.reg["R11"] = Old /\ c.reg["R10"] = Here /\ c.reg["RSP"] = Here /\ c \in Syms
  BY <1>0, <1>1, RegFacts DEF Has, Fit
<1>3. PICK h : h = Hold(c, "R11", Diff)
  OBVIOUS
<1>4. h \in Syms /\ Has(c, h, "R11", Diff)
  BY <1>2, <1>3, HoldFacts, ValueFacts, RegFacts
<1>5. PICK d : d = [h EXCEPT !.zf = TRUE]
  OBVIOUS
<1>6. d \in Syms /\ d.reg = h.reg /\ d.slot = h.slot /\ Shifts([h EXCEPT !.zf = TRUE], d) /\ d.zf = TRUE /\ d.ptr = h.ptr
      /\ d.ent = h.ent /\ d.pk = h.pk /\ d.open = h.open /\ d.fresh = h.fresh
  BY <1>4, <1>5 DEF Syms, Shifts
<1>7. Stepped(v, <<"xorm", "R11", "RSP">>, c, d) /\ Fit(v, d)
  <2>1. RXorm(v, <<"xorm", "R11", "RSP">>, c, d)
    BY <1>2, <1>3, <1>5 DEF RXorm
  <2>2. d.reg["RSP"] = c.reg["RSP"] /\ d.reg["R15"] = c.reg["R15"] /\ d.slot = c.slot /\ d.ptr = c.ptr /\ d.ent = c.ent /\ d.open = c.open
    BY <1>4, <1>6, RegFacts DEF Has, Same
  <2>3. Stable(v, d)
    BY <1>1, <2>2 DEF Fit, Stable, Top
  <2> QED  BY <1>1, <1>2, <1>6, <2>1, <2>2, <2>3, TagFacts DEF Stepped, Plain, Rule, Fit
<1>8. d.reg["R10"] = Here /\ d.reg["RSP"] = Here /\ d.zf
  BY <1>2, <1>4, <1>6, RegFacts DEF Has
<1>9. PICK e : Stepped(v, <<"imm", "RSP", NullPage>>, d, e) /\ e \in Syms /\ Stable(v, e) /\ Has(d, e, "RSP", Lit(0))
  <2>1. RZero(v, <<"imm", "RSP", NullPage>>, d, Hold(d, "RSP", Lit(0)))
    BY <1>8 DEF RZero
  <2>2. Rule(v, <<"imm", "RSP", NullPage>>, d, Hold(d, "RSP", Lit(0)))
    BY <2>1 DEF Rule
  <2> QED  BY <1>7, <2>2, StepRsp
<1>10. e.reg["R10"] = Here /\ e.reg["RSP"] = Lit(0) /\ e.zf
  BY <1>8, <1>9, RegFacts DEF Has, Same
<1>11. PICK b : Stepped(v, <<"cmove", "RSP", "R10">>, e, b) /\ Fit(v, b) /\ Has(e, b, "RSP", Choice)
  <2>1. PICK b : b = Hold(e, "RSP", Choice)
    OBVIOUS
  <2>2. RCmove(v, <<"cmove", "RSP", "R10">>, e, b)
    BY <1>10, <2>1 DEF RCmove
  <2>3. b \in Syms /\ Has(e, b, "RSP", Choice)
    BY <1>9, <2>1, HoldFacts, ValueFacts, RegFacts
  <2>4. Stable(v, b) /\ b.reg["RSP"] = Choice
    <3>1. Top(v, b) = Top(v, e) /\ b.slot = e.slot /\ b.ent = e.ent /\ b.open = e.open /\ b.reg["RSP"] = Choice
      BY <2>3, RegFacts DEF Top, Has, Same
    <3> QED  BY <3>1, <1>9 DEF Stable
  <2> QED  BY <1>9, <2>2, <2>3, <2>4, TagFacts DEF Stepped, Plain, Rule, Fit
<1>12. Flows(v, CheckRA(v), a, b)
  BY <1>1, <1>7, <1>9, <1>11, FlowFour DEF CheckRA
<1>13. b.reg["RSP"] = Choice /\ b.reg["R15"] = a.reg["R15"] /\ b.slot = a.slot /\ b.pk = a.pk /\ b.fresh = a.fresh /\ b.ptr = a.ptr
       /\ \A r \in {"RAX", "RCX", "RDX"} : b.reg[r] = a.reg[r]
  <2>1. d.slot = a.slot /\ d.pk = a.pk /\ d.fresh = a.fresh /\ d.ptr = a.ptr /\ d.reg["R15"] = a.reg["R15"]
        /\ \A r \in {"RAX", "RCX", "RDX"} : d.reg[r] = a.reg[r]
    BY <1>1, <1>4, <1>6, RegFacts DEF Has, Same
  <2> QED  BY <2>1, <1>9, <1>11, RegFacts DEF Has, Same
<1>14. Top(v, b) = 0 /\ Balanced(v, b) /\ Kept(v, b)
  BY <1>0, <1>13 DEF Top, Balanced, Kept
<1> QED  BY <1>0, <1>11, <1>12, <1>13, <1>14 DEF Checked

\* Everything is back in place for the last instruction.
Leaving(v, a) ==
  /\ Fit(v, a) /\ ~a.fresh /\ (v.mpk => a.pk = "lock")
  /\ a.reg["RSP"] \in {Sure, Choice} /\ Top(v, a) = 0 /\ Balanced(v, a)
  /\ ~Clobbers(v) => \A r \in v.reads : a.reg[r] = Want(r, 0)

\* b is a with the word j in register r if that is in R.
Fetched(R, a, b, r, j) ==
  /\ Shifts(a, b) /\ b.slot = a.slot /\ b.reg["RSP"] \in {Sure, Choice}
  /\ r \in R => b.reg[r] = a.slot[j]
  /\ \A q \in Regs \ {"RSP", r} : b.reg[q] = a.reg[q]

\* One of r10 and r11 comes back, if the last instruction reads it.
LEMMA FlowFetch ==
  ASSUME NEW v, NEW a, Fit(v, a), a.reg["RSP"] \in {Choice, Sure}, NEW r \in Free,
         NEW j \in 1 .. 3, NEW n, n = -j, NEW R
  PROVE  \E b : Flows(v, If(r \in R, <<<<"load", r, "RSP", n>>>>), a, b) /\ Fit(v, b) /\ Fetched(R, a, b, r, j)
<1>1. CASE r \in R
  <2>1. PICK b : /\ Stepped(v, <<"load", r, "RSP", n>>, a, b) /\ Fit(v, b) /\ Shifts(a, b) /\ b.slot = a.slot
                 /\ \A q \in Regs : b.reg[q] = IF q = "RSP" THEN Sure ELSE IF q = r THEN a.slot[j] ELSE a.reg[q]
    BY StepLoadSlot
  <2>2. Flows(v, If(r \in R, <<<<"load", r, "RSP", n>>>>), a, b)
    BY <1>1, <2>1, FlowOne DEF If
  <2>3. Fetched(R, a, b, r, j)
    BY <2>1, RegFacts DEF Fetched
  <2> QED  BY <2>1, <2>2, <2>3
<1>2. CASE r \notin R
  <2>1. Flows(v, If(r \in R, <<<<"load", r, "RSP", n>>>>), a, a)
    BY <1>2, FlowEmpty DEF If, Fit
  <2>2. Fetched(R, a, a, r, j)
    BY <1>2 DEF Fetched, Shifts
  <2> QED  BY <2>1, <2>2
<1> QED  BY <1>1, <1>2

\* RestoreScratch brings back those the last instruction reads.
LEMMA FlowRestoreScratch ==
  ASSUME NEW v \in Variant, NEW a, Checked(v, a)
  PROVE  \E b : Flows(v, RestoreScratch(v), a, b) /\ Leaving(v, b)
<1>0. /\ Fit(v, a) /\ ~a.fresh /\ (v.mpk => a.pk = "lock")
      /\ a.reg["RSP"] \in {Choice, Sure} /\ Top(v, a) = 0 /\ Balanced(v, a) /\ Kept(v, a)
      /\ \A r \in v.reads \cap {"RAX", "RCX", "RDX"} : a.reg[r] = Want(r, 0)
  BY DEF Checked
<1>1. PICK c : /\ Flows(v, If("R11" \in v.reads, <<<<"load", "R11", "RSP", -2>>>>), a, c) /\ Fit(v, c)
               /\ Fetched(v.reads, a, c, "R11", 2)
  <2>1. "R11" \in Free /\ 2 \in 1 .. 3
    BY RegFacts
  <2> QED  BY <1>0, <2>1, FlowFetch
<1>2. c.reg["RSP"] \in {Choice, Sure}
  BY <1>1 DEF Fetched
<1>3. PICK b : /\ Flows(v, If("R10" \in v.reads, <<<<"load", "R10", "RSP", -3>>>>), c, b) /\ Fit(v, b)
               /\ Fetched(v.reads, c, b, "R10", 3)
  <2>1. "R10" \in Free /\ 3 \in 1 .. 3
    BY RegFacts
  <2> QED  BY <1>1, <1>2, <2>1, FlowFetch
<1>4. Flows(v, RestoreScratch(v), a, b)
  BY <1>1, <1>3, FlowJoin DEF RestoreScratch
<1>5. /\ ~b.fresh /\ (v.mpk => b.pk = "lock") /\ b.reg["RSP"] \in {Sure, Choice} /\ b.ptr = a.ptr
      /\ b.reg["R15"] = a.reg["R15"]
      /\ \A r \in {"RAX", "RCX", "RDX"} : b.reg[r] = a.reg[r]
  BY <1>0, <1>1, <1>3, RegFacts DEF Fetched, Shifts
<1>6. Top(v, b) = 0 /\ Balanced(v, b)
  BY <1>0, <1>5 DEF Top, Balanced
<1>7. ASSUME ~Clobbers(v), NEW r \in v.reads PROVE b.reg[r] = Want(r, 0)
  <2>1. r \in {"RAX", "RCX", "RDX", "R10", "R11"}
    BY DEF Variant
  <2>2. CASE r \in {"RAX", "RCX", "RDX"}
    BY <1>0, <1>5, <2>2
  <2>3. CASE r = "R10"
    <3>1. b.reg["R10"] = c.slot[3] /\ c.slot = a.slot /\ a.slot[3] = Want("R10", 0)
      BY <1>0, <1>1, <1>3, <2>3 DEF Fetched, Kept
    <3> QED  BY <2>3, <3>1
  <2>4. CASE r = "R11"
    <3>1. b.reg["R11"] = c.reg["R11"] /\ c.reg["R11"] = a.slot[2] /\ a.slot[2] = Want("R11", 0)
      BY <1>0, <1>1, <1>3, <1>7, <2>4, RegFacts DEF Fetched, Kept
    <3> QED  BY <2>4, <3>1
  <2> QED  BY <2>1, <2>2, <2>3, <2>4
<1> QED  BY <1>3, <1>4, <1>5, <1>6, <1>7 DEF Leaving

\* A constructor has no epilog, every other function one.
Final2(v, a) == IF v.ctor THEN Started(v, a) ELSE Leaving(v, a)

\* An epilog ends with the slot checked, the pointer back and the results in place.
LEMMA FlowEpilog ==
  ASSUME NEW v \in Variant, NEW a, Started(v, a)
  PROVE  \E b : Flows(v, Epilog(v), a, b) /\ Final2(v, b)
<1>1. CASE v.ctor
  <2>1. Epilog(v) = << >>
    BY <1>1 DEF Epilog, If
  <2>2. Flows(v, << >>, a, a)
    BY FlowEmpty DEF Started, Fit
  <2> QED  BY <1>1, <2>1, <2>2 DEF Final2
<1>2. CASE ~v.ctor
  <2> DEFINE Checks == IF v.scheme \in {"REG", "PARR"} THEN CheckRALBP(v) ELSE CheckRA(v)
  <2>1. PICK c : Flows(v, SaveScratch(v), a, c) /\ Started(v, c) /\ SavedAll(v, c)
    BY FlowSaveScratch
  <2>2. PICK d : Flows(v, Popping(v), c, d) /\ Popped(v, d)
    BY <2>1, FlowPopping
  <2>3. PICK e : Flows(v, Checks, d, e) /\ Checked(v, e)
    <3>1. CASE v.scheme \in {"REG", "PARR"}
      BY <1>2, <2>2, <3>1, FlowCheckLBP
    <3>2. CASE v.scheme \notin {"REG", "PARR"}
      BY <2>2, <3>2, FlowCheckRA
    <3> QED  BY <3>1, <3>2
  <2>4. PICK b : Flows(v, RestoreScratch(v), e, b) /\ Leaving(v, b)
    BY <2>3, FlowRestoreScratch
  <2>5. Flows(v, SaveScratch(v) \o (Popping(v) \o Checks), a, e)
    <3> HIDE DEF Checks
    <3>1. Flows(v, Popping(v) \o Checks, c, e)
      BY <2>2, <2>3, FlowJoin
    <3> QED  BY <2>1, <3>1, FlowJoin
  <2>6. Flows(v, (SaveScratch(v) \o (Popping(v) \o Checks)) \o RestoreScratch(v), a, b)
    <3> HIDE DEF Checks
    <3> QED  BY <2>4, <2>5, FlowJoin
  <2>7. v.scheme \in {"REG", "PARR", "SEG", "MEM", "CON"}
    BY DEF Variant, Schemes
  <2>8. Epilog(v) = (SaveScratch(v) \o (Popping(v) \o Checks)) \o RestoreScratch(v)
    BY <1>2, <2>7 DEF Epilog, If, Popping, LoadMirror
  <2> QED  BY <1>2, <2>4, <2>6, <2>8 DEF Final2
<1> QED  BY <1>1, <1>2

\* The last instruction.
LEMMA StepBack ==
  ASSUME NEW v \in Variant, NEW a, Final2(v, a)
  PROVE  Stepped(v, <<"back">>, a, a)
<1>1. Fit(v, a)
  BY DEF Final2, Started, Leaving
<1>2. RLeave(v, <<"back">>, a, a)
  <2>1. CASE v.ctor
    <3>1. v.reads \subseteq Free
      BY DEF Variant, Free
    <3> QED  BY <2>1, <3>1 DEF RLeave, Final2, Started, Here
  <2>2. CASE ~v.ctor
    BY <2>2 DEF RLeave, Final2, Leaving
  <2> QED  BY <2>1, <2>2
<1> QED  BY <1>1, <1>2 DEF Stepped, Plain, Rule, Fit

\* Every sequence can be walked by the rules, from the state at the entry on.
THEOREM Annotated ==
  ASSUME NEW v \in Variant
  PROVE  \E S, A : Code(v) \in Seq(S) /\ Walks(v, Code(v), A) /\ A[1] = Entered(v)
<1>1. PICK a : Flows(v, LoadR15(v), Entered(v), a) /\ Loaded(v, a)
  BY FlowLoad
<1>2. PICK b : Flows(v, Prolog(v), a, b) /\ Ready(v, b)
  BY <1>1, FlowProlog
<1>3. PICK c : Stepped(v, <<"body">>, b, c) /\ Started(v, c)
  BY <1>2, StepBody
<1>4. PICK d : Flows(v, Epilog(v), c, d) /\ Final2(v, d)
  BY <1>3, FlowEpilog
<1>5. Stepped(v, <<"back">>, d, d)
  BY <1>4, StepBack
<1>6. Flows(v, <<<<"body">>>>, b, c) /\ Flows(v, <<<<"back">>>>, d, d)
  BY <1>3, <1>5, FlowOne
<1>7. Flows(v, LoadR15(v) \o Prolog(v), Entered(v), b)
  BY <1>1, <1>2, FlowJoin
<1>8. Flows(v, (LoadR15(v) \o Prolog(v)) \o <<<<"body">>>>, Entered(v), c)
  BY <1>6, <1>7, FlowJoin
<1>9. Flows(v, ((LoadR15(v) \o Prolog(v)) \o <<<<"body">>>>) \o Epilog(v), Entered(v), d)
  BY <1>4, <1>8, FlowJoin
<1>10. Flows(v, (((LoadR15(v) \o Prolog(v)) \o <<<<"body">>>>) \o Epilog(v)) \o <<<<"back">>>>, Entered(v), d)
  BY <1>6, <1>9, FlowJoin
<1>11. Flows(v, Code(v), Entered(v), d)
  BY <1>10 DEF Code
<1> QED  BY <1>11 DEF Flows

-------------------------------------------------------------------------------
(* What every rule says of gs, r15 and the windows.                        *)

\* Hold changes one register and nothing else.
LEMMA HoldHas ==
  ASSUME NEW a \in Syms, NEW r \in Regs, NEW x
  PROVE  Has(a, Hold(a, r, x), r, x)
BY DEF Hold, Syms, Same, Has

\* What an instruction that ends a window looks like.
LEMMA ClosesAre ==
  ASSUME NEW v, NEW i \in Closes(v)
  PROVE  \/ i[1] = "add" /\ i[2] = "R15"
         \/ i[1] = "store" /\ i[2] = "GS"
         \/ i[1] = "load" /\ i[3] = "R11"
         \/ i[1] = "addm"
BY DEF Closes

\* An instruction opens no window, closes none and leaves gs and r15 alone.
Quiet(v, i) == i \notin Closes(v) /\ ~(i[1] = "load" /\ i[2] = "R15")

\* What every rule says of gs, of r15 and of the windows.
Trace(v, i, a, b) ==
  /\ b.reg["GS"] = a.reg["GS"]
  /\ \/ b.reg["R15"] = a.reg["R15"] /\ ~(i[1] = "load" /\ i[2] = "R15")
     \/ b.reg["R15"] = Ptr(0) /\ Owned(v)
     \/ b.reg["R15"] = Ptr(2) /\ v.scheme = "REG"
  /\ b.open => i \in Opens(v) \/ (a.open /\ i \notin Closes(v))

\* An instruction that gives a scratch register a value is quiet.
LEMMA TraceHas ==
  ASSUME NEW v, NEW i, NEW a, NEW b, NEW r \in Regs, NEW x, Has(a, b, r, x), r \notin {"GS", "R15"}, Quiet(v, i)
  PROVE  Trace(v, i, a, b)
BY RegFacts DEF Trace, Has, Same, Quiet

\* b is a in gs and r15.
TraceRest(a, b) == b.reg["GS"] = a.reg["GS"] /\ b.reg["R15"] = a.reg["R15"] /\ b.open = a.open

\* So is one that touches neither gs nor r15 nor the windows.
LEMMA TraceOnly ==
  ASSUME NEW v, NEW i, NEW a, NEW b, TraceRest(a, b), Quiet(v, i)
  PROVE  Trace(v, i, a, b)
BY DEF Trace, TraceRest, Quiet

\* The rules that compute in registers.
LEMMA TraceCompute ==
  ASSUME NEW v, NEW i, NEW a \in Syms, NEW b,
         \/ RMov(v, i, a, b) \/ RImm(v, i, a, b) \/ RAdd(v, i, a, b) \/ RXor(v, i, a, b) \/ RPopcnt(v, i, a, b)
         \/ RProbe(v, i, a, b) \/ RZero(v, i, a, b) \/ RCmove(v, i, a, b) \/ RWrpkru(v, i, a, b) \/ RXorm(v, i, a, b)
  PROVE  Trace(v, i, a, b)
<1>1. CASE RMov(v, i, a, b)
  <2>1. PICK r \in Free, s \in Regs : i = <<"mov", r, s>> /\ b = Hold(a, r, a.reg[s])
    BY <1>1 DEF RMov
  <2>2. Has(a, b, r, a.reg[s])
    BY <2>1, HoldHas, RegFacts
  <2>3. Quiet(v, i)
    BY <2>1, ClosesAre DEF Quiet
  <2> QED  BY <2>2, <2>3, RegFacts, TraceHas
<1>2. CASE RImm(v, i, a, b)
  <2>1. PICK r, n : r \in Free /\ i = <<"imm", r, n>> /\ b = Hold(a, r, Lit(n))
    BY <1>2 DEF RImm
  <2>2. Has(a, b, r, Lit(n))
    BY <2>1, HoldHas, RegFacts
  <2>3. Quiet(v, i)
    BY <2>1, ClosesAre DEF Quiet
  <2>4. r \in Free
    BY <2>1
  <2> QED  BY <2>2, <2>3, <2>4, RegFacts, TraceHas
<1>3. CASE RAdd(v, i, a, b)
  <2>1. PICK r, n : r \in Free /\ i = <<"add", r, n>> /\ b = Hold(a, r, Ptr(a.reg[r].d + n))
    BY <1>3 DEF RAdd
  <2>2. Has(a, b, r, Ptr(a.reg[r].d + n))
    BY <2>1, HoldHas, RegFacts
  <2>3. Quiet(v, i)
    BY <2>1, ClosesAre, RegFacts DEF Quiet
  <2>4. r \in Free
    BY <2>1
  <2> QED  BY <2>2, <2>3, <2>4, RegFacts, TraceHas
<1>4. CASE RXor(v, i, a, b)
  <2>1. i = <<"xor", "R11", "R10">> /\ b = Hold(a, "R11", Diff)
    BY <1>4 DEF RXor
  <2>2. Has(a, b, "R11", Diff)
    BY <2>1, HoldHas, RegFacts
  <2>3. Quiet(v, i)
    BY <2>1, ClosesAre DEF Quiet
  <2> QED  BY <2>2, <2>3, RegFacts, TraceHas
<1>5. CASE RPopcnt(v, i, a, b)
  <2>1. i = <<"popcnt", "R11">> /\ b = a
    BY <1>5 DEF RPopcnt
  <2>2. Quiet(v, i)
    BY <2>1, ClosesAre DEF Quiet
  <2> QED  BY <2>1, <2>2, TraceOnly DEF TraceRest
<1>6. CASE RProbe(v, i, a, b)
  <2>1. i = <<"probe", "R11">> /\ (b = Hold(a, "RSP", Sure) \/ b = Hold(a, "R10", Ra))
    BY <1>6 DEF RProbe
  <2>2. Has(a, b, "RSP", Sure) \/ Has(a, b, "R10", Ra)
    BY <2>1, HoldHas, RegFacts
  <2>3. Quiet(v, i)
    BY <2>1, ClosesAre DEF Quiet
  <2>4. TraceRest(a, b)
    BY <2>2, RegFacts DEF TraceRest, Has, Same
  <2> QED  BY <2>3, <2>4, TraceOnly
<1>7. CASE RZero(v, i, a, b)
  <2>1. i = <<"imm", "RSP", NullPage>> /\ b = Hold(a, "RSP", Lit(0))
    BY <1>7 DEF RZero
  <2>2. Has(a, b, "RSP", Lit(0))
    BY <2>1, HoldHas, RegFacts
  <2>3. Quiet(v, i)
    BY <2>1, ClosesAre DEF Quiet
  <2> QED  BY <2>2, <2>3, RegFacts, TraceHas
<1>8. CASE RCmove(v, i, a, b)
  <2>1. i = <<"cmove", "RSP", "R10">> /\ b = Hold(a, "RSP", Choice)
    BY <1>8 DEF RCmove
  <2>2. Has(a, b, "RSP", Choice)
    BY <2>1, HoldHas, RegFacts
  <2>3. Quiet(v, i)
    BY <2>1, ClosesAre DEF Quiet
  <2> QED  BY <2>2, <2>3, RegFacts, TraceHas
<1>9. CASE RWrpkru(v, i, a, b)
  <2>1. i = <<"wrpkru">> /\ \E pk : b = [a EXCEPT !.pk = pk]
    BY <1>9 DEF RWrpkru
  <2>2. TraceRest(a, b)
    BY <2>1 DEF TraceRest, Syms
  <2>3. Quiet(v, i)
    BY <2>1, ClosesAre DEF Quiet
  <2> QED  BY <2>2, <2>3, TraceOnly
<1>10. CASE RXorm(v, i, a, b)
  <2>1. PICK h : h = Hold(a, "R11", Diff)
    OBVIOUS
  <2>2. i = <<"xorm", "R11", "RSP">> /\ b = [h EXCEPT !.zf = TRUE]
    BY <1>10, <2>1 DEF RXorm
  <2>3. Has(a, h, "R11", Diff) /\ h \in Syms
    BY <2>1, HoldHas, HoldFacts, ValueFacts, RegFacts
  <2>4. b.reg = h.reg /\ b.open = h.open
    BY <2>2, <2>3 DEF Syms
  <2>5. TraceRest(a, b)
    BY <2>3, <2>4, RegFacts DEF TraceRest, Has, Same
  <2>6. Quiet(v, i)
    BY <2>2, ClosesAre DEF Quiet
  <2> QED  BY <2>5, <2>6, TraceOnly
<1> QED  BY <1>1, <1>2, <1>3, <1>4, <1>5, <1>6, <1>7, <1>8, <1>9, <1>10

\* The rules that load.
LEMMA TraceLoad ==
  ASSUME NEW v, NEW i, NEW a \in Syms, NEW b,
         \/ RLoadRet(v, i, a, b) \/ RLoadSlot(v, i, a, b) \/ RLoadPtr(v, i, a, b) \/ RLoadClave(v, i, a, b)
         \/ RLoadEntry(v, i, a, b) \/ RLoadMirror(v, i, a, b) \/ RPop(v, i, a, b) \/ RPopRet(v, i, a, b)
  PROVE  Trace(v, i, a, b)
<1>1. CASE RLoadRet(v, i, a, b)
  <2>1. PICK r, x : r \in Free /\ i = <<"load", r, "RSP", 0>> /\ b = Hold(a, r, x)
    BY <1>1 DEF RLoadRet
  <2>2. Has(a, b, r, x)
    BY <2>1, HoldHas, RegFacts
  <2>3. Quiet(v, i)
    BY <2>1, ClosesAre, RegFacts DEF Quiet
  <2>4. r \in Free
    BY <2>1
  <2> QED  BY <2>2, <2>3, <2>4, RegFacts, TraceHas
<1>2. CASE RLoadSlot(v, i, a, b)
  <2>1. PICK r \in Free, j \in 1 .. 3 : i = <<"load", r, "RSP", -j>> /\ b = Hold(Hold(a, r, a.slot[j]), "RSP", Sure)
    BY <1>2 DEF RLoadSlot
  <2>2. PICK h : h = Hold(a, r, a.slot[j])
    OBVIOUS
  <2>3. Has(a, h, r, a.slot[j]) /\ h \in Syms
    <3>1. a.slot[j] \in Values
      BY DEF Syms
    <3> QED  BY <2>2, <3>1, HoldFacts, RegFacts
  <2>4. Has(h, b, "RSP", Sure)
    BY <2>1, <2>2, <2>3, HoldHas, RegFacts
  <2>5. TraceRest(a, b)
    BY <2>3, <2>4, RegFacts DEF TraceRest, Has, Same
  <2>6. Quiet(v, i)
    BY <2>1, ClosesAre, RegFacts DEF Quiet
  <2> QED  BY <2>5, <2>6, TraceOnly
<1>3. CASE RLoadPtr(v, i, a, b)
  <2>1. PICK r \in Free, s \in {"GS", "RDX"} : i = <<"load", r, s, 0>> /\ b = Hold(a, r, Ptr(a.ptr))
    BY <1>3 DEF RLoadPtr
  <2>2. Has(a, b, r, Ptr(a.ptr))
    BY <2>1, HoldHas, RegFacts
  <2>3. Quiet(v, i)
    BY <2>1, ClosesAre, RegFacts DEF Quiet
  <2> QED  BY <2>2, <2>3, RegFacts, TraceHas
<1>4. CASE RLoadClave(v, i, a, b)
  <2>1. Owned(v) /\ b = Hold(a, "R15", Ptr(0)) /\ i[1] = "load" /\ i[3] = "GS"
    BY <1>4 DEF RLoadClave, Owned
  <2>2. Has(a, b, "R15", Ptr(0))
    BY <2>1, HoldHas, RegFacts
  <2>3. i \notin Closes(v)
    BY <2>1, ClosesAre
  <2> QED  BY <2>1, <2>2, <2>3, RegFacts DEF Trace, Has, Same
<1>5. CASE RLoadEntry(v, i, a, b)
  <2>1. PICK h : h = Hold(a, "R11", Old)
    OBVIOUS
  <2>2. Has(a, h, "R11", Old) /\ h \in Syms
    BY <2>1, HoldFacts, ValueFacts, RegFacts
  <2>3. CASE i = <<"load", "R11", "R15", -2>> /\ b = h
    <3>1. Quiet(v, i)
      BY <2>3, ClosesAre DEF Quiet
    <3> QED  BY <2>2, <2>3, <3>1, RegFacts, TraceHas
  <2>4. CASE i = <<"load", "R11", "R11", 0>> /\ b = [h EXCEPT !.ent = 0, !.open = FALSE]
    <3>1. b.reg = h.reg /\ ~b.open
      BY <2>2, <2>4 DEF Syms
    <3>2. ~(i[1] = "load" /\ i[2] = "R15")
      BY <2>4
    <3> QED  BY <2>2, <3>1, <3>2, RegFacts DEF Trace, Has, Same
  <2> QED  BY <1>5, <2>1, <2>3, <2>4 DEF RLoadEntry
<1>6. CASE RLoadMirror(v, i, a, b)
  <2>1. (i = <<"load", "R11", "RSP", ParOffset>> \/ i = <<"loadx", "R11", "RSP", "R15">>) /\ b = Hold(a, "R11", Old)
    BY <1>6 DEF RLoadMirror
  <2>2. Has(a, b, "R11", Old)
    BY <2>1, HoldHas, RegFacts
  <2>3. Quiet(v, i)
    BY <2>1, ClosesAre, RegFacts DEF Quiet
  <2> QED  BY <2>2, <2>3, RegFacts, TraceHas
<1>7. CASE RPop(v, i, a, b)
  <2>1. PICK r \in Free, d \in 1 .. 2 : i = <<"pop", r>> /\ b = Hold(Hold(a, r, a.slot[d]), "RSP", Want("RSP", 1 - d))
    BY <1>7 DEF RPop
  <2>2. PICK h : h = Hold(a, r, a.slot[d])
    OBVIOUS
  <2>3. Has(a, h, r, a.slot[d]) /\ h \in Syms
    <3>1. a.slot[d] \in Values
      BY DEF Syms
    <3> QED  BY <2>2, <3>1, HoldFacts, RegFacts
  <2>4. Has(h, b, "RSP", Want("RSP", 1 - d))
    BY <2>1, <2>2, <2>3, HoldHas, RegFacts
  <2>5. TraceRest(a, b)
    BY <2>3, <2>4, RegFacts DEF TraceRest, Has, Same
  <2>6. Quiet(v, i)
    BY <2>1, ClosesAre, RegFacts DEF Quiet
  <2> QED  BY <2>5, <2>6, TraceOnly
<1>8. CASE RPopRet(v, i, a, b)
  <2>1. PICK g, h : g = Hold(a, "R10", Now) /\ h = Hold(g, "RSP", Want("RSP", 1))
    OBVIOUS
  <2>2. i = <<"pop", "R10">> /\ b = [h EXCEPT !.slot = [j \in 1 .. 3 |-> Any]]
    BY <1>8, <2>1 DEF RPopRet
  <2>3. Has(a, g, "R10", Now) /\ g \in Syms
    BY <2>1, HoldFacts, ValueFacts, RegFacts
  <2>4. Has(g, h, "RSP", Want("RSP", 1)) /\ h \in Syms
    BY <2>1, <2>3, HoldFacts, ValueFacts, RegFacts
  <2>5. b.reg = h.reg /\ b.open = h.open
    BY <2>2, <2>4 DEF Syms
  <2>6. TraceRest(a, b)
    BY <2>3, <2>4, <2>5, RegFacts DEF TraceRest, Has, Same
  <2>7. Quiet(v, i)
    BY <2>2, ClosesAre, RegFacts DEF Quiet
  <2> QED  BY <2>6, <2>7, TraceOnly
<1> QED  BY <1>1, <1>2, <1>3, <1>4, <1>5, <1>6, <1>7, <1>8

\* The rules that store, and those that move the pointer.
LEMMA TraceStore ==
  ASSUME NEW v, NEW i, NEW a \in Syms, NEW b,
         \/ RForth(v, i, a, b) \/ RBack(v, i, a, b) \/ RStoreRa(v, i, a, b) \/ RStoreSp(v, i, a, b)
         \/ RStorePtr(v, i, a, b) \/ RStoreMirror(v, i, a, b) \/ RStoreSlot(v, i, a, b) \/ RAddPtr(v, i, a, b)
         \/ RPush(v, i, a, b)
  PROVE  Trace(v, i, a, b)
<1>1. CASE RForth(v, i, a, b)
  <2>1. PICK h : h = Hold(a, "R15", Ptr(2))
    OBVIOUS
  <2>2. v.scheme = "REG" /\ b = [h EXCEPT !.open = FALSE]
    BY <1>1, <2>1 DEF RForth
  <2>3. Has(a, h, "R15", Ptr(2)) /\ h \in Syms
    BY <2>1, HoldFacts, ValueFacts, RegFacts
  <2>4. b.reg = h.reg /\ ~b.open
    BY <2>2, <2>3 DEF Syms
  <2> QED  BY <2>2, <2>3, <2>4, RegFacts DEF Trace, Has, Same
<1>2. CASE RBack(v, i, a, b)
  <2>1. PICK h : h = Hold(a, "R15", Ptr(0))
    OBVIOUS
  <2>2. v.scheme = "REG" /\ b = [h EXCEPT !.ent = 0] /\ ~a.open
    BY <1>2, <2>1 DEF RBack
  <2>3. Has(a, h, "R15", Ptr(0)) /\ h \in Syms
    BY <2>1, HoldFacts, ValueFacts, RegFacts
  <2>4. b.reg = h.reg /\ b.open = h.open
    BY <2>2, <2>3 DEF Syms
  <2> QED  BY <2>2, <2>3, <2>4, RegFacts DEF Trace, Has, Same, Owned
<1>3. CASE RStoreRa(v, i, a, b)
  <2>1. PICK r \in {"R15", "R10", "RCX"} :
          i = <<"store", r, 0, "RAX">> /\ i \in Opens(v) /\ b = [Hold(a, r, Ptr(0)) EXCEPT !.ent = 1, !.open = TRUE]
    BY <1>3 DEF RStoreRa
  <2>2. PICK h : h = Hold(a, r, Ptr(0))
    OBVIOUS
  <2>3. Has(a, h, r, Ptr(0)) /\ h \in Syms
    <3>1. r \in Regs /\ Ptr(0) \in Values
      BY ValueFacts, RegFacts
    <3> QED  BY <2>2, <3>1, HoldFacts
  <2>4. b.reg = h.reg
    BY <2>1, <2>2, <2>3 DEF Syms
  <2>5. r = "R15" => v.scheme = "REG"
    BY <2>1 DEF Opens, Scratch
  <2>6. ~(i[1] = "load" /\ i[2] = "R15")
    BY <2>1
  <2> QED  BY <2>1, <2>3, <2>4, <2>5, <2>6, RegFacts DEF Trace, Has, Same, Owned
<1>4. CASE RStoreSp(v, i, a, b)
  <2>1. PICK r \in {"R15", "R10", "RCX"} : i = <<"store", r, 1, "RSP">> /\ b = [a EXCEPT !.ent = 2]
    BY <1>4 DEF RStoreSp
  <2>2. TraceRest(a, b)
    BY <2>1 DEF TraceRest, Syms
  <2>3. Quiet(v, i)
    BY <2>1, ClosesAre DEF Quiet
  <2> QED  BY <2>2, <2>3, TraceOnly
<1>5. CASE RStorePtr(v, i, a, b)
  <2>1. PICK r \in {"R10", "RCX", "R11"} :
          v.scheme = "SEG" /\ i = <<"store", "GS", 0, r>> /\ b = [a EXCEPT !.ptr = a.reg[r].d, !.open = (r = "R11")]
    BY <1>5 DEF RStorePtr
  <2>2. b.reg = a.reg /\ (b.open => r = "R11")
    BY <2>1 DEF Syms
  <2>3. r = "R11" => i \in Opens(v)
    BY <2>1 DEF Opens
  <2>4. ~(i[1] = "load" /\ i[2] = "R15")
    BY <2>1
  <2> QED  BY <2>2, <2>3, <2>4 DEF Trace
<1>6. CASE RStoreMirror(v, i, a, b)
  <2>1. CASE v.scheme = "CON" /\ i = <<"store", "RSP", ParOffset, "RAX">> /\ b = [a EXCEPT !.mir = TRUE]
    <3>1. TraceRest(a, b)
      BY <2>1 DEF TraceRest, Syms
    <3>2. Quiet(v, i)
      BY <2>1, ClosesAre DEF Quiet
    <3> QED  BY <3>1, <3>2, TraceOnly
  <2>2. CASE v.scheme = "PARR" /\ i = <<"storex", "RSP", "R15", "RAX">> /\ b = [Hold(a, "R15", Ptr(0)) EXCEPT !.mir = TRUE]
    <3>1. PICK h : h = Hold(a, "R15", Ptr(0))
      OBVIOUS
    <3>2. Has(a, h, "R15", Ptr(0)) /\ h \in Syms
      BY <3>1, HoldFacts, ValueFacts, RegFacts
    <3>3. b.reg = h.reg /\ b.open = h.open
      BY <2>2, <3>1, <3>2 DEF Syms
    <3>4. Quiet(v, i)
      BY <2>2, ClosesAre DEF Quiet
    <3> QED  BY <2>2, <3>2, <3>3, <3>4, RegFacts DEF Trace, Has, Same, Owned, Quiet
  <2> QED  BY <1>6, <2>1, <2>2 DEF RStoreMirror
<1>7. CASE RStoreSlot(v, i, a, b)
  <2>1. PICK r \in Free, j \in 1 .. 3 : i = <<"store", "RSP", -j, r>> /\ b = Fill(a, j, a.reg[r])
    BY <1>7 DEF RStoreSlot
  <2>2. TraceRest(a, b)
    BY <2>1 DEF TraceRest, Syms, Fill
  <2>3. Quiet(v, i)
    BY <2>1, ClosesAre DEF Quiet
  <2> QED  BY <2>2, <2>3, TraceOnly
<1>8. CASE RAddPtr(v, i, a, b)
  <2>1. PICK n \in {-2, 2} :
          /\ i = <<"addm", "RDX", n>> /\ v.scheme = "MEM"
          /\ \/ n = 2 /\ b = [a EXCEPT !.ptr = 2, !.open = FALSE]
             \/ n = -2 /\ b = [a EXCEPT !.ptr = 0, !.open = TRUE]
    BY <1>8 DEF RAddPtr
  <2>2. b.reg = a.reg /\ (b.open => n = -2)
    BY <2>1 DEF Syms
  <2>3. n = -2 => i \in Opens(v)
    BY <2>1 DEF Opens
  <2>4. ~(i[1] = "load" /\ i[2] = "R15")
    BY <2>1
  <2> QED  BY <2>2, <2>3, <2>4 DEF Trace
<1>9. CASE RPush(v, i, a, b)
  <2>1. PICK r \in Free, d \in 1 .. 2 : i = <<"push", r>> /\ b = Fill(Hold(a, "RSP", Want("RSP", -d)), d, a.reg[r])
    BY <1>9 DEF RPush
  <2>2. PICK h : h = Hold(a, "RSP", Want("RSP", -d))
    OBVIOUS
  <2>3. Has(a, h, "RSP", Want("RSP", -d)) /\ h \in Syms
    BY <2>2, HoldFacts, ValueFacts, RegFacts
  <2>4. b.reg = h.reg /\ b.open = h.open
    BY <2>1, <2>2, <2>3 DEF Syms, Fill
  <2>5. TraceRest(a, b)
    BY <2>3, <2>4, RegFacts DEF TraceRest, Has, Same
  <2>6. Quiet(v, i)
    BY <2>1, ClosesAre DEF Quiet
  <2> QED  BY <2>5, <2>6, TraceOnly
<1> QED  BY <1>1, <1>2, <1>3, <1>4, <1>5, <1>6, <1>7, <1>8, <1>9

\* The function's own code and what leaves it.
LEMMA TraceLeave ==
  ASSUME NEW v, NEW i, NEW a \in Syms, NEW b,
         RBody(v, i, a, b) \/ RLeave(v, i, a, b) \/ RJmp(v, i, a, b)
  PROVE  Trace(v, i, a, b)
<1>1. CASE RBody(v, i, a, b)
  <2> DEFINE reg == [r \in Regs |-> IF r \in {"RSP", "GS", "R15"} THEN a.reg[r] ELSE Want(r, 0)]
             slot == [j \in 1 .. 3 |-> Any]
  <2>1. i = <<"body">> /\ b = [a EXCEPT !.reg = reg, !.slot = slot, !.zf = FALSE, !.fresh = FALSE]
    BY <1>1 DEF RBody
  <2>2. reg["GS"] = a.reg["GS"] /\ reg["R15"] = a.reg["R15"]
    BY RegFacts
  <2> HIDE DEF reg, slot
  <2>3. TraceRest(a, b)
    BY <2>1, <2>2 DEF TraceRest, Syms
  <2>4. Quiet(v, i)
    BY <2>1, ClosesAre DEF Quiet
  <2> QED  BY <2>3, <2>4, TraceOnly
<1>2. CASE RLeave(v, i, a, b)
  <2>1. i = <<"back">> /\ b = a
    BY <1>2 DEF RLeave
  <2>2. Quiet(v, i)
    BY <2>1, ClosesAre DEF Quiet
  <2> QED  BY <2>1, <2>2, TraceOnly DEF TraceRest
<1>3. CASE RJmp(v, i, a, b)
  <2> DEFINE reg == [r \in Regs |-> IF r = "RSP" THEN Sure ELSE IF r \in {"GS", "R15"} THEN a.reg[r] ELSE Want(r, 0)]
  <2>1. i = <<"jmp", "R10">> /\ b = [a EXCEPT !.reg = reg]
    BY <1>3 DEF RJmp
  <2>2. reg["GS"] = a.reg["GS"] /\ reg["R15"] = a.reg["R15"]
    BY RegFacts
  <2> HIDE DEF reg
  <2>3. TraceRest(a, b)
    BY <2>1, <2>2 DEF TraceRest, Syms
  <2>4. Quiet(v, i)
    BY <2>1, ClosesAre DEF Quiet
  <2> QED  BY <2>3, <2>4, TraceOnly
<1> QED  BY <1>1, <1>2, <1>3

\* Every rule says how gs, r15 and the windows change.
LEMMA RuleTrace ==
  ASSUME NEW v, NEW i, NEW a \in Syms, NEW b, Rule(v, i, a, b)
  PROVE  Trace(v, i, a, b)
BY TraceCompute, TraceLoad, TraceStore, TraceLeave DEF Rule

-------------------------------------------------------------------------------
(* The notes of a function's code.                                         *)

\* Every nonempty set of naturals has a least element.
LEMMA LeastNat ==
  ASSUME NEW T, T \subseteq Nat, T # {}
  PROVE  \E m \in T : \A k \in T : m <= k
<1>1. PICK m \in T : \A k \in T : ~ (<<k, m>> \in OpToRel(<, Nat))
  BY WFMin, NatLessThanWellFounded, Zenon
<1>2. \A k \in T : ~ (k < m)
  BY <1>1, Zenon DEF OpToRel
<1>3. \A k \in T : k \in Nat /\ m \in Nat
  OBVIOUS
<1> QED  BY <1>2, <1>3

\* Induction along a sequence.
LEMMA Along ==
  ASSUME NEW n \in Nat, NEW T, 1 \in T, \A k \in 1 .. n : k \in T => k + 1 \in T
  PROVE  \A k \in 1 .. n + 1 : k \in T
<1> SUFFICES ASSUME NEW k \in 1 .. n + 1, k \notin T PROVE FALSE
  OBVIOUS
<1> DEFINE U == {j \in 1 .. n + 1 : j \notin T}
<1>1. U \subseteq Nat /\ U # {}
  OBVIOUS
<1> HIDE DEF U
<1>2. PICK m \in U : \A j \in U : m <= j
  BY <1>1, LeastNat
<1>3. m \in 1 .. n + 1 /\ m # 1 /\ m \notin T
  BY <1>2 DEF U
<1>4. m - 1 \in 1 .. n /\ m - 1 \in 1 .. n + 1 /\ m - 1 \notin U
  BY <1>2, <1>3
<1>5. m - 1 \in T
  BY <1>4 DEF U
<1>6. m = (m - 1) + 1
  BY <1>3
<1> QED  BY <1>3, <1>4, <1>5, <1>6

\* A sequence is the beginning of its concatenation with another.
LEMMA ConcatHead ==
  ASSUME NEW S, NEW T, NEW s \in Seq(S), NEW t \in Seq(T)
  PROVE  /\ s \o t \in Seq(S \cup T) /\ Len(s \o t) = Len(s) + Len(t)
         /\ \A k \in 1 .. Len(s) : (s \o t)[k] = s[k]
<1>1. s \in Seq(S \cup T) /\ t \in Seq(S \cup T)
  OBVIOUS
<1>2. Len(s) \in Nat /\ Len(t) \in Nat
  OBVIOUS
<1>3. s \o t \in Seq(S \cup T) /\ Len(s \o t) = Len(s) + Len(t)
      /\ \A k \in 1 .. Len(s) + Len(t) : (s \o t)[k] = IF k <= Len(s) THEN s[k] ELSE t[k - Len(s)]
  BY <1>1, ConcatProperties
<1>4. \A k \in 1 .. Len(s) : (s \o t)[k] = s[k]
  <2> SUFFICES ASSUME NEW k \in 1 .. Len(s) PROVE (s \o t)[k] = s[k]
    OBVIOUS
  <2>1. k \in 1 .. Len(s) + Len(t) /\ k <= Len(s)
    BY <1>2
  <2> QED  BY <2>1, <1>3
<1> QED  BY <1>3, <1>4

\* How a sequence begins and ends.
Shaped(v, s) ==
  /\ \E S : s \in Seq(S)
  /\ Len(s) \in Nat /\ Len(s) >= 1 /\ s[Len(s)] = <<"back">>
  /\ v.load => \E n \in {0, 2} : s[1] = <<"load", "R15", "GS", n>>

\* A function's code ends with its last instruction and starts with the reload.
LEMMA CodeShaped ==
  ASSUME NEW v \in Variant
  PROVE  Shaped(v, Code(v))
<1>1. PICK a : Flows(v, LoadR15(v), Entered(v), a) /\ Loaded(v, a)
  BY FlowLoad
<1>2. PICK b : Flows(v, Prolog(v), a, b) /\ Ready(v, b)
  BY <1>1, FlowProlog
<1>3. PICK c : Stepped(v, <<"body">>, b, c) /\ Started(v, c)
  BY <1>2, StepBody
<1>4. PICK d : Flows(v, Epilog(v), c, d) /\ Final2(v, d)
  BY <1>3, FlowEpilog
<1>5. PICK S1, S2, S4 : LoadR15(v) \in Seq(S1) /\ Prolog(v) \in Seq(S2) /\ Epilog(v) \in Seq(S4)
  BY <1>1, <1>2, <1>4 DEF Flows
<1> DEFINE L == LoadR15(v)
           LP == L \o Prolog(v)
           LPB == LP \o <<<<"body">>>>
           LPBE == LPB \o Epilog(v)
           s == LPBE \o <<<<"back">>>>
           T == {<<"body">>, <<"back">>}
<1>6. <<<<"body">>>> \in Seq(T) /\ <<<<"back">>>> \in Seq(T) /\ Len(<<<<"back">>>>) = 1 /\ <<<<"back">>>>[1] = <<"back">>
  OBVIOUS
<1>7. PICK S3 : /\ LPB \in Seq(S3) /\ Len(LPB) \in Nat
                /\ \A k \in 1 .. Len(L) : k \in 1 .. Len(LPB) /\ LPB[k] = L[k]
  <2>1. LP \in Seq(S1 \cup S2) /\ Len(LP) = Len(L) + Len(Prolog(v)) /\ \A k \in 1 .. Len(L) : LP[k] = L[k]
    BY <1>5, ConcatHead
  <2>2. LPB \in Seq((S1 \cup S2) \cup T) /\ Len(LPB) = Len(LP) + Len(<<<<"body">>>>) /\ \A k \in 1 .. Len(LP) : LPB[k] = LP[k]
    <3> HIDE DEF LP, T
    <3> QED  BY <1>6, <2>1, ConcatHead
  <2>3. Len(L) \in Nat /\ Len(Prolog(v)) \in Nat /\ Len(<<<<"body">>>>) = 1
    BY <1>5
  <2> HIDE DEF L, LP, LPB
  <2>4. \A k \in 1 .. Len(L) : k \in 1 .. Len(LP) /\ k \in 1 .. Len(LPB)
    BY <2>1, <2>2, <2>3
  <2> QED  BY <2>1, <2>2, <2>3, <2>4
<1>8. PICK S5 : /\ LPBE \in Seq(S5) /\ Len(LPBE) \in Nat
                /\ \A k \in 1 .. Len(L) : k \in 1 .. Len(LPBE) /\ LPBE[k] = L[k]
  <2> HIDE DEF L, LPB
  <2>1. LPBE \in Seq(S3 \cup S4) /\ Len(LPBE) = Len(LPB) + Len(Epilog(v)) /\ \A k \in 1 .. Len(LPB) : LPBE[k] = LPB[k]
    BY <1>5, <1>7, ConcatHead
  <2>2. Len(Epilog(v)) \in Nat
    BY <1>5
  <2> HIDE DEF LPBE
  <2>3. \A k \in 1 .. Len(LPB) : k \in 1 .. Len(LPBE)
    BY <1>7, <2>1, <2>2
  <2> QED  BY <1>7, <2>1, <2>2, <2>3
<1>9. s \in Seq(S5 \cup T) /\ Len(s) = Len(LPBE) + 1 /\ s[Len(LPBE) + 1] = <<"back">>
      /\ \A k \in 1 .. Len(LPBE) : s[k] = LPBE[k]
  <2> HIDE DEF LPBE, T
  <2>1. s \in Seq(S5 \cup T) /\ Len(s) = Len(LPBE) + Len(<<<<"back">>>>) /\ \A k \in 1 .. Len(LPBE) : s[k] = LPBE[k]
    BY <1>6, <1>8, ConcatHead
  <2>2. LPBE \in Seq(S5 \cup T) /\ <<<<"back">>>> \in Seq(S5 \cup T)
    BY <1>6, <1>8
  <2>3. \A k \in 1 .. Len(LPBE) + Len(<<<<"back">>>>) : s[k] = IF k <= Len(LPBE) THEN LPBE[k] ELSE <<<<"back">>>>[k - Len(LPBE)]
    BY <2>2, ConcatProperties
  <2>4. Len(LPBE) + 1 \in 1 .. Len(LPBE) + Len(<<<<"back">>>>) /\ ~(Len(LPBE) + 1 <= Len(LPBE)) /\ (Len(LPBE) + 1) - Len(LPBE) = 1
    BY <1>6, <1>8
  <2> HIDE DEF s
  <2> QED  BY <1>6, <2>1, <2>3, <2>4
<1>10. v.load => \E n \in {0, 2} : s[1] = <<"load", "R15", "GS", n>>
  <2> SUFFICES ASSUME v.load PROVE \E n \in {0, 2} : s[1] = <<"load", "R15", "GS", n>>
    OBVIOUS
  <2>1. PICK n \in {0, 2} : L = <<<<"load", "R15", "GS", n>>>>
    <3>1. L = <<<<"load", "R15", "GS", IF v.scheme = "PARR" THEN 0 ELSE 2>>>>
      BY DEF LoadR15, If
    <3> QED  BY <3>1
  <2>2. Len(L) = 1 /\ L[1] = <<"load", "R15", "GS", n>>
    BY <2>1
  <2> HIDE DEF L, LPBE, s
  <2>3. s[1] = L[1]
    BY <1>8, <1>9, <2>2
  <2> QED  BY <2>2, <2>3
<1>11. Code(v) = s
  BY DEF Code
<1> HIDE DEF s, LPBE
<1>12. Len(s) \in Nat /\ Len(s) >= 1 /\ s[Len(s)] = <<"back">>
  BY <1>8, <1>9
<1> QED  BY <1>9, <1>10, <1>11, <1>12 DEF Shaped

\* The walk along a function's code.
Notes(v) == CHOOSE A : Walks(v, Code(v), A) /\ A[1] = Entered(v)

\* The notes exist: the walk along Code(v) succeeds for every variant.
LEMMA NotesWalk ==
  ASSUME NEW v \in Variant
  PROVE  Walks(v, Code(v), Notes(v)) /\ Notes(v)[1] = Entered(v)
<1>1. \E A : Walks(v, Code(v), A) /\ A[1] = Entered(v)
  BY Annotated
<1> QED  BY <1>1 DEF Notes

\* An entry is exposed before instruction k.
InWindow(v, s, k) == \E j \in 1 .. k - 1 : s[j] \in Opens(v) /\ \A i \in j + 1 .. k - 1 : s[i] \notin Closes(v)

\* What the walk says of gs, of r15 and of the windows before instruction k.
Before(v, s, a, k) ==
  /\ a.reg["GS"] = PageOf(v)
  /\ \/ a.reg["R15"] = Ptr(0) /\ Owned(v)
     \/ a.reg["R15"] = Ptr(2) /\ v.scheme = "REG"
     \/ a.reg["R15"] = Base /\ Owned(v)
     \/ a.reg["R15"] = Unset /\ k = 1 /\ v.load
     \/ a.reg["R15"] = Want("R15", 0) /\ ~Owned(v)
  /\ a.open => InWindow(v, s, k)

\* A window stays open until an instruction closes it.
LEMMA WindowGrows ==
  ASSUME NEW v, NEW s, NEW k \in Nat, k >= 1,
         s[k] \in Opens(v) \/ (InWindow(v, s, k) /\ s[k] \notin Closes(v))
  PROVE  InWindow(v, s, k + 1)
<1>1. CASE s[k] \in Opens(v)
  <2>1. k \in 1 .. (k + 1) - 1 /\ \A i \in k + 1 .. (k + 1) - 1 : FALSE
    OBVIOUS
  <2> QED  BY <1>1, <2>1 DEF InWindow
<1>2. CASE InWindow(v, s, k) /\ s[k] \notin Closes(v)
  <2>1. PICK j \in 1 .. k - 1 : s[j] \in Opens(v) /\ \A i \in j + 1 .. k - 1 : s[i] \notin Closes(v)
    BY <1>2 DEF InWindow
  <2>2. j \in 1 .. (k + 1) - 1
    OBVIOUS
  <2>3. ASSUME NEW i \in j + 1 .. (k + 1) - 1 PROVE s[i] \notin Closes(v)
    <3>1. i = k \/ i \in j + 1 .. k - 1
      OBVIOUS
    <3> QED  BY <1>2, <2>1, <3>1
  <2> QED  BY <2>1, <2>2, <2>3 DEF InWindow
<1> QED  BY <1>1, <1>2

\* A note that says an entry is exposed stands inside the code's window.
LEMMA NotesFacts ==
  ASSUME NEW v \in Variant
  PROVE  \A k \in 1 .. Len(Code(v)) + 1 : Before(v, Code(v), Notes(v)[k], k)
<1> DEFINE s == Code(v)
           A == Notes(v)
           n == Len(s)
           T == {k \in 1 .. n + 1 : Before(v, s, A[k], k)}
<1>1. /\ Shaped(v, s) /\ A[1] = Entered(v) /\ A \in [1 .. n + 1 -> Syms] /\ n \in Nat
      /\ \A k \in 1 .. n : Rule(v, s[k], A[k], A[k + 1])
  BY CodeShaped, NotesWalk DEF Walks, Shaped
<1> HIDE DEF s, A
<1>2. 1 \in T
  <2>1. Entered(v).reg["GS"] = PageOf(v) /\ ~Entered(v).open
    BY RegFacts DEF Entered, PageOf
  <2>2. Entered(v).reg["R15"] = IF v.load THEN Unset ELSE IF Owned(v) THEN Base ELSE Want("R15", 0)
    BY RegFacts DEF Entered, Owned
  <2>3. Before(v, s, A[1], 1)
    BY <1>1, <2>1, <2>2 DEF Before
  <2> QED  BY <1>1, <2>3
<1>3. ASSUME NEW k \in 1 .. n, k \in T PROVE k + 1 \in T
  <2>1. k + 1 \in 1 .. n + 1 /\ k \in 1 .. n + 1 /\ k \in Nat /\ k >= 1
    BY <1>1
  <2>2. A[k] \in Syms /\ Before(v, s, A[k], k) /\ Trace(v, s[k], A[k], A[k + 1])
    BY <1>1, <1>3, <2>1, RuleTrace
  <2>3. A[k + 1].open => InWindow(v, s, k + 1)
    BY <2>1, <2>2, WindowGrows DEF Trace, Before
  <2>4. A[k + 1].reg["GS"] = PageOf(v)
    BY <2>2 DEF Trace, Before
  <2>5. \/ A[k + 1].reg["R15"] = Ptr(0) /\ Owned(v)
        \/ A[k + 1].reg["R15"] = Ptr(2) /\ v.scheme = "REG"
        \/ A[k + 1].reg["R15"] = Base /\ Owned(v)
        \/ A[k + 1].reg["R15"] = Want("R15", 0) /\ ~Owned(v)
    <3>1. CASE A[k].reg["R15"] = Unset /\ k = 1 /\ v.load
      <4>1. s[k][1] = "load" /\ s[k][2] = "R15"
        BY <1>1, <3>1 DEF Shaped
      <4> QED  BY <2>2, <4>1 DEF Trace
    <3>2. CASE ~(A[k].reg["R15"] = Unset /\ k = 1 /\ v.load)
      BY <2>2, <3>2 DEF Trace, Before
    <3> QED  BY <3>1, <3>2
  <2> QED  BY <2>1, <2>3, <2>4, <2>5 DEF Before
<1> HIDE DEF T
<1>4. \A k \in 1 .. n + 1 : k \in T
  BY <1>1, <1>2, <1>3, Along
<1>5. \A k \in 1 .. n + 1 : Before(v, s, A[k], k)
  BY <1>4 DEF T
<1> QED  BY <1>5 DEF n, s, A

-------------------------------------------------------------------------------
(* What notes mean: one activation on the machine.                         *)

RaOf(l) == IF l = 0 THEN Caller ELSE Restorer
P0(v)   == IF v.scheme = "PARR" THEN ParOffset ELSE Start(v.scheme)

\* What an activation is judged by: the registers it was entered with, what its
\* slot holds, its shadow pointer at the entry, how deep it is nested, and what
\* has happened so far.
Blames == {"raced", "early", "altered"}
Frames == [w : [Regs -> Int], s : Int, q : Int, l : 0 .. MaxNest, F : SUBSET Blames]
At(e)  == e.w["RSP"]

\* What a symbolic value says of a number.
Means(x, n, e) ==
  /\ x.t = "want" => n = e.w[x.q] + x.d
  /\ x.t = "lit" => n = x.d
  /\ x.t = "ptr" => n = e.q + x.d
  /\ x.t = "base" => n = e.q \/ (n = Foreign /\ "early" \in e.F)
  /\ x.t = "foreign" => n = Foreign
  /\ x.t = "ra" => n = RaOf(e.l)
  /\ x.t = "old" => n # Altered /\ ("raced" \in e.F \/ n = RaOf(e.l))
  /\ x.t = "now" => n = e.s
  /\ x.t = "diff" => (n = 0 => e.s = RaOf(e.l)) /\ (e.s = RaOf(e.l) /\ "raced" \notin e.F => n = 0)
  /\ x.t = "choice" => \/ n = At(e) /\ e.s = RaOf(e.l)
                       \/ n = NullPage /\ (e.s # RaOf(e.l) \/ "raced" \in e.F)
  /\ x.t = "sure" => n = At(e) /\ e.s = RaOf(e.l)

RegsMean(a, r, e)   == \A x \in Regs : Means(a.reg[x], r[x], e)
SlotsMean(a, m, e)  == \A j \in 1 .. 3 : Means(a.slot[j], m[At(e) - j], e)
FlagMeans(a, z, e)  == a.zf => /\ z => e.s = RaOf(e.l)
                               /\ e.s = RaOf(e.l) /\ "raced" \notin e.F => z
EntryMeans(v, a, m, e) == ~Mirrored(v) => /\ a.ent >= 1 => "raced" \in e.F \/ m[e.q] = RaOf(e.l)
                                          /\ a.ent = 2 => "raced" \in e.F \/ m[e.q + 1] = At(e)
MirrorMeans(v, a, m, e) == Mirrored(v) /\ a.mir => m[At(e) + ParOffset] = RaOf(e.l)
KeyMeans(v, a, k)   == /\ ~v.mpk => k = OpenAll
                       /\ v.mpk /\ a.pk = "open" => k = OpenAll
                       /\ v.mpk /\ a.pk = "lock" => k = WriteProt
SlotMeans(v, a, m, e) == /\ m[At(e)] = e.s /\ e.s \in {RaOf(e.l), Altered}
                         /\ e.s = Altered => "altered" \in e.F
                         /\ a.fresh => e.s = RaOf(e.l) /\ (e.l = 0 => e.w = InitRegs(v))
Placed(v, e) == /\ At(e) \in 4 .. StackTop /\ (e.l = 0 => At(e) = Entry)
                /\ e.q >= P0(v) /\ e.q - ShadowBase - 2 <= StackTop - At(e)
                /\ Mirrored(v) => e.q = P0(v)
\* What the innermost activation says of the shadow stack as a whole.
Shared(v, a, m, e) == /\ \A x \in Shadow : m[x] # Altered
                      /\ m[ClaveBase] = ParOffset /\ m[ClaveBase + 2] = ShadowBase
                      /\ Stacked(v) => m[ShadowBase] = e.q + a.ptr

\* One activation, described by a, with registers r, memory m, flag z and
\* protection k.
Acts(v, a, e, r, m, z, k) ==
  /\ RegsMean(a, r, e) /\ SlotsMean(a, m, e) /\ FlagMeans(a, z, e) /\ EntryMeans(v, a, m, e)
  /\ MirrorMeans(v, a, m, e) /\ KeyMeans(v, a, k) /\ SlotMeans(v, a, m, e) /\ Placed(v, e)
Typed(e, r, m, z, k) ==
  /\ e \in Frames /\ r \in [Regs -> Int] /\ m \in [Words -> Int] /\ z \in BOOLEAN
  /\ k \in {OpenAll, WriteProt, AccessProt}
Live(v, a, e, r, m, z, k) ==
  Typed(e, r, m, z, k) /\ Acts(v, a, e, r, m, z, k) /\ Shared(v, a, m, e)

\* What the plain symbolic values mean.
LEMMA MeansFacts ==
  ASSUME NEW e \in Frames, NEW n
  PROVE  /\ Means(Any, n, e)
         /\ \A r \in Regs, d \in Int : Means(Want(r, d), n, e) <=> n = e.w[r] + d
         /\ \A d \in Int : Means(Lit(d), n, e) <=> n = d
         /\ \A d \in Int : Means(Ptr(d), n, e) <=> n = e.q + d
BY DEF Means, Any, Want, Lit, Ptr, Tagged

\* What the others mean.
LEMMA MeansTags ==
  ASSUME NEW e \in Frames, NEW n
  PROVE  /\ Means(Base, n, e) <=> n = e.q \/ (n = Foreign /\ "early" \in e.F)
         /\ Means(Unset, n, e) <=> n = Foreign
         /\ Means(Ra, n, e) <=> n = RaOf(e.l)
         /\ Means(Old, n, e) <=> n # Altered /\ ("raced" \in e.F \/ n = RaOf(e.l))
         /\ Means(Now, n, e) <=> n = e.s
         /\ Means(Diff, n, e) <=>
              (n = 0 => e.s = RaOf(e.l)) /\ (e.s = RaOf(e.l) /\ "raced" \notin e.F => n = 0)
         /\ Means(Choice, n, e) <=> \/ n = At(e) /\ e.s = RaOf(e.l)
                                    \/ n = NullPage /\ (e.s # RaOf(e.l) \/ "raced" \in e.F)
         /\ Means(Sure, n, e) <=> n = At(e) /\ e.s = RaOf(e.l)
BY DEF Means, Base, Unset, Ra, Old, Now, Diff, Choice, Sure, Tagged

\* rsp at the slot.
LEMMA MeansHere ==
  ASSUME NEW e \in Frames, NEW n
  PROVE  Means(Here, n, e) <=> n = At(e)
<1>1. e.w["RSP"] \in Int
  BY RegFacts DEF Frames
<1>2. Means(Want("RSP", 0), n, e) <=> n = e.w["RSP"] + 0
  BY MeansFacts, RegFacts
<1> QED  BY <1>1, <1>2 DEF Here, At

\* A value in a slot or of a register the caller left.
LEMMA MeansWant ==
  ASSUME NEW e \in Frames, NEW n, NEW r \in Regs
  PROVE  Means(Want(r, 0), n, e) <=> n = e.w[r]
<1>1. e.w[r] \in Int
  BY DEF Frames
<1>2. Want(r, 0).t = "want" /\ Want(r, 0).q = r /\ Want(r, 0).d = 0
  BY DEF Want
<1>3. Means(Want(r, 0), n, e) <=> n = e.w[r] + 0
  BY <1>2 DEF Means
<1> QED  BY <1>1, <1>3

\* Where everything lies.
LEMMA Layout ==
  /\ StackTop \in Nat /\ ShadowBase \in Nat /\ ClaveBase \in Nat /\ RedZone \in Nat /\ RedZone >= 3 /\ MaxNest \in Nat
  /\ ShadowBase > StackTop /\ ClaveBase > ShadowBase + StackTop /\ Entry \in 1 .. StackTop
  /\ Caller = ClaveBase + 5 /\ Restorer = ClaveBase + 6 /\ Altered = ClaveBase + 7 /\ Foreign = ClaveBase + 8
  /\ ParOffset = ShadowBase - 1 /\ NullPage = 0 /\ OpenAll = 0 /\ WriteProt = 8 /\ AccessProt = 4
BY LayoutAssumption DEF Caller, Restorer, Altered, Foreign, ParOffset, NullPage, OpenAll, WriteProt, AccessProt

\* Stack, shadow stack and clave are apart.
LEMMA WordFacts ==
  ASSUME NEW x
  PROVE  /\ x \in Words <=> x \in Stack \/ x \in Shadow \/ x \in Clave
         /\ x \in Stack => x \in Int /\ 1 <= x /\ x <= StackTop /\ x \notin Shadow /\ x \notin Clave
         /\ x \in Shadow => x \in Int /\ ShadowBase <= x /\ x <= ShadowBase + StackTop - 1 /\ x \notin Stack /\ x \notin Clave
         /\ x \in Clave => x \in Int /\ ClaveBase <= x /\ x <= ClaveBase + 4 /\ x \notin Stack /\ x \notin Shadow
BY Layout DEF Words, Stack, Shadow, Clave

\* The words of an activation exist.
LEMMA Places ==
  ASSUME NEW v \in Variant, NEW e \in Frames, Placed(v, e)
  PROVE  /\ At(e) \in Int /\ At(e) \in Stack /\ At(e) - 1 \in Stack /\ At(e) - 2 \in Stack /\ At(e) - 3 \in Stack
         /\ e.q \in Int
         /\ ~Mirrored(v) => e.q \in Shadow /\ e.q + 1 \in Shadow
         /\ Stacked(v) => ShadowBase \in Shadow /\ e.q > ShadowBase
         /\ Mirrored(v) => At(e) + ParOffset \in Shadow
<1>1. e.q \in Int /\ At(e) \in Int /\ At(e) >= 4 /\ At(e) <= StackTop
  BY Layout DEF Placed, Frames, At
<1>2. v.scheme \in Schemes
  BY DEF Variant
<1>3. e.q >= P0(v) /\ e.q - ShadowBase - 2 <= StackTop - At(e)
  BY DEF Placed
<1>4. ~Mirrored(v) => P0(v) \in Int /\ P0(v) >= ShadowBase
  BY <1>2, Layout DEF P0, Start, Mirrored, Schemes
<1>5. Stacked(v) => P0(v) \in Int /\ P0(v) > ShadowBase /\ ~Mirrored(v)
  BY <1>2, Layout DEF P0, Start, Mirrored, Schemes, Stacked
<1>6. ~Mirrored(v) => e.q \in Shadow /\ e.q + 1 \in Shadow
  BY <1>1, <1>3, <1>4, Layout DEF Shadow
<1>7. Stacked(v) => ShadowBase \in Shadow /\ e.q > ShadowBase
  BY <1>1, <1>3, <1>5, Layout DEF Shadow
<1>8. At(e) + ParOffset \in Shadow
  BY <1>1, Layout DEF Shadow
<1>9. At(e) \in Stack /\ At(e) - 1 \in Stack /\ At(e) - 2 \in Stack /\ At(e) - 3 \in Stack
  BY <1>1, Layout DEF Stack
<1> QED  BY <1>1, <1>6, <1>7, <1>8, <1>9

\* What a step may write: below and, by the function's own code, at its slot, at
\* its entry, the pointer, the mirrored word.
Spared(v, m, n, e) ==
  \A x \in Words : n[x] # m[x] =>
    \/ x \in Stack /\ x <= At(e)
    \/ ~Mirrored(v) /\ x \in {e.q, e.q + 1}
    \/ Stacked(v) /\ x = ShadowBase
    \/ Mirrored(v) /\ x = At(e) + ParOffset

\* Writing nothing spares everything.
LEMMA SparedNone ==
  ASSUME NEW v, NEW m, NEW e
  PROVE  Spared(v, m, m, e)
BY DEF Spared

\* A step that only changes registers.
LEMMA LiveRegs ==
  ASSUME NEW v, NEW a \in Syms, NEW e, NEW r, NEW m, NEW z, NEW k, Live(v, a, e, r, m, z, k),
         NEW b \in Syms, NEW r2 \in [Regs -> Int], RegsMean(b, r2, e),
         \A j \in 1 .. 3 : b.slot[j] = a.slot[j] \/ b.slot[j] = Any,
         b.ent = a.ent \/ b.ent = 0, b.mir = a.mir, b.pk = a.pk, b.zf = a.zf, b.fresh = a.fresh, b.ptr = a.ptr
  PROVE  Live(v, b, e, r2, m, z, k)
<1>1. e \in Frames
  BY DEF Live, Typed
<1>2. SlotsMean(b, m, e)
  BY <1>1, MeansFacts DEF Live, Acts, SlotsMean
<1>3. FlagMeans(b, z, e) /\ MirrorMeans(v, b, m, e) /\ KeyMeans(v, b, k) /\ SlotMeans(v, b, m, e) /\ Placed(v, e)
  BY DEF Live, Acts, FlagMeans, MirrorMeans, KeyMeans, SlotMeans
<1>4. EntryMeans(v, b, m, e)
  BY DEF Live, Acts, EntryMeans, Syms
<1>5. Typed(e, r2, m, z, k) /\ Shared(v, b, m, e)
  BY DEF Live, Typed, Shared
<1> QED  BY <1>2, <1>3, <1>4, <1>5 DEF Live, Acts

\* A step that only changes one register, and how the walk sees it.
LEMMA LiveHas ==
  ASSUME NEW v, NEW a \in Syms, NEW e, NEW r, NEW m, NEW z, NEW k, Live(v, a, e, r, m, z, k),
         NEW b \in Syms, NEW x \in Regs, NEW y, NEW n \in Int, Has(a, b, x, y), Means(y, n, e),
         NEW r2, r2 = [r EXCEPT ![x] = n]
  PROVE  Live(v, b, e, r2, m, z, k)
<1>1. r \in [Regs -> Int] /\ RegsMean(a, r, e)
  BY DEF Live, Typed, Acts
<1>a. \A q \in Regs : b.reg[q] = IF q = x THEN y ELSE a.reg[q]
  BY DEF Has
<1>2. RegsMean(b, r2, e) /\ r2 \in [Regs -> Int]
  BY <1>1, <1>a DEF RegsMean
<1>3. b.slot = a.slot /\ b.ent = a.ent /\ b.mir = a.mir /\ b.pk = a.pk /\ b.zf = a.zf /\ b.fresh = a.fresh /\ b.ptr = a.ptr
  BY DEF Has, Same
<1> QED  BY <1>2, <1>3, LiveRegs

-------------------------------------------------------------------------------
(* The machine does what the rules say.                                    *)

\* The machine before a step of the activation that runs.
Pre(v, a, e) ==
  /\ v \in Variant /\ v.mpk = variant.mpk /\ (v.load => e.q = P0(v)) /\ a \in Syms /\ Stable(v, a)
  /\ status = "run" /\ Live(v, a, e, regs, mem, zf, pkru)
\* And after it.
Sound(v, b, e) ==
  \/ status' = "run" /\ Live(v, b, e, regs', mem', zf', pkru') /\ Spared(v, mem, mem', e)
  \/ status' = "trap" /\ ("altered" \in e.F \/ "raced" \in e.F)
  \/ status' = "segv" /\ "early" \in e.F

\* What each instruction does.
LEMMA ExecLoad ==
  ASSUME NEW r, NEW s, NEW n, Exec(<<"load", r, s, n>>)
  PROVE  Read(r, regs[s] + n)
BY DEF Exec

\* What Loadx does.
LEMMA ExecLoadx ==
  ASSUME NEW r, NEW s, NEW n, Exec(<<"loadx", r, s, n>>)
  PROVE  Read(r, regs[s] + regs[n])
BY DEF Exec

\* What Store does.
LEMMA ExecStore ==
  ASSUME NEW r, NEW s, NEW n, Exec(<<"store", r, n, s>>)
  PROVE  Write(regs[r] + n, regs[s]) /\ regs' = regs
BY DEF Exec

\* What Storex does.
LEMMA ExecStorex ==
  ASSUME NEW r, NEW s, NEW n, Exec(<<"storex", r, n, s>>)
  PROVE  Write(regs[r] + regs[n], regs[s]) /\ regs' = regs
BY DEF Exec

\* What Addm does.
LEMMA ExecAddm ==
  ASSUME NEW r, NEW n, Exec(<<"addm", r, n>>)
  PROVE  Write(regs[r], mem[regs[r]] + n) /\ regs' = regs
BY DEF Exec

\* What Push does.
LEMMA ExecPush ==
  ASSUME NEW r, Exec(<<"push", r>>)
  PROVE  Write(regs["RSP"] - 1, regs[r]) /\ regs' = [regs EXCEPT !["RSP"] = regs["RSP"] - 1]
BY DEF Exec, Set

\* What Pop does.
LEMMA ExecPop ==
  ASSUME NEW r, Exec(<<"pop", r>>)
  PROVE  /\ regs' = [regs EXCEPT ![r] = mem[regs["RSP"]], !["RSP"] = @ + 1]
         /\ mem' = mem /\ zf' = zf /\ pkru' = pkru /\ status' = status
BY DEF Exec

\* What Mov does.
LEMMA ExecMov ==
  ASSUME NEW r, NEW s, Exec(<<"mov", r, s>>)
  PROVE  Compute(r, regs[s])
BY DEF Exec

\* What Imm does.
LEMMA ExecImm ==
  ASSUME NEW r, NEW n, Exec(<<"imm", r, n>>)
  PROVE  Compute(r, n)
BY DEF Exec

\* What Add does.
LEMMA ExecAdd ==
  ASSUME NEW r, NEW n, Exec(<<"add", r, n>>)
  PROVE  Compute(r, regs[r] + n)
BY DEF Exec

\* What Xor does.
LEMMA ExecXor ==
  ASSUME NEW r, NEW s, Exec(<<"xor", r, s>>)
  PROVE  Compute(r, Differ(regs[r], regs[s]))
BY DEF Exec

\* What Popcnt does.
LEMMA ExecPopcnt ==
  ASSUME NEW r, Exec(<<"popcnt", r>>)
  PROVE  Compute(r, regs[r])
BY DEF Exec

\* What Xorm does.
LEMMA ExecXorm ==
  ASSUME NEW r, NEW s, Exec(<<"xorm", r, s>>)
  PROVE  /\ Set(r, Differ(regs[r], mem[regs[s]])) /\ zf' = (regs[r] = mem[regs[s]])
         /\ mem' = mem /\ pkru' = pkru /\ status' = status
BY DEF Exec

\* What Cmove does.
LEMMA ExecCmove ==
  ASSUME NEW r, NEW s, Exec(<<"cmove", r, s>>)
  PROVE  Compute(r, IF zf THEN regs[s] ELSE regs[r])
BY DEF Exec

\* What Probe does.
LEMMA ExecProbe ==
  ASSUME NEW r, Exec(<<"probe", r>>)
  PROVE  /\ status' = IF regs[r] = 0 THEN "run" ELSE "trap"
         /\ regs' = regs /\ mem' = mem /\ zf' = zf /\ pkru' = pkru
BY DEF Exec

\* What Wrpkru does.
LEMMA ExecWrpkru ==
  ASSUME Exec(<<"wrpkru">>)
  PROVE  pkru' = regs["RAX"] /\ regs' = regs /\ mem' = mem /\ zf' = zf /\ status' = status
BY DEF Exec

\* What Pre says in short.
LEMMA PreFacts ==
  ASSUME NEW v, NEW a, NEW e, Pre(v, a, e)
  PROVE  /\ v \in Variant /\ a \in Syms /\ Stable(v, a) /\ status = "run"
         /\ Live(v, a, e, regs, mem, zf, pkru)
         /\ e \in Frames /\ regs \in [Regs -> Int] /\ mem \in [Words -> Int]
         /\ RegsMean(a, regs, e) /\ Placed(v, e)
BY DEF Pre, Live, Typed, Acts

\* No access is refused.
LEMMA Granted ==
  ASSUME NEW v, NEW a, NEW e, Pre(v, a, e), NEW x \in Words
  PROVE  /\ (x \in Shadow => Reads(v, a)) => Fault(x, FALSE) = "run"
         /\ (x \in Shadow => Writes(v, a)) => Fault(x, TRUE) = "run"
<1>1. KeyMeans(v, a, pkru) /\ v.mpk = variant.mpk
  BY DEF Pre, Live, Acts
<1>2. (x \in Shadow => Reads(v, a)) => ~Blocked(x, FALSE)
  BY <1>1, Layout DEF Blocked, Reads, KeyMeans
<1>3. (x \in Shadow => Writes(v, a)) => ~Blocked(x, TRUE)
  BY <1>1, Layout DEF Blocked, Writes, KeyMeans
<1> QED  BY <1>2, <1>3 DEF Fault

\* A permitted read gets its word.
LEMMA ReadDone ==
  ASSUME NEW v, NEW a, NEW e, Pre(v, a, e), NEW r, NEW x, Read(r, x), x \in Words, x \in Shadow => Reads(v, a)
  PROVE  /\ status' = "run" /\ regs' = [regs EXCEPT ![r] = mem[x]] /\ mem[x] \in Int
         /\ mem' = mem /\ zf' = zf /\ pkru' = pkru
<1>1. Fault(x, FALSE) = "run"
  BY Granted
<1>2. mem[x] \in Int
  BY PreFacts
<1> QED  BY <1>1, <1>2 DEF Read, Set

\* A permitted write changes its word.
LEMMA WriteDone ==
  ASSUME NEW v, NEW a, NEW e, Pre(v, a, e), NEW n, NEW x, Write(x, n), x \in Words, x \in Shadow => Writes(v, a)
  PROVE  status' = "run" /\ mem' = [mem EXCEPT ![x] = n] /\ zf' = zf /\ pkru' = pkru
<1>1. Fault(x, TRUE) = "run"
  BY Granted
<1> QED  BY <1>1 DEF Write

\* A step that gives one register a value and touches nothing else.
LEMMA SoundSet ==
  ASSUME NEW v, NEW a, NEW e, Pre(v, a, e), NEW b \in Syms, NEW x \in Regs, NEW y, NEW n \in Int,
         Has(a, b, x, y), Means(y, n, e),
         regs' = [regs EXCEPT ![x] = n], mem' = mem, zf' = zf, pkru' = pkru, status' = "run"
  PROVE  Sound(v, b, e)
<1>1. PICK r2 : r2 = [regs EXCEPT ![x] = n]
  OBVIOUS
<1>2. Live(v, b, e, r2, mem, zf, pkru)
  BY <1>1, PreFacts, LiveHas
<1>3. Live(v, b, e, regs', mem', zf', pkru')
  BY <1>1, <1>2
<1> QED  BY <1>3, SparedNone DEF Sound

\* A computation gives one register its symbolic value.
LEMMA SoundCompute ==
  ASSUME NEW v, NEW a, NEW e, Pre(v, a, e), NEW b \in Syms, NEW x \in Regs, NEW y, NEW n \in Int,
         Has(a, b, x, y), Means(y, n, e), Compute(x, n)
  PROVE  Sound(v, b, e)
<1>1. regs' = [regs EXCEPT ![x] = n] /\ mem' = mem /\ zf' = zf /\ pkru' = pkru /\ status' = "run"
  BY PreFacts DEF Compute, Set
<1> QED  BY <1>1, SoundSet

\* The machine does what the rules say: one lemma for each rule.
LEMMA SoundMov ==
  ASSUME NEW v, NEW a, NEW e, Pre(v, a, e), NEW i, NEW b \in Syms, RMov(v, i, a, b), Exec(i)
  PROVE  Sound(v, b, e)
<1>1. PICK r \in Free, s \in Regs : i = <<"mov", r, s>> /\ b = Hold(a, r, a.reg[s])
  BY DEF RMov
<1>2. a \in Syms /\ r \in Regs /\ a.reg[s] \in Values /\ regs[s] \in Int
  BY RegFacts, PreFacts DEF Syms
<1>3. Has(a, b, r, a.reg[s])
  BY <1>1, <1>2, HoldFacts
<1>4. Means(a.reg[s], regs[s], e)
  BY PreFacts DEF RegsMean
<1>5. Compute(r, regs[s])
  BY <1>1, ExecMov
<1> QED  BY <1>2, <1>3, <1>4, <1>5, SoundCompute

\* The machine does what the rule for Imm says.
LEMMA SoundImm ==
  ASSUME NEW v, NEW a, NEW e, Pre(v, a, e), NEW i, NEW b \in Syms, RImm(v, i, a, b), Exec(i)
  PROVE  Sound(v, b, e)
<1>1. PICK r \in Free, n \in {OpenAll, WriteProt, ShadowBase} : i = <<"imm", r, n>> /\ b = Hold(a, r, Lit(n))
  BY DEF RImm
<1>2. a \in Syms /\ r \in Regs /\ n \in Int /\ Lit(n) \in Values /\ e \in Frames
  BY RegFacts, PreFacts, Layout, ValueFacts
<1>3. Has(a, b, r, Lit(n))
  BY <1>1, <1>2, HoldFacts
<1>4. Means(Lit(n), n, e)
  BY <1>2, MeansFacts
<1>5. Compute(r, n)
  BY <1>1, ExecImm
<1> QED  BY <1>2, <1>3, <1>4, <1>5, SoundCompute

\* The machine does what the rule for Add says.
LEMMA SoundAdd ==
  ASSUME NEW v, NEW a, NEW e, Pre(v, a, e), NEW i, NEW b \in Syms, RAdd(v, i, a, b), Exec(i)
  PROVE  Sound(v, b, e)
<1>1. PICK r \in Free, n \in {-2, 2} : i = <<"add", r, n>> /\ a.reg[r].t = "ptr" /\ b = Hold(a, r, Ptr(a.reg[r].d + n))
  BY DEF RAdd
<1>2. a \in Syms /\ r \in Regs /\ n \in Int /\ a.reg[r] \in Values /\ regs[r] \in Int /\ e \in Frames
  BY RegFacts, PreFacts DEF Syms
<1>3. a.reg[r].d + n \in Int /\ a.reg[r].d \in Int
  BY <1>2 DEF Values
<1>4. Ptr(a.reg[r].d + n) \in Values
  BY <1>3, ValueFacts
<1>5. Has(a, b, r, Ptr(a.reg[r].d + n))
  BY <1>1, <1>2, <1>4, HoldFacts
<1>6. regs[r] = e.q + a.reg[r].d /\ e.q \in Int
  BY <1>1, <1>2, PreFacts DEF RegsMean, Means, Frames
<1>7. regs[r] + n = e.q + (a.reg[r].d + n) /\ regs[r] + n \in Int
  BY <1>2, <1>3, <1>6
<1>8. Means(Ptr(a.reg[r].d + n), regs[r] + n, e)
  BY <1>2, <1>3, <1>7, MeansFacts
<1>9. Compute(r, regs[r] + n)
  BY <1>1, ExecAdd
<1> QED  BY <1>2, <1>5, <1>7, <1>8, <1>9, SoundCompute

\* The pointer moved forth and back under REG.
LEMMA SoundShift ==
  ASSUME NEW v, NEW a, NEW e, Pre(v, a, e), NEW b \in Syms, NEW c \in {0, 2}, NEW d \in {0, 2}, NEW n \in {-2, 2}, d = c + n,
         a.reg["R15"] = Ptr(c), Exec(<<"add", "R15", n>>),
         \A q \in Regs : b.reg[q] = IF q = "R15" THEN Ptr(d) ELSE a.reg[q],
         b.slot = a.slot, b.ent = a.ent \/ b.ent = 0, b.mir = a.mir, b.pk = a.pk, b.zf = a.zf, b.fresh = a.fresh, b.ptr = a.ptr
  PROVE  Sound(v, b, e)
<1>1. /\ e \in Frames /\ regs \in [Regs -> Int] /\ RegsMean(a, regs, e) /\ a \in Syms /\ e.q \in Int
      /\ regs["R15"] \in Int /\ c \in Int /\ d \in Int /\ n \in Int
  BY PreFacts, RegFacts DEF Frames
<1>2. Means(Ptr(c), regs["R15"], e)
  BY <1>1, RegFacts DEF RegsMean
<1>3. regs["R15"] = e.q + c
  <2>1. Ptr(c).t = "ptr" /\ Ptr(c).d = c
    BY DEF Ptr
  <2> QED  BY <1>2, <2>1 DEF Means
<1>4. regs["R15"] + n = e.q + d /\ regs["R15"] + n \in Int
  BY <1>1, <1>3
<1>5. Compute("R15", regs["R15"] + n)
  BY ExecAdd
<1>6. PICK r2 : r2 = [regs EXCEPT !["R15"] = regs["R15"] + n]
  OBVIOUS
<1>7. regs' = r2 /\ mem' = mem /\ zf' = zf /\ pkru' = pkru /\ status' = "run"
  BY <1>5, <1>6, PreFacts DEF Compute, Set
<1>8. Means(Ptr(d), regs["R15"] + n, e)
  BY <1>1, <1>4, MeansFacts
<1>9. r2 \in [Regs -> Int] /\ RegsMean(b, r2, e)
  <2>1. r2 \in [Regs -> Int] /\ \A q \in Regs : r2[q] = IF q = "R15" THEN regs["R15"] + n ELSE regs[q]
    BY <1>1, <1>4, <1>6
  <2> QED  BY <1>1, <1>8, <2>1 DEF RegsMean
<1>10. Live(v, a, e, regs, mem, zf, pkru) /\ \A j \in 1 .. 3 : b.slot[j] = a.slot[j] \/ b.slot[j] = Any
  BY PreFacts
<1>11. Live(v, b, e, r2, mem, zf, pkru)
  BY <1>1, <1>9, <1>10, LiveRegs
<1>12. Live(v, b, e, regs', mem', zf', pkru')
  BY <1>7, <1>11
<1> QED  BY <1>7, <1>12, SparedNone DEF Sound

\* The machine does what the rule for Forth says.
LEMMA SoundForth ==
  ASSUME NEW v, NEW a, NEW e, Pre(v, a, e), NEW i, NEW b \in Syms, RForth(v, i, a, b), Exec(i)
  PROVE  Sound(v, b, e)
<1>1. i = <<"add", "R15", 2>> /\ a.reg["R15"] = Ptr(0) /\ a \in Syms
  BY PreFacts DEF RForth
<1>2. PICK h : h = Hold(a, "R15", Ptr(2))
  OBVIOUS
<1>3. b = [h EXCEPT !.open = FALSE]
  BY <1>2 DEF RForth
<1>4. h \in Syms /\ Has(a, h, "R15", Ptr(2))
  BY <1>1, <1>2, HoldFacts, ValueFacts, RegFacts
<1>5. /\ b.reg = h.reg /\ b.slot = h.slot /\ b.ent = h.ent /\ b.mir = h.mir /\ b.pk = h.pk /\ b.zf = h.zf
      /\ b.fresh = h.fresh /\ b.ptr = h.ptr
  BY <1>3, <1>4 DEF Syms
<1>6. /\ \A q \in Regs : b.reg[q] = IF q = "R15" THEN Ptr(2) ELSE a.reg[q]
      /\ b.slot = a.slot /\ b.ent = a.ent /\ b.mir = a.mir /\ b.pk = a.pk /\ b.zf = a.zf /\ b.fresh = a.fresh /\ b.ptr = a.ptr
  BY <1>4, <1>5 DEF Has, Same
<1>7. 0 \in {0, 2} /\ 2 \in {0, 2} /\ 2 \in {-2, 2} /\ 2 = 0 + 2 /\ Exec(<<"add", "R15", 2>>)
  BY <1>1
<1> QED  BY <1>1, <1>6, <1>7, SoundShift

\* The machine does what the rule for Back says.
LEMMA SoundBack ==
  ASSUME NEW v, NEW a, NEW e, Pre(v, a, e), NEW i, NEW b \in Syms, RBack(v, i, a, b), Exec(i)
  PROVE  Sound(v, b, e)
<1>1. i = <<"add", "R15", -2>> /\ a.reg["R15"] = Ptr(2) /\ a \in Syms
  BY PreFacts DEF RBack
<1>2. PICK h : h = Hold(a, "R15", Ptr(0))
  OBVIOUS
<1>3. b = [h EXCEPT !.ent = 0]
  BY <1>2 DEF RBack
<1>4. h \in Syms /\ Has(a, h, "R15", Ptr(0))
  BY <1>1, <1>2, HoldFacts, ValueFacts, RegFacts
<1>5. /\ b.reg = h.reg /\ b.slot = h.slot /\ b.ent = 0 /\ b.mir = h.mir /\ b.pk = h.pk /\ b.zf = h.zf
      /\ b.fresh = h.fresh /\ b.ptr = h.ptr
  BY <1>3, <1>4 DEF Syms
<1>6. /\ \A q \in Regs : b.reg[q] = IF q = "R15" THEN Ptr(0) ELSE a.reg[q]
      /\ b.slot = a.slot /\ b.ent = 0 /\ b.mir = a.mir /\ b.pk = a.pk /\ b.zf = a.zf /\ b.fresh = a.fresh /\ b.ptr = a.ptr
  BY <1>4, <1>5 DEF Has, Same
<1>7. 0 \in {0, 2} /\ 2 \in {0, 2} /\ -2 \in {-2, 2} /\ 0 = 2 + (-2) /\ Exec(<<"add", "R15", -2>>)
  BY <1>1
<1> QED  BY <1>1, <1>6, <1>7, SoundShift

\* The machine does what the rule for LoadRet says.
LEMMA SoundLoadRet ==
  ASSUME NEW v, NEW a, NEW e, Pre(v, a, e), NEW i, NEW b \in Syms, RLoadRet(v, i, a, b), Exec(i)
  PROVE  Sound(v, b, e)
<1>1. PICK r \in Free : i = <<"load", r, "RSP", 0>> /\ a.reg["RSP"] = Here /\ b = Hold(a, r, IF a.fresh THEN Ra ELSE Now)
  BY DEF RLoadRet
<1>2. PICK y : y = IF a.fresh THEN Ra ELSE Now
  OBVIOUS
<1>3. a \in Syms /\ r \in Regs /\ y \in Values /\ e \in Frames /\ v \in Variant
  BY <1>2, RegFacts, PreFacts, ValueFacts
<1>4. Has(a, b, r, y)
  BY <1>1, <1>2, <1>3, HoldFacts
<1>5. Placed(v, e) /\ Means(Here, regs["RSP"], e)
  BY <1>1, PreFacts, RegFacts DEF RegsMean
<1>6. regs["RSP"] = At(e) /\ At(e) \in Stack /\ At(e) \in Int
  BY <1>3, <1>5, MeansHere, Places
<1>7. At(e) \in Words /\ At(e) \notin Shadow /\ regs["RSP"] + 0 = At(e)
  BY <1>6, WordFacts
<1>8. Read(r, regs["RSP"] + 0)
  BY <1>1, ExecLoad
<1>9. Read(r, At(e)) /\ (At(e) \in Shadow => Reads(v, a))
  BY <1>7, <1>8
<1>10. /\ status' = "run" /\ regs' = [regs EXCEPT ![r] = mem[At(e)]] /\ mem[At(e)] \in Int
       /\ mem' = mem /\ zf' = zf /\ pkru' = pkru
  BY <1>7, <1>9, ReadDone
<1>11. mem[At(e)] = e.s /\ (a.fresh => e.s = RaOf(e.l))
  BY PreFacts DEF Live, Acts, SlotMeans
<1>12. Means(y, mem[At(e)], e)
  BY <1>2, <1>3, <1>11, MeansTags
<1> QED  BY <1>3, <1>4, <1>10, <1>12, SoundSet

\* The machine does what the rule for LoadPtr says.
LEMMA SoundLoadPtr ==
  ASSUME NEW v, NEW a, NEW e, Pre(v, a, e), NEW i, NEW b \in Syms, RLoadPtr(v, i, a, b), Exec(i)
  PROVE  Sound(v, b, e)
<1>1. PICK r \in Free, s \in {"GS", "RDX"} : /\ i = <<"load", r, s, 0>> /\ Stacked(v) /\ a.reg[s] = Lit(ShadowBase)
                                           /\ Reads(v, a) /\ b = Hold(a, r, Ptr(a.ptr))
  BY DEF RLoadPtr
<1>2. a \in Syms /\ r \in Regs /\ s \in Regs /\ a.ptr \in Int /\ e \in Frames /\ v \in Variant /\ Placed(v, e)
  BY RegFacts, PreFacts DEF Syms
<1>3. Has(a, b, r, Ptr(a.ptr))
  BY <1>1, <1>2, HoldFacts, ValueFacts
<1>4. Means(Lit(ShadowBase), regs[s], e) /\ ShadowBase \in Int
  BY <1>1, <1>2, PreFacts, Layout DEF RegsMean
<1>5. regs[s] = ShadowBase /\ regs[s] + 0 = ShadowBase
  <2>1. regs[s] = ShadowBase
    BY <1>2, <1>4, MeansFacts
  <2> QED  BY <1>4, <2>1
<1>6. ShadowBase \in Words
  BY <1>1, <1>2, Places, WordFacts
<1>7. Read(r, regs[s] + 0)
  BY <1>1, ExecLoad
<1>8. Read(r, ShadowBase) /\ (ShadowBase \in Shadow => Reads(v, a))
  BY <1>1, <1>5, <1>7
<1>9. /\ status' = "run" /\ regs' = [regs EXCEPT ![r] = mem[ShadowBase]] /\ mem[ShadowBase] \in Int
      /\ mem' = mem /\ zf' = zf /\ pkru' = pkru
  BY <1>6, <1>8, ReadDone
<1>10. mem[ShadowBase] = e.q + a.ptr
  BY <1>1, PreFacts DEF Live, Shared
<1>11. Means(Ptr(a.ptr), mem[ShadowBase], e)
  BY <1>2, <1>10, MeansFacts
<1> QED  BY <1>2, <1>3, <1>9, <1>11, SoundSet

\* A load into a register from a place whose word has a meaning.
LEMMA SoundLoad ==
  ASSUME NEW v, NEW a, NEW e, Pre(v, a, e), NEW b \in Syms, NEW r \in Regs, NEW y, NEW x \in Words,
         Has(a, b, r, y), Means(y, mem[x], e), Read(r, x), x \in Shadow => Reads(v, a)
  PROVE  Sound(v, b, e)
<1>1. /\ status' = "run" /\ regs' = [regs EXCEPT ![r] = mem[x]] /\ mem[x] \in Int
      /\ mem' = mem /\ zf' = zf /\ pkru' = pkru
  BY ReadDone
<1> QED  BY <1>1, SoundSet

\* The machine does what the rule for LoadClave says.
LEMMA SoundLoadClave ==
  ASSUME NEW v, NEW a, NEW e, Pre(v, a, e), NEW i, NEW b \in Syms, RLoadClave(v, i, a, b), Exec(i)
  PROVE  Sound(v, b, e)
<1>1. PICK n \in {0, 2} : /\ i = <<"load", "R15", "GS", n>> /\ v.load /\ a.reg["GS"] = Lit(ClaveBase)
                          /\ v.scheme = (IF n = 0 THEN "PARR" ELSE "REG") /\ b = Hold(a, "R15", Ptr(0))
  BY DEF RLoadClave
<1>2. a \in Syms /\ e \in Frames /\ "R15" \in Regs /\ "GS" \in Regs /\ ClaveBase \in Int
  BY RegFacts, PreFacts, Layout
<1>3. Has(a, b, "R15", Ptr(0))
  BY <1>1, <1>2, HoldFacts, ValueFacts
<1>4. Means(Lit(ClaveBase), regs["GS"], e)
  BY <1>1, <1>2, PreFacts DEF RegsMean
<1>5. regs["GS"] = ClaveBase
  BY <1>2, <1>4, MeansFacts
<1>6. ClaveBase + n \in Clave /\ ClaveBase + n \in Words
  BY <1>2, WordFacts DEF Clave
<1>7. Read("R15", regs["GS"] + n)
  BY <1>1, ExecLoad
<1>8. Read("R15", ClaveBase + n) /\ (ClaveBase + n \in Shadow => Reads(v, a))
  BY <1>5, <1>6, <1>7, WordFacts
<1>9. mem[ClaveBase + n] = P0(v)
  <2>1. mem[ClaveBase] = ParOffset /\ mem[ClaveBase + 2] = ShadowBase /\ ClaveBase + 0 = ClaveBase
    BY <1>2, PreFacts DEF Live, Shared
  <2> QED  BY <1>1, <2>1 DEF P0, Start
<1>10. e.q = P0(v) /\ e.q \in Int
  BY <1>1, <1>2 DEF Pre, Frames
<1>11. mem[ClaveBase + n] = e.q + 0
  BY <1>9, <1>10
<1>12. Means(Ptr(0), mem[ClaveBase + n], e)
  BY <1>11 DEF Means, Ptr
<1> QED  BY <1>2, <1>3, <1>6, <1>8, <1>12, SoundLoad

\* What an entry not yet overwritten holds.
LEMMA EntryWord ==
  ASSUME NEW v, NEW a, NEW e, Pre(v, a, e), ~Mirrored(v), a.ent > 0
  PROVE  e.q \in Words /\ e.q \in Shadow /\ Means(Old, mem[e.q], e)
<1>1. e \in Frames /\ v \in Variant /\ Placed(v, e) /\ a \in Syms
  BY PreFacts
<1>2. e.q \in Shadow /\ e.q \in Words
  BY <1>1, Places, WordFacts
<1>3. a.ent >= 1
  BY <1>1 DEF Syms
<1>4. mem[e.q] # Altered /\ ("raced" \in e.F \/ mem[e.q] = RaOf(e.l))
  BY <1>2, <1>3 DEF Pre, Live, Shared, Acts, EntryMeans
<1> QED  BY <1>1, <1>2, <1>4, MeansTags

\* The machine does what the rule for LoadEntry says.
LEMMA SoundLoadEntry ==
  ASSUME NEW v, NEW a, NEW e, Pre(v, a, e), NEW i, NEW b \in Syms, RLoadEntry(v, i, a, b), Exec(i)
  PROVE  Sound(v, b, e)
<1>0. a \in Syms /\ e \in Frames /\ "R15" \in Regs /\ "R11" \in Regs /\ Old \in Values /\ e.q \in Int
  BY RegFacts, PreFacts, ValueFacts DEF Frames
<1>1. CASE v.scheme = "REG" /\ i = <<"load", "R11", "R15", -2>>
  <2>1. a.reg["R15"] = Ptr(2) /\ a.ent > 0 /\ Reads(v, a) /\ b = Hold(a, "R11", Old) /\ ~Mirrored(v)
    BY <1>1 DEF RLoadEntry, Mirrored, Stacked
  <2>2. Has(a, b, "R11", Old)
    BY <1>0, <2>1, HoldFacts
  <2>3. Means(Ptr(2), regs["R15"], e) /\ e.q \in Words /\ Means(Old, mem[e.q], e)
    BY <1>0, <2>1, PreFacts, EntryWord DEF RegsMean
  <2>4. regs["R15"] = e.q + 2
    BY <2>3 DEF Means, Ptr
  <2>5. regs["R15"] + (-2) = e.q
    BY <1>0, <2>4
  <2>6. Read("R11", regs["R15"] + (-2))
    BY <1>1, ExecLoad
  <2>7. Read("R11", e.q)
    BY <2>5, <2>6
  <2> QED  BY <1>0, <2>1, <2>2, <2>3, <2>7, SoundLoad
<1>2. CASE ~(v.scheme = "REG" /\ i = <<"load", "R11", "R15", -2>>)
  <2>1. /\ Stacked(v) /\ i = <<"load", "R11", "R11", 0>> /\ a.reg["R11"] = Ptr(0) /\ a.ent > 0 /\ Reads(v, a)
        /\ b = [Hold(a, "R11", Old) EXCEPT !.ent = 0, !.open = FALSE] /\ ~Mirrored(v)
    BY <1>2 DEF RLoadEntry, Mirrored, Stacked
  <2>2. PICK h : h = Hold(a, "R11", Old)
    OBVIOUS
  <2>3. h \in Syms /\ Has(a, h, "R11", Old)
    BY <1>0, <2>2, HoldFacts
  <2>4. b = [h EXCEPT !.ent = 0, !.open = FALSE]
    BY <2>1, <2>2
  <2>5. /\ b.reg = h.reg /\ b.slot = h.slot /\ b.ent = 0 /\ b.mir = h.mir /\ b.pk = h.pk /\ b.zf = h.zf
        /\ b.fresh = h.fresh /\ b.ptr = h.ptr
    BY <2>3, <2>4 DEF Syms
  <2>6. /\ \A q \in Regs : b.reg[q] = IF q = "R11" THEN Old ELSE a.reg[q]
        /\ b.slot = a.slot /\ b.mir = a.mir /\ b.pk = a.pk /\ b.zf = a.zf /\ b.fresh = a.fresh /\ b.ptr = a.ptr
    BY <2>3, <2>5 DEF Has, Same
  <2>7. Means(Ptr(0), regs["R11"], e) /\ e.q \in Words /\ Means(Old, mem[e.q], e)
    BY <1>0, <2>1, PreFacts, EntryWord DEF RegsMean
  <2>8. regs["R11"] = e.q + 0
    BY <2>7 DEF Means, Ptr
  <2>9. regs["R11"] + 0 = e.q
    BY <1>0, <2>8
  <2>10. Read("R11", regs["R11"] + 0)
    BY <2>1, ExecLoad
  <2>11. Read("R11", e.q)
    BY <2>9, <2>10
  <2>12. /\ status' = "run" /\ regs' = [regs EXCEPT !["R11"] = mem[e.q]] /\ mem[e.q] \in Int
         /\ mem' = mem /\ zf' = zf /\ pkru' = pkru
    BY <2>1, <2>7, <2>11, ReadDone
  <2>13. PICK r2 : r2 = [regs EXCEPT !["R11"] = mem[e.q]]
    OBVIOUS
  <2>14. r2 \in [Regs -> Int] /\ \A q \in Regs : r2[q] = IF q = "R11" THEN mem[e.q] ELSE regs[q]
    BY <1>0, <2>12, <2>13, PreFacts
  <2>15. RegsMean(b, r2, e)
    BY <2>6, <2>7, <2>14, PreFacts DEF RegsMean
  <2>16. Live(v, a, e, regs, mem, zf, pkru) /\ \A j \in 1 .. 3 : b.slot[j] = a.slot[j] \/ b.slot[j] = Any
    BY <2>6, PreFacts
  <2>17. Live(v, b, e, r2, mem, zf, pkru)
    BY <1>0, <2>5, <2>6, <2>14, <2>15, <2>16, LiveRegs
  <2>18. Live(v, b, e, regs', mem', zf', pkru')
    BY <2>12, <2>13, <2>17
  <2> QED  BY <2>12, <2>18, SparedNone DEF Sound
<1> QED  BY <1>1, <1>2

\* The machine does what the rule for LoadMirror says.
LEMMA SoundLoadMirror ==
  ASSUME NEW v, NEW a, NEW e, Pre(v, a, e), NEW i, NEW b \in Syms, RLoadMirror(v, i, a, b), Exec(i)
  PROVE  Sound(v, b, e)
<1>0. /\ a \in Syms /\ e \in Frames /\ "R15" \in Regs /\ "R11" \in Regs /\ "RSP" \in Regs /\ Old \in Values /\ e.q \in Int
      /\ v \in Variant /\ Placed(v, e) /\ ParOffset \in Int
  BY RegFacts, PreFacts, ValueFacts, Layout DEF Frames
<1>1. Mirrored(v) /\ a.reg["RSP"] = Here /\ a.mir /\ Reads(v, a) /\ b = Hold(a, "R11", Old)
  BY DEF RLoadMirror, Mirrored
<1>2. Has(a, b, "R11", Old)
  BY <1>0, <1>1, HoldFacts
<1>3. Means(Here, regs["RSP"], e)
  BY <1>0, <1>1, PreFacts DEF RegsMean
<1>4. regs["RSP"] = At(e) /\ At(e) \in Int /\ At(e) + ParOffset \in Words
  BY <1>0, <1>1, <1>3, MeansHere, Places, WordFacts
<1>5. Read("R11", At(e) + ParOffset)
  <2>1. CASE v.scheme = "CON" /\ i = <<"load", "R11", "RSP", ParOffset>>
    BY <1>4, <2>1, ExecLoad
  <2>2. CASE v.scheme = "PARR" /\ i = <<"loadx", "R11", "RSP", "R15">> /\ a.reg["R15"] = Ptr(0)
    <3>1. Read("R11", regs["RSP"] + regs["R15"])
      BY <2>2, ExecLoadx
    <3>2. Means(Ptr(0), regs["R15"], e)
      BY <1>0, <2>2, PreFacts DEF RegsMean
    <3>3. regs["R15"] = e.q + 0
      BY <3>2 DEF Means, Ptr
    <3>4. e.q = ParOffset
      BY <1>0, <1>1, <2>2 DEF Placed, P0
    <3>5. regs["R15"] = ParOffset
      BY <1>0, <3>3, <3>4
    <3> QED  BY <1>4, <3>1, <3>5
  <2> QED  BY <2>1, <2>2 DEF RLoadMirror
<1>6. mem[At(e) + ParOffset] = RaOf(e.l)
  BY <1>1, PreFacts DEF Live, Acts, MirrorMeans
<1>7. RaOf(e.l) # Altered
  BY Layout DEF RaOf
<1>8. Means(Old, mem[At(e) + ParOffset], e)
  BY <1>0, <1>6, <1>7, MeansTags
<1> QED  BY <1>0, <1>1, <1>2, <1>4, <1>5, <1>8, SoundLoad

\* What the comparison of an old and of a present return address tells.
LEMMA DiffMeans ==
  ASSUME NEW v, NEW a, NEW e, Pre(v, a, e), NEW x, NEW y, Means(Old, x, e), y = e.s
  PROVE  Means(Diff, Differ(x, y), e) /\ Differ(x, y) \in Int
         /\ (x = y => e.s = RaOf(e.l)) /\ (e.s = RaOf(e.l) /\ "raced" \notin e.F => x = y)
<1>1. e \in Frames /\ e.s \in {RaOf(e.l), Altered}
  BY PreFacts DEF Pre, Live, Acts, SlotMeans
<1>2. x # Altered /\ ("raced" \in e.F \/ x = RaOf(e.l))
  BY <1>1, MeansTags
<1>3. (x = y => e.s = RaOf(e.l)) /\ (e.s = RaOf(e.l) /\ "raced" \notin e.F => x = y)
  BY <1>1, <1>2
<1>4. Differ(x, y) \in Int /\ (Differ(x, y) = 0 <=> x = y)
  BY DEF Differ
<1> QED  BY <1>1, <1>3, <1>4, MeansTags

\* The machine does what the rule for Xor says.
LEMMA SoundXor ==
  ASSUME NEW v, NEW a, NEW e, Pre(v, a, e), NEW i, NEW b \in Syms, RXor(v, i, a, b), Exec(i)
  PROVE  Sound(v, b, e)
<1>1. i = <<"xor", "R11", "R10">> /\ a.reg["R11"] = Old /\ a.reg["R10"] = Now /\ b = Hold(a, "R11", Diff)
  BY DEF RXor
<1>2. a \in Syms /\ e \in Frames /\ "R10" \in Regs /\ "R11" \in Regs /\ Diff \in Values
  BY RegFacts, PreFacts, ValueFacts
<1>3. Has(a, b, "R11", Diff)
  BY <1>1, <1>2, HoldFacts
<1>4. Means(Old, regs["R11"], e) /\ Means(Now, regs["R10"], e)
  BY <1>1, <1>2, PreFacts DEF RegsMean
<1>5. regs["R10"] = e.s
  BY <1>2, <1>4, MeansTags
<1>6. Means(Diff, Differ(regs["R11"], regs["R10"]), e) /\ Differ(regs["R11"], regs["R10"]) \in Int
  BY <1>4, <1>5, DiffMeans
<1>7. Compute("R11", Differ(regs["R11"], regs["R10"]))
  BY <1>1, ExecXor
<1> QED  BY <1>2, <1>3, <1>6, <1>7, SoundCompute

\* The machine does what the rule for Popcnt says.
LEMMA SoundPopcnt ==
  ASSUME NEW v, NEW a, NEW e, Pre(v, a, e), NEW i, NEW b \in Syms, RPopcnt(v, i, a, b), Exec(i)
  PROVE  Sound(v, b, e)
<1>1. i = <<"popcnt", "R11">> /\ a.reg["R11"] = Diff /\ b = a
  BY DEF RPopcnt
<1>2. "R11" \in Regs /\ regs["R11"] \in Int
  BY RegFacts, PreFacts
<1>3. Has(a, b, "R11", Diff)
  BY <1>1 DEF Has, Same
<1>4. Means(Diff, regs["R11"], e)
  BY <1>1, <1>2, PreFacts DEF RegsMean
<1>5. Compute("R11", regs["R11"])
  BY <1>1, ExecPopcnt
<1> QED  BY <1>2, <1>3, <1>4, <1>5, SoundCompute

\* A register is found to hold something more definite.
LEMMA SoundLearn ==
  ASSUME NEW v, NEW a, NEW e, Pre(v, a, e), NEW b \in Syms, NEW x \in Regs, NEW y, Has(a, b, x, y), Means(y, regs[x], e),
         regs' = regs, mem' = mem, zf' = zf, pkru' = pkru, status' = "run"
  PROVE  Sound(v, b, e)
<1>1. regs \in [Regs -> Int]
  BY PreFacts
<1>2. regs' = [regs EXCEPT ![x] = regs[x]] /\ regs[x] \in Int
  BY <1>1
<1> QED  BY <1>2, SoundSet

\* The machine does what the rule for Probe says.
LEMMA SoundProbe ==
  ASSUME NEW v, NEW a, NEW e, Pre(v, a, e), NEW i, NEW b \in Syms, RProbe(v, i, a, b), Exec(i)
  PROVE  Sound(v, b, e)
<1>0. i = <<"probe", "R11">> /\ a.reg["R11"] = Diff
  BY DEF RProbe
<1>1. /\ status' = IF regs["R11"] = 0 THEN "run" ELSE "trap"
      /\ regs' = regs /\ mem' = mem /\ zf' = zf /\ pkru' = pkru
  BY <1>0, ExecProbe
<1>2. /\ a \in Syms /\ e \in Frames /\ "R10" \in Regs /\ "R11" \in Regs /\ "RSP" \in Regs /\ Sure \in Values /\ Ra \in Values
      /\ e.w["RSP"] \in Int
  BY RegFacts, PreFacts, ValueFacts DEF Frames
<1>3. Means(Diff, regs["R11"], e)
  BY <1>0, <1>2, PreFacts DEF RegsMean
<1>4. (regs["R11"] = 0 => e.s = RaOf(e.l)) /\ (e.s = RaOf(e.l) /\ "raced" \notin e.F => regs["R11"] = 0)
  BY <1>2, <1>3, MeansTags
<1>5. e.s \in {RaOf(e.l), Altered} /\ (e.s = Altered => "altered" \in e.F)
  BY DEF Pre, Live, Acts, SlotMeans
<1>6. CASE regs["R11"] # 0
  BY <1>1, <1>4, <1>5, <1>6 DEF Sound
<1>7. CASE regs["R11"] = 0
  <2>1. status' = "run" /\ e.s = RaOf(e.l)
    BY <1>1, <1>4, <1>7
  <2>2. CASE a.reg["RSP"] = Here /\ b = Hold(a, "RSP", Sure)
    <3>1. Has(a, b, "RSP", Sure) /\ Means(Here, regs["RSP"], e)
      BY <1>2, <2>2, HoldFacts, PreFacts DEF RegsMean
    <3>2. Means(Sure, regs["RSP"], e)
      BY <1>2, <2>1, <3>1, MeansHere, MeansTags
    <3> QED  BY <1>1, <1>2, <2>1, <3>1, <3>2, SoundLearn
  <2>3. CASE a.reg["R10"] = Now /\ b = Hold(a, "R10", Ra)
    <3>1. Has(a, b, "R10", Ra) /\ Means(Now, regs["R10"], e)
      BY <1>2, <2>3, HoldFacts, PreFacts DEF RegsMean
    <3>2. Means(Ra, regs["R10"], e)
      BY <1>2, <2>1, <3>1, MeansTags
    <3> QED  BY <1>1, <1>2, <2>1, <3>1, <3>2, SoundLearn
  <2> QED  BY <2>2, <2>3 DEF RProbe
<1> QED  BY <1>6, <1>7

\* The machine does what the rule for Xorm says.
LEMMA SoundXorm ==
  ASSUME NEW v, NEW a, NEW e, Pre(v, a, e), NEW i, NEW b \in Syms, RXorm(v, i, a, b), Exec(i)
  PROVE  Sound(v, b, e)
<1>1. i = <<"xorm", "R11", "RSP">> /\ a.reg["R11"] = Old /\ a.reg["RSP"] = Here
  BY DEF RXorm
<1>2. a \in Syms /\ e \in Frames /\ "R11" \in Regs /\ "RSP" \in Regs /\ Diff \in Values /\ regs \in [Regs -> Int]
  BY RegFacts, PreFacts, ValueFacts
<1>3. PICK h : h = Hold(a, "R11", Diff)
  OBVIOUS
<1>4. h \in Syms /\ Has(a, h, "R11", Diff)
  BY <1>2, <1>3, HoldFacts
<1>5. b = [h EXCEPT !.zf = TRUE]
  BY <1>3 DEF RXorm
<1>6. /\ b.reg = h.reg /\ b.slot = h.slot /\ b.ent = h.ent /\ b.mir = h.mir /\ b.pk = h.pk
      /\ b.fresh = h.fresh /\ b.ptr = h.ptr
  BY <1>4, <1>5 DEF Syms
<1>7. /\ Set("R11", Differ(regs["R11"], mem[regs["RSP"]])) /\ zf' = (regs["R11"] = mem[regs["RSP"]])
      /\ mem' = mem /\ pkru' = pkru /\ status' = "run"
  BY <1>1, ExecXorm, PreFacts
<1>8. Means(Old, regs["R11"], e) /\ Means(Here, regs["RSP"], e)
  BY <1>1, <1>2, PreFacts DEF RegsMean
<1>9. regs["RSP"] = At(e)
  BY <1>2, <1>8, MeansHere
<1>10. mem[regs["RSP"]] = e.s
  BY <1>9 DEF Pre, Live, Acts, SlotMeans
<1>11. PICK n : n = Differ(regs["R11"], mem[regs["RSP"]])
  OBVIOUS
<1>12. /\ Means(Diff, n, e) /\ n \in Int
       /\ (regs["R11"] = mem[regs["RSP"]] => e.s = RaOf(e.l))
       /\ (e.s = RaOf(e.l) /\ "raced" \notin e.F => regs["R11"] = mem[regs["RSP"]])
  BY <1>8, <1>10, <1>11, DiffMeans
<1>13. PICK r2 : r2 = [regs EXCEPT !["R11"] = n]
  OBVIOUS
<1>14. Live(v, a, e, regs, mem, zf, pkru)
  BY PreFacts
<1>15. Live(v, h, e, r2, mem, zf, pkru)
  BY <1>2, <1>4, <1>12, <1>13, <1>14, LiveHas
<1>16. regs' = r2
  BY <1>7, <1>11, <1>13 DEF Set
<1>17. PICK z \in BOOLEAN : z = (regs["R11"] = mem[regs["RSP"]])
  OBVIOUS
<1>18. FlagMeans(b, z, e)
  BY <1>12, <1>17 DEF FlagMeans
<1>19. Live(v, b, e, r2, mem, z, pkru)
  <2>1. Typed(e, r2, mem, z, pkru) /\ Shared(v, b, mem, e)
    BY <1>6, <1>15, <1>17 DEF Live, Typed, Shared
  <2>2. RegsMean(b, r2, e) /\ SlotsMean(b, mem, e) /\ EntryMeans(v, b, mem, e) /\ MirrorMeans(v, b, mem, e) /\ KeyMeans(v, b, pkru)
        /\ SlotMeans(v, b, mem, e) /\ Placed(v, e)
    BY <1>6, <1>15 DEF Live, Acts, RegsMean, SlotsMean, EntryMeans, MirrorMeans, KeyMeans, SlotMeans
  <2> QED  BY <1>18, <2>1, <2>2 DEF Live, Acts
<1>20. zf' = z
  BY <1>7, <1>17
<1>21. Live(v, b, e, regs', mem', zf', pkru')
  BY <1>7, <1>16, <1>19, <1>20
<1> QED  BY <1>7, <1>21, SparedNone DEF Sound

\* The machine does what the rule for Zero says.
LEMMA SoundZero ==
  ASSUME NEW v, NEW a, NEW e, Pre(v, a, e), NEW i, NEW b \in Syms, RZero(v, i, a, b), Exec(i)
  PROVE  Sound(v, b, e)
<1>1. i = <<"imm", "RSP", NullPage>> /\ b = Hold(a, "RSP", Lit(0))
  BY DEF RZero
<1>2. a \in Syms /\ "RSP" \in Regs /\ Lit(0) \in Values /\ NullPage = 0 /\ NullPage \in Int
  BY RegFacts, PreFacts, ValueFacts, Layout
<1>3. Has(a, b, "RSP", Lit(0))
  BY <1>1, <1>2, HoldFacts
<1>4. Means(Lit(0), NullPage, e)
  BY <1>2 DEF Means, Lit
<1>5. Compute("RSP", NullPage)
  BY <1>1, ExecImm
<1> QED  BY <1>2, <1>3, <1>4, <1>5, SoundCompute

\* The machine does what the rule for Cmove says.
LEMMA SoundCmove ==
  ASSUME NEW v, NEW a, NEW e, Pre(v, a, e), NEW i, NEW b \in Syms, RCmove(v, i, a, b), Exec(i)
  PROVE  Sound(v, b, e)
<1>1. /\ i = <<"cmove", "RSP", "R10">> /\ b = Hold(a, "RSP", Choice) /\ a.reg["R10"] = Here /\ a.zf
      /\ a.reg["RSP"] = Lit(0)
  BY DEF RCmove
<1>2. a \in Syms /\ e \in Frames /\ "RSP" \in Regs /\ "R10" \in Regs /\ Choice \in Values /\ NullPage = 0
  BY RegFacts, PreFacts, ValueFacts, Layout
<1>3. Has(a, b, "RSP", Choice)
  BY <1>1, <1>2, HoldFacts
<1>4. PICK n : n = IF zf THEN regs["R10"] ELSE regs["RSP"]
  OBVIOUS
<1>5. Means(Here, regs["R10"], e) /\ Means(Lit(0), regs["RSP"], e) /\ n \in Int
  BY <1>1, <1>2, <1>4, PreFacts DEF RegsMean
<1>6. regs["R10"] = At(e) /\ regs["RSP"] = NullPage
  <2>1. regs["RSP"] = 0
    BY <1>5 DEF Means, Lit
  <2> QED  BY <1>2, <1>5, <2>1, MeansHere
<1>7. (zf => e.s = RaOf(e.l)) /\ (e.s = RaOf(e.l) /\ "raced" \notin e.F => zf)
  BY <1>1 DEF Pre, Live, Acts, FlagMeans
<1>8. \/ n = At(e) /\ e.s = RaOf(e.l)
      \/ n = NullPage /\ (e.s # RaOf(e.l) \/ "raced" \in e.F)
  BY <1>4, <1>6, <1>7
<1>9. Means(Choice, n, e)
  BY <1>2, <1>8, MeansTags
<1>10. Compute("RSP", n)
  BY <1>1, <1>4, ExecCmove
<1> QED  BY <1>2, <1>3, <1>5, <1>9, <1>10, SoundCompute

\* The machine does what the rule for Wrpkru says.
LEMMA SoundWrpkru ==
  ASSUME NEW v, NEW a, NEW e, Pre(v, a, e), NEW i, NEW b \in Syms, RWrpkru(v, i, a, b), Exec(i)
  PROVE  Sound(v, b, e)
<1>1. PICK n \in {OpenAll, WriteProt} : /\ i = <<"wrpkru">> /\ v.mpk /\ a.reg["RAX"] = Lit(n)
                                        /\ b = [a EXCEPT !.pk = IF n = OpenAll THEN "open" ELSE "lock"]
  BY DEF RWrpkru
<1>2. a \in Syms /\ e \in Frames /\ "RAX" \in Regs
  BY RegFacts, PreFacts
<1>3. /\ b.reg = a.reg /\ b.slot = a.slot /\ b.ent = a.ent /\ b.mir = a.mir /\ b.zf = a.zf
      /\ b.fresh = a.fresh /\ b.ptr = a.ptr /\ b.pk = IF n = OpenAll THEN "open" ELSE "lock"
  BY <1>1, <1>2 DEF Syms
<1>4. Means(Lit(n), regs["RAX"], e)
  BY <1>1, <1>2, PreFacts DEF RegsMean
<1>5. regs["RAX"] = n
  BY <1>4 DEF Means, Lit
<1>6. pkru' = n /\ regs' = regs /\ mem' = mem /\ zf' = zf /\ status' = "run"
  BY <1>1, <1>5, ExecWrpkru, PreFacts
<1>7. KeyMeans(v, b, n) /\ n \in {OpenAll, WriteProt, AccessProt}
  BY <1>1, <1>3, Layout DEF KeyMeans
<1>8. Live(v, b, e, regs, mem, zf, n)
  <2>1. Live(v, a, e, regs, mem, zf, pkru)
    BY PreFacts
  <2>2. Typed(e, regs, mem, zf, n) /\ Shared(v, b, mem, e)
    BY <1>3, <1>7, <2>1 DEF Live, Typed, Shared
  <2>3. RegsMean(b, regs, e) /\ SlotsMean(b, mem, e) /\ EntryMeans(v, b, mem, e) /\ MirrorMeans(v, b, mem, e) /\ FlagMeans(b, zf, e)
        /\ SlotMeans(v, b, mem, e) /\ Placed(v, e)
    BY <1>3, <2>1 DEF Live, Acts, RegsMean, SlotsMean, EntryMeans, MirrorMeans, FlagMeans, SlotMeans
  <2> QED  BY <1>7, <2>2, <2>3 DEF Live, Acts
<1>9. Live(v, b, e, regs', mem', zf', pkru')
  BY <1>6, <1>8
<1> QED  BY <1>6, <1>9, SparedNone DEF Sound

\* pop, and the loads from the slots below rsp.
LEMMA SoundPop ==
  ASSUME NEW v, NEW a, NEW e, Pre(v, a, e), NEW i, NEW b \in Syms, RPop(v, i, a, b), Exec(i)
  PROVE  Sound(v, b, e)
<1>1. PICK r \in Free, d \in 1 .. 2 : /\ i = <<"pop", r>> /\ a.reg["RSP"] = Want("RSP", -d)
                                      /\ b = Hold(Hold(a, r, a.slot[d]), "RSP", Want("RSP", 1 - d))
  BY DEF RPop
<1>2. /\ a \in Syms /\ e \in Frames /\ v \in Variant /\ r \in Regs /\ r # "RSP" /\ "RSP" \in Regs /\ regs \in [Regs -> Int]
      /\ Placed(v, e) /\ d \in Int /\ -d \in Int /\ 1 - d \in Int /\ RegsMean(a, regs, e) /\ d \in 1 .. 3 /\ mem \in [Words -> Int]
  BY RegFacts, PreFacts
<1>3. a.slot[d] \in Values /\ Want("RSP", 1 - d) \in Values
  BY <1>2, ValueFacts DEF Syms
<1>4. PICK h : h = Hold(a, r, a.slot[d])
  OBVIOUS
<1>5. h \in Syms /\ Has(a, h, r, a.slot[d])
  BY <1>2, <1>3, <1>4, HoldFacts
<1>6. Has(h, b, "RSP", Want("RSP", 1 - d))
  BY <1>1, <1>2, <1>3, <1>4, <1>5, HoldFacts
<1>7. \A q \in Regs : b.reg[q] = IF q = "RSP" THEN Want("RSP", 1 - d) ELSE IF q = r THEN a.slot[d] ELSE a.reg[q]
  BY <1>5, <1>6 DEF Has
<1>8. /\ b.slot = a.slot /\ b.ent = a.ent /\ b.mir = a.mir /\ b.pk = a.pk /\ b.zf = a.zf /\ b.fresh = a.fresh
      /\ b.ptr = a.ptr
  BY <1>5, <1>6 DEF Has, Same
<1>9. At(e) \in Int /\ At(e) - d \in Stack
  <2>1. d = 1 \/ d = 2
    OBVIOUS
  <2> QED  BY <1>2, <2>1, Places
<1>10. Means(Want("RSP", -d), regs["RSP"], e)
  BY <1>1, <1>2 DEF RegsMean
<1>11. regs["RSP"] = At(e) + (-d)
  BY <1>10 DEF Means, Want, At
<1>12. regs["RSP"] = At(e) - d /\ regs["RSP"] + 1 = At(e) + (1 - d) /\ regs["RSP"] + 1 \in Int /\ At(e) - d \in Words
  BY <1>2, <1>9, <1>11, WordFacts
<1>13. Means(a.slot[d], mem[At(e) - d], e) /\ mem[At(e) - d] \in Int
  BY <1>2, <1>12 DEF Pre, Live, Acts, SlotsMean
<1>14. Means(Want("RSP", 1 - d), regs["RSP"] + 1, e)
  BY <1>12 DEF Means, Want, At
<1>15. PICK r2 : r2 = [regs EXCEPT ![r] = mem[At(e) - d], !["RSP"] = regs["RSP"] + 1]
  OBVIOUS
<1>16. /\ r2 \in [Regs -> Int]
       /\ \A q \in Regs : r2[q] = IF q = "RSP" THEN regs["RSP"] + 1 ELSE IF q = r THEN mem[At(e) - d] ELSE regs[q]
  BY <1>2, <1>12, <1>13, <1>15
<1>17. RegsMean(b, r2, e)
  BY <1>2, <1>7, <1>13, <1>14, <1>16 DEF RegsMean
<1>18. regs' = [regs EXCEPT ![r] = mem[regs["RSP"]], !["RSP"] = @ + 1] /\ mem' = mem /\ zf' = zf /\ pkru' = pkru /\ status' = "run"
  BY <1>1, ExecPop, PreFacts
<1>19. regs' = r2
  BY <1>2, <1>12, <1>15, <1>18
<1>20. Live(v, a, e, regs, mem, zf, pkru) /\ \A j \in 1 .. 3 : b.slot[j] = a.slot[j] \/ b.slot[j] = Any
  BY <1>8, PreFacts
<1>21. Live(v, b, e, r2, mem, zf, pkru)
  BY <1>2, <1>8, <1>16, <1>17, <1>20, LiveRegs
<1>22. Live(v, b, e, regs', mem', zf', pkru')
  BY <1>18, <1>19, <1>21
<1> QED  BY <1>18, <1>22, SparedNone DEF Sound

\* The machine does what the rule for PopRet says.
LEMMA SoundPopRet ==
  ASSUME NEW v, NEW a, NEW e, Pre(v, a, e), NEW i, NEW b \in Syms, RPopRet(v, i, a, b), Exec(i)
  PROVE  Sound(v, b, e)
<1>1. /\ i = <<"pop", "R10">> /\ a.reg["RSP"] = Here
      /\ b = [Hold(Hold(a, "R10", Now), "RSP", Want("RSP", 1)) EXCEPT !.slot = [j \in 1 .. 3 |-> Any]]
  BY DEF RPopRet
<1>2. /\ a \in Syms /\ e \in Frames /\ v \in Variant /\ "R10" \in Regs /\ "RSP" \in Regs /\ regs \in [Regs -> Int]
      /\ Placed(v, e) /\ RegsMean(a, regs, e) /\ Now \in Values /\ Want("RSP", 1) \in Values /\ mem \in [Words -> Int]
  BY RegFacts, PreFacts, ValueFacts
<1>3. PICK h : h = Hold(a, "R10", Now)
  OBVIOUS
<1>4. h \in Syms /\ Has(a, h, "R10", Now)
  BY <1>2, <1>3, HoldFacts
<1>5. PICK c : c = Hold(h, "RSP", Want("RSP", 1))
  OBVIOUS
<1>6. c \in Syms /\ Has(h, c, "RSP", Want("RSP", 1))
  BY <1>2, <1>4, <1>5, HoldFacts
<1>7. b = [c EXCEPT !.slot = [j \in 1 .. 3 |-> Any]]
  BY <1>1, <1>3, <1>5
<1>8. \A q \in Regs : b.reg[q] = IF q = "RSP" THEN Want("RSP", 1) ELSE IF q = "R10" THEN Now ELSE a.reg[q]
  <2>1. b.reg = c.reg
    BY <1>6, <1>7 DEF Syms
  <2> QED  BY <1>4, <1>6, <2>1 DEF Has
<1>9. /\ b.ent = c.ent /\ b.mir = c.mir /\ b.pk = c.pk /\ b.zf = c.zf /\ b.fresh = c.fresh /\ b.ptr = c.ptr
      /\ \A j \in 1 .. 3 : b.slot[j] = Any
  BY <1>6, <1>7 DEF Syms
<1>10. b.ent = a.ent /\ b.mir = a.mir /\ b.pk = a.pk /\ b.zf = a.zf /\ b.fresh = a.fresh /\ b.ptr = a.ptr
  BY <1>4, <1>6, <1>9 DEF Has, Same
<1>11. Means(Here, regs["RSP"], e)
  BY <1>1, <1>2 DEF RegsMean
<1>12. regs["RSP"] = At(e) /\ At(e) \in Int /\ At(e) \in Words
  BY <1>2, <1>11, MeansHere, Places, WordFacts
<1>13. mem[At(e)] = e.s /\ mem[At(e)] \in Int
  BY <1>2, <1>12 DEF Pre, Live, Acts, SlotMeans
<1>14. Means(Want("RSP", 1), At(e) + 1, e) /\ Means(Now, mem[At(e)], e)
  BY <1>13 DEF Means, Want, At, Now, Tagged
<1>15. PICK r2 : r2 = [regs EXCEPT !["R10"] = mem[At(e)], !["RSP"] = At(e) + 1]
  OBVIOUS
<1>16. /\ r2 \in [Regs -> Int]
       /\ \A q \in Regs : r2[q] = IF q = "RSP" THEN At(e) + 1 ELSE IF q = "R10" THEN mem[At(e)] ELSE regs[q]
  BY <1>2, <1>12, <1>13, <1>15
<1>17. RegsMean(b, r2, e)
  BY <1>2, <1>8, <1>14, <1>16 DEF RegsMean
<1>18. regs' = [regs EXCEPT !["R10"] = mem[regs["RSP"]], !["RSP"] = @ + 1] /\ mem' = mem /\ zf' = zf /\ pkru' = pkru /\ status' = "run"
  BY <1>1, ExecPop, PreFacts
<1>19. regs' = r2
  BY <1>2, <1>12, <1>15, <1>18
<1>20. Live(v, a, e, regs, mem, zf, pkru) /\ \A j \in 1 .. 3 : b.slot[j] = a.slot[j] \/ b.slot[j] = Any
  BY <1>9, PreFacts
<1>21. Live(v, b, e, r2, mem, zf, pkru)
  BY <1>2, <1>10, <1>16, <1>17, <1>20, LiveRegs
<1>22. Live(v, b, e, regs', mem', zf', pkru')
  BY <1>18, <1>19, <1>21
<1> QED  BY <1>18, <1>22, SparedNone DEF Sound

\* The machine does what the rule for LoadSlot says.
LEMMA SoundLoadSlot ==
  ASSUME NEW v, NEW a, NEW e, Pre(v, a, e), NEW i, NEW b \in Syms, RLoadSlot(v, i, a, b), Exec(i)
  PROVE  Sound(v, b, e)
<1>1. PICK r \in Free, d \in 1 .. 3 : /\ i = <<"load", r, "RSP", -d>> /\ a.reg["RSP"] \in {Choice, Sure}
                                      /\ b = Hold(Hold(a, r, a.slot[d]), "RSP", Sure)
  BY DEF RLoadSlot
<1>2. /\ a \in Syms /\ e \in Frames /\ v \in Variant /\ r \in Regs /\ r # "RSP" /\ "RSP" \in Regs /\ regs \in [Regs -> Int]
      /\ Placed(v, e) /\ d \in Int /\ -d \in Int /\ RegsMean(a, regs, e) /\ mem \in [Words -> Int] /\ NullPage = 0
  BY RegFacts, PreFacts, Layout
<1>3. a.slot[d] \in Values /\ Sure \in Values
  BY <1>2, ValueFacts DEF Syms
<1>4. PICK h : h = Hold(a, r, a.slot[d])
  OBVIOUS
<1>5. h \in Syms /\ Has(a, h, r, a.slot[d])
  BY <1>2, <1>3, <1>4, HoldFacts
<1>6. Has(h, b, "RSP", Sure)
  BY <1>1, <1>2, <1>3, <1>4, <1>5, HoldFacts
<1>7. \A q \in Regs : b.reg[q] = IF q = "RSP" THEN Sure ELSE IF q = r THEN a.slot[d] ELSE a.reg[q]
  BY <1>5, <1>6 DEF Has
<1>8. /\ b.slot = a.slot /\ b.ent = a.ent /\ b.mir = a.mir /\ b.pk = a.pk /\ b.zf = a.zf /\ b.fresh = a.fresh
      /\ b.ptr = a.ptr
  BY <1>5, <1>6 DEF Has, Same
<1>9. Read(r, regs["RSP"] + (-d))
  BY <1>1, ExecLoad
<1>10. Means(a.reg["RSP"], regs["RSP"], e)
  BY <1>2 DEF RegsMean
<1>11. \/ regs["RSP"] = At(e) /\ e.s = RaOf(e.l)
       \/ regs["RSP"] = NullPage /\ (e.s # RaOf(e.l) \/ "raced" \in e.F)
  BY <1>1, <1>2, <1>10, MeansTags
<1>12. CASE regs["RSP"] = NullPage /\ (e.s # RaOf(e.l) \/ "raced" \in e.F)
  <2>1. PICK x : x = regs["RSP"] + (-d)
    OBVIOUS
  <2>2. x <= NullPage /\ x < 1 /\ x \in Int
    BY <1>2, <1>12, <2>1
  <2>3. x \notin Words
    BY <2>2, Layout DEF Words, Stack, Shadow, Clave
  <2>4. status' = "trap"
    BY <1>9, <2>1, <2>2, <2>3 DEF Read, Fault
  <2>5. e.s \in {RaOf(e.l), Altered} /\ (e.s = Altered => "altered" \in e.F)
    BY DEF Pre, Live, Acts, SlotMeans
  <2> QED  BY <1>12, <2>4, <2>5 DEF Sound
<1>13. CASE regs["RSP"] = At(e) /\ e.s = RaOf(e.l)
  <2>1. At(e) \in Int /\ At(e) - d \in Stack /\ At(e) - d = At(e) + (-d)
    <3>1. d = 1 \/ d = 2 \/ d = 3
      OBVIOUS
    <3>2. At(e) \in Int /\ At(e) - d \in Stack
      BY <1>2, <3>1, Places
    <3> QED  BY <1>2, <3>2
  <2>2. At(e) - d \in Words /\ At(e) - d \notin Shadow
    BY <2>1, WordFacts
  <2>3. Read(r, At(e) - d) /\ (At(e) - d \in Shadow => Reads(v, a))
    BY <1>9, <1>13, <2>1, <2>2
  <2>4. /\ status' = "run" /\ regs' = [regs EXCEPT ![r] = mem[At(e) - d]] /\ mem[At(e) - d] \in Int
        /\ mem' = mem /\ zf' = zf /\ pkru' = pkru
    BY <2>2, <2>3, ReadDone
  <2>5. Means(a.slot[d], mem[At(e) - d], e)
    BY DEF Pre, Live, Acts, SlotsMean
  <2>6. Means(Sure, regs["RSP"], e)
    BY <1>2, <1>13, MeansTags
  <2>7. PICK r2 : r2 = [regs EXCEPT ![r] = mem[At(e) - d]]
    OBVIOUS
  <2>8. r2 \in [Regs -> Int] /\ \A q \in Regs : r2[q] = IF q = r THEN mem[At(e) - d] ELSE regs[q]
    BY <1>2, <2>4, <2>7
  <2>9. RegsMean(b, r2, e)
    BY <1>2, <1>7, <2>5, <2>6, <2>8 DEF RegsMean
  <2>10. Live(v, a, e, regs, mem, zf, pkru) /\ \A j \in 1 .. 3 : b.slot[j] = a.slot[j] \/ b.slot[j] = Any
    BY <1>8, PreFacts
  <2>11. Live(v, b, e, r2, mem, zf, pkru)
    BY <1>2, <1>8, <2>8, <2>9, <2>10, LiveRegs
  <2>12. Live(v, b, e, regs', mem', zf', pkru')
    BY <2>4, <2>7, <2>11
  <2> QED  BY <2>4, <2>12, SparedNone DEF Sound
<1> QED  BY <1>11, <1>12, <1>13

\* A step that writes one word of the shadow stack.
LEMMA LiveShadow ==
  ASSUME NEW v \in Variant, NEW a \in Syms, NEW e, NEW r, NEW m, NEW z, NEW k, Live(v, a, e, r, m, z, k),
         NEW b \in Syms, NEW x \in Shadow, NEW n \in Int, n # Altered, NEW m2, m2 = [m EXCEPT ![x] = n],
         RegsMean(b, r, e), b.slot = a.slot, b.zf = a.zf, b.pk = a.pk, b.fresh = a.fresh,
         EntryMeans(v, b, m2, e), MirrorMeans(v, b, m2, e), Stacked(v) => m2[ShadowBase] = e.q + b.ptr
  PROVE  Live(v, b, e, r, m2, z, k)
<1>1. e \in Frames /\ m \in [Words -> Int] /\ Placed(v, e)
  BY DEF Live, Typed, Acts
<1>2. x \in Words /\ x \notin Stack /\ x \notin Clave
  BY WordFacts
<1>3. m2 \in [Words -> Int] /\ \A y \in Words : m2[y] = IF y = x THEN n ELSE m[y]
  BY <1>1, <1>2
<1>4. Typed(e, r, m2, z, k)
  BY <1>3 DEF Live, Typed
<1>5. \A y \in Stack : y \in Words /\ y # x /\ m2[y] = m[y]
  BY <1>2, <1>3, WordFacts
<1>6. At(e) \in Stack /\ At(e) - 1 \in Stack /\ At(e) - 2 \in Stack /\ At(e) - 3 \in Stack
  BY <1>1, Places
<1>7. SlotsMean(b, m2, e)
  <2> SUFFICES ASSUME NEW j \in 1 .. 3 PROVE Means(b.slot[j], m2[At(e) - j], e)
    BY DEF SlotsMean
  <2>1. At(e) - j \in Stack
    <3>1. j = 1 \/ j = 2 \/ j = 3
      OBVIOUS
    <3> QED  BY <1>6, <3>1
  <2>2. m2[At(e) - j] = m[At(e) - j]
    BY <1>5, <2>1
  <2> QED  BY <2>2 DEF Live, Acts, SlotsMean
<1>8. m2[At(e)] = m[At(e)]
  BY <1>5, <1>6
<1>9. SlotMeans(v, b, m2, e) /\ FlagMeans(b, z, e) /\ KeyMeans(v, b, k)
  BY <1>8 DEF Live, Acts, SlotMeans, FlagMeans, KeyMeans
<1>10. Shared(v, b, m2, e)
  <2>1. \A y \in Shadow : m2[y] # Altered
    <3>1. \A y \in Shadow : y \in Words /\ m[y] # Altered
      BY WordFacts DEF Live, Shared
    <3> QED  BY <1>3, <3>1
  <2>2. ClaveBase \in Clave /\ ClaveBase + 2 \in Clave
    BY Layout DEF Clave
  <2>3. m2[ClaveBase] = m[ClaveBase] /\ m2[ClaveBase + 2] = m[ClaveBase + 2]
    BY <1>2, <1>3, <2>2, WordFacts
  <2> QED  BY <2>1, <2>3 DEF Live, Shared
<1> QED  BY <1>1, <1>4, <1>7, <1>9, <1>10 DEF Live, Acts

\* The same as a step of the machine.
LEMMA SoundShadow ==
  ASSUME NEW v, NEW a, NEW e, Pre(v, a, e), NEW b \in Syms, NEW x \in Shadow, NEW n \in Int, n # Altered,
         NEW m2, m2 = [mem EXCEPT ![x] = n], Writes(v, a), Write(x, n), regs' = regs,
         RegsMean(b, regs, e), b.slot = a.slot, b.zf = a.zf, b.pk = a.pk, b.fresh = a.fresh,
         EntryMeans(v, b, m2, e), MirrorMeans(v, b, m2, e), Stacked(v) => m2[ShadowBase] = e.q + b.ptr,
         Spared(v, mem, m2, e)
  PROVE  Sound(v, b, e)
<1>1. x \in Words /\ v \in Variant /\ a \in Syms /\ Live(v, a, e, regs, mem, zf, pkru)
  BY PreFacts, WordFacts
<1>2. status' = "run" /\ mem' = [mem EXCEPT ![x] = n] /\ zf' = zf /\ pkru' = pkru
  BY <1>1, WriteDone
<1>3. Live(v, b, e, regs, m2, zf, pkru)
  BY <1>1, LiveShadow
<1>4. mem' = m2
  BY <1>2
<1>5. Live(v, b, e, regs', mem', zf', pkru') /\ Spared(v, mem, mem', e)
  BY <1>2, <1>3, <1>4
<1> QED  BY <1>2, <1>5 DEF Sound

\* A write to one of the activation's own words.
LEMMA SparedOne ==
  ASSUME NEW v, NEW m, NEW e, NEW x, NEW n, NEW m2, m \in [Words -> Int], m2 = [m EXCEPT ![x] = n],
         \/ x \in Stack /\ x <= At(e)
         \/ ~Mirrored(v) /\ x \in {e.q, e.q + 1}
         \/ Stacked(v) /\ x = ShadowBase
         \/ Mirrored(v) /\ x = At(e) + ParOffset
  PROVE  Spared(v, m, m2, e)
<1>1. \A y \in Words : m2[y] # m[y] => y = x
  OBVIOUS
<1> QED  BY <1>1 DEF Spared

\* What is not an address and not an altered return address.
LEMMA Numbers ==
  ASSUME NEW v \in Variant, NEW e \in Frames, Placed(v, e)
  PROVE  /\ RaOf(e.l) # Altered /\ At(e) # Altered /\ RaOf(e.l) \in Int
         /\ ~Mirrored(v) => e.q # Altered /\ e.q + 2 # Altered
<1>1. At(e) \in Int /\ At(e) <= StackTop
  BY Layout DEF Placed
<1>2. ~Mirrored(v) => e.q \in Int /\ e.q + 1 <= ShadowBase + StackTop - 1
  BY Places, WordFacts
<1>3. ~Mirrored(v) => e.q # Altered /\ e.q + 2 # Altered
  BY <1>2, Layout
<1> QED  BY <1>1, <1>3, Layout DEF RaOf

\* The machine does what the rule for StoreSp says.
LEMMA SoundStoreSp ==
  ASSUME NEW v, NEW a, NEW e, Pre(v, a, e), NEW i, NEW b \in Syms, RStoreSp(v, i, a, b), Exec(i)
  PROVE  Sound(v, b, e)
<1>1. PICK r \in {"R15", "R10", "RCX"} :
        /\ i = <<"store", r, 1, "RSP">> /\ ~Mirrored(v) /\ a.reg["RSP"] = Here /\ a.reg[r] = Ptr(0) /\ Writes(v, a)
        /\ a.ent = 1 /\ b = [a EXCEPT !.ent = 2]
  BY DEF RStoreSp
<1>2. /\ a \in Syms /\ e \in Frames /\ v \in Variant /\ r \in Regs /\ "RSP" \in Regs /\ Placed(v, e) /\ RegsMean(a, regs, e)
      /\ e.q \in Int /\ mem \in [Words -> Int]
  BY RegFacts, PreFacts DEF Frames
<1>3. /\ b.reg = a.reg /\ b.slot = a.slot /\ b.zf = a.zf /\ b.pk = a.pk /\ b.fresh = a.fresh /\ b.mir = a.mir
      /\ b.ptr = a.ptr /\ b.ent = 2
  BY <1>1, <1>2 DEF Syms
<1>4. Means(Ptr(0), regs[r], e) /\ Means(Here, regs["RSP"], e)
  BY <1>1, <1>2 DEF RegsMean
<1>5. regs["RSP"] = At(e)
  BY <1>2, <1>4, MeansHere
<1>6. regs[r] = e.q + 0
  BY <1>4 DEF Means, Ptr
<1>7. regs[r] + 1 = e.q + 1 /\ e.q + 1 \in Shadow /\ e.q \in Shadow /\ e.q + 1 # e.q /\ (Stacked(v) => e.q > ShadowBase)
  BY <1>1, <1>2, <1>6, Places
<1>8. Write(regs[r] + 1, regs["RSP"]) /\ regs' = regs
  BY <1>1, ExecStore
<1>9. Write(e.q + 1, At(e)) /\ At(e) # Altered /\ At(e) \in Int
  BY <1>2, <1>5, <1>7, <1>8, Numbers, Places
<1>10. PICK m2 : m2 = [mem EXCEPT ![e.q + 1] = At(e)]
  OBVIOUS
<1>11. /\ e.q + 1 \in Words /\ e.q \in Words /\ ShadowBase \in Int
       /\ \A y \in Words : m2[y] = IF y = e.q + 1 THEN At(e) ELSE mem[y]
  BY <1>2, <1>7, <1>10, WordFacts, Layout
<1>12. EntryMeans(v, b, m2, e)
  <2>1. "raced" \in e.F \/ mem[e.q] = RaOf(e.l)
    BY <1>1 DEF Pre, Live, Acts, EntryMeans
  <2>2. m2[e.q] = mem[e.q] /\ m2[e.q + 1] = At(e)
    BY <1>7, <1>11
  <2> QED  BY <2>1, <2>2 DEF EntryMeans
<1>13. MirrorMeans(v, b, m2, e)
  BY <1>1 DEF MirrorMeans
<1>14. Stacked(v) => m2[ShadowBase] = e.q + b.ptr
  <2> SUFFICES ASSUME Stacked(v) PROVE m2[ShadowBase] = e.q + b.ptr
    OBVIOUS
  <2>1. ShadowBase \in Words /\ ShadowBase # e.q + 1
    BY <1>2, <1>7, <1>11, Places, WordFacts
  <2>2. mem[ShadowBase] = e.q + a.ptr
    BY DEF Pre, Live, Shared
  <2> QED  BY <1>3, <1>11, <2>1, <2>2
<1>15. RegsMean(b, regs, e)
  BY <1>2, <1>3 DEF RegsMean
<1>16. Spared(v, mem, m2, e)
  BY <1>1, <1>2, <1>10, SparedOne
<1> QED  BY <1>1, <1>3, <1>7, <1>8, <1>9, <1>10, <1>12, <1>13, <1>14, <1>15, <1>16, SoundShadow

\* The machine does what the rule for StoreRa says.
LEMMA SoundStoreRa ==
  ASSUME NEW v, NEW a, NEW e, Pre(v, a, e), NEW i, NEW b \in Syms, RStoreRa(v, i, a, b), Exec(i)
  PROVE  Sound(v, b, e)
<1>1. PICK r \in {"R15", "R10", "RCX"} :
        /\ i = <<"store", r, 0, "RAX">> /\ ~Mirrored(v) /\ a.reg["RAX"] = Ra /\ a.reg[r] \in {Base, Ptr(0)} /\ Writes(v, a)
        /\ b = [Hold(a, r, Ptr(0)) EXCEPT !.ent = 1, !.open = TRUE]
  BY DEF RStoreRa
<1>2. /\ a \in Syms /\ e \in Frames /\ v \in Variant /\ r \in Regs /\ "RAX" \in Regs /\ Placed(v, e) /\ RegsMean(a, regs, e)
      /\ e.q \in Int /\ mem \in [Words -> Int] /\ Ptr(0) \in Values /\ regs \in [Regs -> Int]
  BY RegFacts, PreFacts, ValueFacts DEF Frames
<1>3. PICK h : h = Hold(a, r, Ptr(0))
  OBVIOUS
<1>4. h \in Syms /\ Has(a, h, r, Ptr(0))
  BY <1>2, <1>3, HoldFacts
<1>5. b = [h EXCEPT !.ent = 1, !.open = TRUE]
  BY <1>1, <1>3
<1>6. /\ b.reg = h.reg /\ b.slot = a.slot /\ b.zf = a.zf /\ b.pk = a.pk /\ b.fresh = a.fresh /\ b.mir = a.mir
      /\ b.ptr = a.ptr /\ b.ent = 1
  BY <1>4, <1>5 DEF Syms, Has, Same
<1>7. Means(a.reg[r], regs[r], e) /\ Means(Ra, regs["RAX"], e)
  BY <1>1, <1>2 DEF RegsMean
<1>8. regs["RAX"] = RaOf(e.l)
  BY <1>2, <1>7, MeansTags
<1>9. regs[r] = e.q \/ (regs[r] = Foreign /\ "early" \in e.F)
  <2>1. CASE a.reg[r] = Base
    BY <1>2, <1>7, <2>1, MeansTags
  <2>2. CASE a.reg[r] = Ptr(0)
    <3>1. regs[r] = e.q + 0
      BY <1>7, <2>2 DEF Means, Ptr
    <3> QED  BY <1>2, <3>1
  <2> QED  BY <1>1, <2>1, <2>2
<1>10. Write(regs[r] + 0, regs["RAX"]) /\ regs' = regs
  BY <1>1, ExecStore
<1>11. Write(regs[r], RaOf(e.l))
  <2>1. regs[r] + 0 = regs[r]
    BY <1>2
  <2> QED  BY <1>8, <1>10, <2>1
<1>12. CASE regs[r] = Foreign /\ "early" \in e.F
  <2>1. Foreign \notin Words /\ ~(Foreign <= NullPage)
    BY Layout DEF Words, Stack, Shadow, Clave
  <2>2. Fault(Foreign, TRUE) = "segv"
    BY <2>1 DEF Fault
  <2>3. status' = "segv"
    BY <1>11, <1>12, <2>2 DEF Write
  <2> QED  BY <1>12, <2>3 DEF Sound
<1>13. CASE regs[r] = e.q
  <2>1. Write(e.q, RaOf(e.l)) /\ RaOf(e.l) # Altered /\ RaOf(e.l) \in Int
    BY <1>2, <1>11, <1>13, Numbers
  <2>2. e.q \in Shadow /\ (Stacked(v) => e.q > ShadowBase) /\ e.q \in Words /\ ShadowBase \in Int
    BY <1>1, <1>2, Places, WordFacts, Layout
  <2>3. PICK m2 : m2 = [mem EXCEPT ![e.q] = RaOf(e.l)]
    OBVIOUS
  <2>4. \A y \in Words : m2[y] = IF y = e.q THEN RaOf(e.l) ELSE mem[y]
    BY <1>2, <2>3
  <2>5. EntryMeans(v, b, m2, e)
    BY <1>6, <2>2, <2>4 DEF EntryMeans
  <2>6. MirrorMeans(v, b, m2, e)
    BY <1>1 DEF MirrorMeans
  <2>7. Stacked(v) => m2[ShadowBase] = e.q + b.ptr
    <3> SUFFICES ASSUME Stacked(v) PROVE m2[ShadowBase] = e.q + b.ptr
      OBVIOUS
    <3>1. ShadowBase \in Words /\ ShadowBase # e.q
      BY <1>2, <2>2, Places, WordFacts
    <3>2. mem[ShadowBase] = e.q + a.ptr
      BY DEF Pre, Live, Shared
    <3> QED  BY <1>6, <2>4, <3>1, <3>2
  <2>8. Means(Ptr(0), regs[r], e)
    <3>1. regs[r] = e.q + 0
      BY <1>2, <1>13
    <3> QED  BY <3>1 DEF Means, Ptr
  <2>9. RegsMean(b, regs, e)
    BY <1>2, <1>4, <1>6, <2>8 DEF RegsMean, Has
  <2>10. Spared(v, mem, m2, e)
    BY <1>1, <1>2, <2>3, SparedOne
  <2> QED  BY <1>1, <1>6, <1>10, <2>1, <2>2, <2>3, <2>5, <2>6, <2>7, <2>9, <2>10, SoundShadow
<1> QED  BY <1>9, <1>12, <1>13

\* The pointer word under SEG and MEM.
LEMMA SoundPointer ==
  ASSUME NEW v, NEW a, NEW e, Pre(v, a, e), NEW b \in Syms, NEW d \in {0, 2}, NEW n, n = e.q + d,
         Stacked(v), Writes(v, a), Write(ShadowBase, n), regs' = regs,
         b.reg = a.reg, b.slot = a.slot, b.zf = a.zf, b.pk = a.pk, b.fresh = a.fresh, b.ent = a.ent, b.ptr = d
  PROVE  Sound(v, b, e)
<1>1. /\ a \in Syms /\ e \in Frames /\ v \in Variant /\ Placed(v, e) /\ RegsMean(a, regs, e)
      /\ e.q \in Int /\ mem \in [Words -> Int] /\ ~Mirrored(v)
  BY PreFacts DEF Frames, Stacked, Mirrored
<1>2. ShadowBase \in Shadow /\ ShadowBase \in Words /\ e.q > ShadowBase /\ e.q \in Shadow /\ e.q + 1 \in Shadow /\ ShadowBase \in Int
  BY <1>1, Places, WordFacts, Layout
<1>3. n \in Int /\ n # Altered
  <2>1. e.q # Altered /\ e.q + 2 # Altered
    BY <1>1, Numbers
  <2> QED  BY <1>1, <2>1
<1>4. PICK m2 : m2 = [mem EXCEPT ![ShadowBase] = n]
  OBVIOUS
<1>5. \A y \in Words : m2[y] = IF y = ShadowBase THEN n ELSE mem[y]
  BY <1>1, <1>4
<1>6. EntryMeans(v, b, m2, e)
  <2>1. EntryMeans(v, a, mem, e)
    BY DEF Pre, Live, Acts
  <2>2. e.q \in Words /\ e.q + 1 \in Words /\ e.q # ShadowBase /\ e.q + 1 # ShadowBase
    BY <1>1, <1>2, WordFacts
  <2>3. m2[e.q] = mem[e.q] /\ m2[e.q + 1] = mem[e.q + 1]
    BY <1>5, <2>2
  <2> QED  BY <2>1, <2>3 DEF EntryMeans
<1>7. MirrorMeans(v, b, m2, e)
  BY <1>1 DEF MirrorMeans
<1>8. m2[ShadowBase] = e.q + b.ptr
  BY <1>2, <1>5
<1>9. RegsMean(b, regs, e)
  BY <1>1 DEF RegsMean
<1>10. Spared(v, mem, m2, e)
  BY <1>1, <1>4, SparedOne
<1> QED  BY <1>2, <1>3, <1>4, <1>6, <1>7, <1>8, <1>9, <1>10, SoundShadow

\* The machine does what the rule for StorePtr says.
LEMMA SoundStorePtr ==
  ASSUME NEW v, NEW a, NEW e, Pre(v, a, e), NEW i, NEW b \in Syms, RStorePtr(v, i, a, b), Exec(i)
  PROVE  Sound(v, b, e)
<1>1. PICK r \in {"R10", "RCX", "R11"} :
        /\ i = <<"store", "GS", 0, r>> /\ v.scheme = "SEG" /\ a.reg["GS"] = Lit(ShadowBase) /\ Writes(v, a)
        /\ a.reg[r] = (IF r = "R11" THEN Ptr(0) ELSE Ptr(2))
        /\ b = [a EXCEPT !.ptr = a.reg[r].d, !.open = (r = "R11")]
  BY DEF RStorePtr
<1>2. PICK d \in {0, 2} : d = IF r = "R11" THEN 0 ELSE 2
  OBVIOUS
<1>3. a.reg[r] = Ptr(d) /\ a.reg[r].d = d
  BY <1>1, <1>2 DEF Ptr
<1>4. /\ a \in Syms /\ e \in Frames /\ r \in Regs /\ "GS" \in Regs /\ RegsMean(a, regs, e) /\ Stacked(v) /\ ShadowBase \in Int
  BY <1>1, RegFacts, PreFacts, Layout DEF Stacked
<1>5. b.reg = a.reg /\ b.slot = a.slot /\ b.zf = a.zf /\ b.pk = a.pk /\ b.fresh = a.fresh /\ b.ent = a.ent /\ b.ptr = d
  BY <1>1, <1>3, <1>4 DEF Syms
<1>6. Means(Lit(ShadowBase), regs["GS"], e) /\ Means(Ptr(d), regs[r], e)
  BY <1>1, <1>3, <1>4 DEF RegsMean
<1>7. regs["GS"] = ShadowBase /\ regs[r] = e.q + d
  BY <1>6 DEF Means, Lit, Ptr
<1>8. Write(regs["GS"] + 0, regs[r]) /\ regs' = regs
  BY <1>1, ExecStore
<1>9. ShadowBase + 0 = ShadowBase
  BY <1>4
<1>10. Write(ShadowBase, e.q + d)
  BY <1>7, <1>8, <1>9
<1>11. PICK n : n = e.q + d
  OBVIOUS
<1>12. Write(ShadowBase, n)
  BY <1>10, <1>11
<1> QED  BY <1>1, <1>4, <1>5, <1>8, <1>11, <1>12, SoundPointer

\* The machine does what the rule for AddPtr says.
LEMMA SoundAddPtr ==
  ASSUME NEW v, NEW a, NEW e, Pre(v, a, e), NEW i, NEW b \in Syms, RAddPtr(v, i, a, b), Exec(i)
  PROVE  Sound(v, b, e)
<1>1. PICK n \in {-2, 2} :
        /\ i = <<"addm", "RDX", n>> /\ v.scheme = "MEM" /\ a.reg["RDX"] = Lit(ShadowBase) /\ Writes(v, a)
        /\ \/ n = 2 /\ a.ptr = 0 /\ b = [a EXCEPT !.ptr = 2, !.open = FALSE]
           \/ n = -2 /\ a.ptr = 2 /\ b = [a EXCEPT !.ptr = 0, !.open = TRUE]
  BY DEF RAddPtr
<1>2. PICK d \in {0, 2} : d = IF n = 2 THEN 2 ELSE 0
  OBVIOUS
<1>3. a.ptr + n = d
  BY <1>1, <1>2
<1>4. /\ a \in Syms /\ e \in Frames /\ "RDX" \in Regs /\ RegsMean(a, regs, e) /\ Stacked(v) /\ e.q \in Int /\ a.ptr \in Int
  BY <1>1, RegFacts, PreFacts DEF Stacked, Frames, Syms
<1>5. b.reg = a.reg /\ b.slot = a.slot /\ b.zf = a.zf /\ b.pk = a.pk /\ b.fresh = a.fresh /\ b.ent = a.ent /\ b.ptr = d
  <2>1. CASE n = 2
    <3>1. b = [a EXCEPT !.ptr = 2, !.open = FALSE] /\ d = 2
      BY <1>1, <1>2, <2>1
    <3> QED  BY <1>4, <3>1 DEF Syms
  <2>2. CASE n = -2
    <3>1. b = [a EXCEPT !.ptr = 0, !.open = TRUE] /\ d = 0
      BY <1>1, <1>2, <2>2
    <3> QED  BY <1>4, <3>1 DEF Syms
  <2> QED  BY <2>1, <2>2
<1>6. Means(Lit(ShadowBase), regs["RDX"], e)
  BY <1>1, <1>4 DEF RegsMean
<1>7. regs["RDX"] = ShadowBase
  BY <1>6 DEF Means, Lit
<1>8. Write(regs["RDX"], mem[regs["RDX"]] + n) /\ regs' = regs
  BY <1>1, ExecAddm
<1>9. mem[ShadowBase] = e.q + a.ptr
  BY <1>4 DEF Pre, Live, Shared
<1>10. mem[ShadowBase] + n = e.q + d
  BY <1>3, <1>4, <1>9
<1>11. PICK k : k = e.q + d
  OBVIOUS
<1>12. Write(ShadowBase, k)
  BY <1>7, <1>8, <1>10, <1>11
<1> QED  BY <1>1, <1>4, <1>5, <1>8, <1>11, <1>12, SoundPointer

\* The machine does what the rule for StoreMirror says.
LEMMA SoundStoreMirror ==
  ASSUME NEW v, NEW a, NEW e, Pre(v, a, e), NEW i, NEW b \in Syms, RStoreMirror(v, i, a, b), Exec(i)
  PROVE  Sound(v, b, e)
<1>1. a.reg["RSP"] = Here /\ a.reg["RAX"] = Ra /\ Writes(v, a) /\ Mirrored(v) /\ ~Stacked(v)
  BY DEF RStoreMirror, Mirrored, Stacked
<1>2. /\ a \in Syms /\ e \in Frames /\ v \in Variant /\ "RSP" \in Regs /\ "RAX" \in Regs /\ "R15" \in Regs /\ Placed(v, e)
      /\ RegsMean(a, regs, e) /\ e.q \in Int /\ mem \in [Words -> Int] /\ Ptr(0) \in Values /\ ParOffset \in Int
  BY RegFacts, PreFacts, ValueFacts, Layout DEF Frames
<1>3. Means(Here, regs["RSP"], e) /\ Means(Ra, regs["RAX"], e)
  BY <1>1, <1>2 DEF RegsMean
<1>4. regs["RSP"] = At(e) /\ regs["RAX"] = RaOf(e.l) /\ At(e) \in Int /\ At(e) >= 1
  BY <1>2, <1>3, MeansHere, MeansTags, Places, WordFacts
<1>5. At(e) + ParOffset \in Shadow
  BY <1>1, <1>2, Places
<1>6. ASSUME Write(At(e) + ParOffset, RaOf(e.l)), regs' = regs, RegsMean(b, regs, e),
             b.slot = a.slot, b.zf = a.zf, b.pk = a.pk, b.fresh = a.fresh
      PROVE  Sound(v, b, e)
  <2>1. RaOf(e.l) # Altered /\ RaOf(e.l) \in Int
    BY <1>2, Numbers
  <2>2. PICK m2 : m2 = [mem EXCEPT ![At(e) + ParOffset] = RaOf(e.l)]
    OBVIOUS
  <2>3. m2[At(e) + ParOffset] = RaOf(e.l)
    BY <1>2, <1>5, <2>2, WordFacts
  <2>4. EntryMeans(v, b, m2, e) /\ MirrorMeans(v, b, m2, e)
    BY <1>1, <2>3 DEF EntryMeans, MirrorMeans
  <2>5. Spared(v, mem, m2, e)
    BY <1>1, <1>2, <2>2, SparedOne
  <2> QED  BY <1>1, <1>5, <1>6, <2>1, <2>2, <2>4, <2>5, SoundShadow
<1>7. CASE v.scheme = "CON" /\ i = <<"store", "RSP", ParOffset, "RAX">> /\ b = [a EXCEPT !.mir = TRUE]
  <2>1. b.reg = a.reg /\ b.slot = a.slot /\ b.zf = a.zf /\ b.pk = a.pk /\ b.fresh = a.fresh
    BY <1>2, <1>7 DEF Syms
  <2>2. Write(regs["RSP"] + ParOffset, regs["RAX"]) /\ regs' = regs
    BY <1>7, ExecStore
  <2>3. RegsMean(b, regs, e)
    BY <1>2, <2>1 DEF RegsMean
  <2> QED  BY <1>4, <1>6, <2>1, <2>2, <2>3
<1>8. CASE /\ v.scheme = "PARR" /\ i = <<"storex", "RSP", "R15", "RAX">> /\ a.reg["R15"] \in {Base, Ptr(0)}
           /\ b = [Hold(a, "R15", Ptr(0)) EXCEPT !.mir = TRUE]
  <2>1. PICK h : h = Hold(a, "R15", Ptr(0))
    OBVIOUS
  <2>2. h \in Syms /\ Has(a, h, "R15", Ptr(0))
    BY <1>2, <2>1, HoldFacts
  <2>3. b = [h EXCEPT !.mir = TRUE]
    BY <1>8, <2>1
  <2>4. b.reg = h.reg /\ b.slot = a.slot /\ b.zf = a.zf /\ b.pk = a.pk /\ b.fresh = a.fresh
    BY <2>2, <2>3 DEF Syms, Has, Same
  <2>5. Write(regs["RSP"] + regs["R15"], regs["RAX"]) /\ regs' = regs
    BY <1>8, ExecStorex
  <2>6. Means(a.reg["R15"], regs["R15"], e) /\ e.q = ParOffset
    BY <1>1, <1>2, <1>8 DEF RegsMean, Placed, P0
  <2>7. regs["R15"] = e.q \/ (regs["R15"] = Foreign /\ "early" \in e.F)
    <3>1. CASE a.reg["R15"] = Base
      BY <1>2, <2>6, <3>1, MeansTags
    <3>2. CASE a.reg["R15"] = Ptr(0)
      <4>1. regs["R15"] = e.q + 0
        BY <2>6, <3>2 DEF Means, Ptr
      <4> QED  BY <1>2, <4>1
    <3> QED  BY <1>8, <3>1, <3>2
  <2>8. CASE regs["R15"] = Foreign /\ "early" \in e.F
    <3>1. PICK x : x = At(e) + Foreign
      OBVIOUS
    <3>2. x \in Int /\ x > ClaveBase + 4 /\ x > 0
      BY <1>4, <3>1, Layout
    <3>3. x \notin Words /\ ~(x <= NullPage)
      BY <3>2, Layout DEF Words, Stack, Shadow, Clave
    <3>4. Fault(x, TRUE) = "segv"
      BY <3>3 DEF Fault
    <3>5. status' = "segv"
      BY <1>4, <2>5, <2>8, <3>1, <3>4 DEF Write
    <3> QED  BY <2>8, <3>5 DEF Sound
  <2>9. CASE regs["R15"] = e.q
    <3>1. regs["R15"] = ParOffset /\ regs["R15"] = e.q + 0
      BY <1>2, <2>6, <2>9
    <3>2. Means(Ptr(0), regs["R15"], e)
      BY <3>1 DEF Means, Ptr
    <3>3. RegsMean(b, regs, e)
      BY <1>2, <2>2, <2>4, <3>2 DEF RegsMean, Has
    <3>4. Write(At(e) + ParOffset, RaOf(e.l))
      BY <1>4, <2>5, <3>1
    <3> QED  BY <1>6, <2>4, <2>5, <3>3, <3>4
  <2> QED  BY <2>7, <2>8, <2>9
<1> QED  BY <1>7, <1>8 DEF RStoreMirror

\* A step that writes one of the three words below the slot.
LEMMA SoundBelow ==
  ASSUME NEW v, NEW a, NEW e, Pre(v, a, e), NEW b \in Syms, NEW d \in 1 .. 3, NEW n \in Int,
         Write(At(e) - d, n), RegsMean(b, regs', e), regs' \in [Regs -> Int],
         \A j \in 1 .. 3 : b.slot[j] = (IF j = d THEN b.slot[d] ELSE a.slot[j]), Means(b.slot[d], n, e),
         b.ent = a.ent, b.mir = a.mir, b.pk = a.pk, b.zf = a.zf, b.fresh = a.fresh, b.ptr = a.ptr
  PROVE  Sound(v, b, e)
<1>1. /\ a \in Syms /\ e \in Frames /\ v \in Variant /\ Placed(v, e) /\ e.q \in Int /\ mem \in [Words -> Int]
      /\ Live(v, a, e, regs, mem, zf, pkru)
  BY PreFacts DEF Frames
<1>2. PICK x : x = At(e) - d
  OBVIOUS
<1>3. /\ At(e) \in Int /\ x \in Stack /\ x \in Int /\ x < At(e) /\ At(e) \in Stack
      /\ \A j \in 1 .. 3 : At(e) - j \in Stack /\ (At(e) - j = x <=> j = d)
  <2>1. At(e) \in Int /\ At(e) \in Stack /\ At(e) - 1 \in Stack /\ At(e) - 2 \in Stack /\ At(e) - 3 \in Stack
    BY <1>1, Places
  <2>2. \A j \in 1 .. 3 : At(e) - j \in Stack
    <3> SUFFICES ASSUME NEW j \in 1 .. 3 PROVE At(e) - j \in Stack
      OBVIOUS
    <3>1. j = 1 \/ j = 2 \/ j = 3
      OBVIOUS
    <3> QED  BY <2>1, <3>1
  <2>3. x \in Int /\ x < At(e) /\ \A j \in 1 .. 3 : At(e) - j = x <=> j = d
    BY <1>2, <2>1
  <2> QED  BY <1>2, <2>1, <2>2, <2>3
<1>4. x \in Words /\ x \notin Shadow /\ x \notin Clave
  BY <1>3, WordFacts
<1>5. Write(x, n) /\ (x \in Shadow => Writes(v, a))
  BY <1>2, <1>4
<1>6. status' = "run" /\ mem' = [mem EXCEPT ![x] = n] /\ zf' = zf /\ pkru' = pkru
  BY <1>4, <1>5, WriteDone
<1>7. PICK m2 : m2 = [mem EXCEPT ![x] = n]
  OBVIOUS
<1>8. m2 \in [Words -> Int] /\ \A y \in Words : m2[y] = IF y = x THEN n ELSE mem[y]
  BY <1>1, <1>4, <1>7
<1>9. \A y \in Words : (y \notin Stack \/ y = At(e)) => m2[y] = mem[y]
  BY <1>3, <1>8
<1>10. PICK r2 : r2 = regs'
  OBVIOUS
<1>11. r2 \in [Regs -> Int] /\ RegsMean(b, r2, e)
  BY <1>10
<1>12. Typed(e, r2, m2, zf, pkru)
  BY <1>1, <1>8, <1>11 DEF Live, Typed
<1>13. SlotsMean(b, m2, e)
  <2> SUFFICES ASSUME NEW j \in 1 .. 3 PROVE Means(b.slot[j], m2[At(e) - j], e)
    BY DEF SlotsMean
  <2>1. At(e) - j \in Words /\ Means(a.slot[j], mem[At(e) - j], e)
    BY <1>1, <1>3, WordFacts DEF Live, Acts, SlotsMean
  <2>2. CASE j = d
    <3>1. m2[At(e) - j] = n
      BY <1>3, <1>8, <2>1, <2>2
    <3> QED  BY <2>2, <3>1
  <2>3. CASE j # d
    <3>1. m2[At(e) - j] = mem[At(e) - j] /\ b.slot[j] = a.slot[j]
      BY <1>3, <1>8, <2>1, <2>3
    <3> QED  BY <2>1, <3>1
  <2> QED  BY <2>2, <2>3
<1>14. m2[At(e)] = mem[At(e)]
  BY <1>3, <1>9, WordFacts
<1>15. SlotMeans(v, b, m2, e) /\ FlagMeans(b, zf, e) /\ KeyMeans(v, b, pkru)
  BY <1>1, <1>14 DEF Live, Acts, SlotMeans, FlagMeans, KeyMeans
<1>16. EntryMeans(v, b, m2, e)
  <2>1. ~Mirrored(v) => m2[e.q] = mem[e.q] /\ m2[e.q + 1] = mem[e.q + 1]
    BY <1>1, <1>9, Places, WordFacts
  <2> QED  BY <1>1, <2>1 DEF Live, Acts, EntryMeans
<1>17. MirrorMeans(v, b, m2, e)
  <2>1. Mirrored(v) => m2[At(e) + ParOffset] = mem[At(e) + ParOffset]
    BY <1>1, <1>9, Places, WordFacts
  <2> QED  BY <1>1, <2>1 DEF Live, Acts, MirrorMeans
<1>18. Shared(v, b, m2, e)
  <2>1. \A y \in Shadow : m2[y] # Altered
    <3>1. \A y \in Shadow : y \in Words /\ y \notin Stack /\ mem[y] # Altered
      BY <1>1, WordFacts DEF Live, Shared
    <3> QED  BY <1>9, <3>1
  <2>2. ClaveBase \in Clave /\ ClaveBase + 2 \in Clave
    BY Layout DEF Clave
  <2>3. m2[ClaveBase] = mem[ClaveBase] /\ m2[ClaveBase + 2] = mem[ClaveBase + 2]
    BY <1>9, <2>2, WordFacts
  <2>4. Stacked(v) => m2[ShadowBase] = mem[ShadowBase]
    BY <1>1, <1>9, Places, WordFacts
  <2> QED  BY <1>1, <2>1, <2>3, <2>4 DEF Live, Shared
<1>19. Live(v, b, e, r2, m2, zf, pkru)
  BY <1>1, <1>11, <1>12, <1>13, <1>15, <1>16, <1>17, <1>18 DEF Live, Acts
<1>20. Live(v, b, e, regs', mem', zf', pkru')
  BY <1>6, <1>7, <1>10, <1>19
<1>21. x <= At(e)
  BY <1>3
<1>22. Spared(v, mem, m2, e)
  BY <1>1, <1>3, <1>7, <1>21, SparedOne
<1>23. Spared(v, mem, mem', e)
  BY <1>6, <1>7, <1>22
<1> QED  BY <1>6, <1>20, <1>23 DEF Sound

\* Giving a slot's note a value.
LEMMA FillFacts ==
  ASSUME NEW a \in Syms, NEW j \in 1 .. 3, NEW x \in Values, NEW b, b = Fill(a, j, x)
  PROVE  /\ \A k \in 1 .. 3 : b.slot[k] = IF k = j THEN x ELSE a.slot[k]
         /\ b.reg = a.reg /\ b.ptr = a.ptr /\ b.ent = a.ent /\ b.mir = a.mir /\ b.pk = a.pk /\ b.zf = a.zf
         /\ b.open = a.open /\ b.fresh = a.fresh
BY DEF Fill, Syms

\* The machine does what the rule for StoreSlot says.
LEMMA SoundStoreSlot ==
  ASSUME NEW v, NEW a, NEW e, Pre(v, a, e), NEW i, NEW b \in Syms, RStoreSlot(v, i, a, b), Exec(i)
  PROVE  Sound(v, b, e)
<1>1. PICK r \in Free, d \in 1 .. 3 : /\ i = <<"store", "RSP", -d, r>> /\ a.reg["RSP"] = Here /\ b = Fill(a, d, a.reg[r])
  BY DEF RStoreSlot
<1>2. /\ a \in Syms /\ e \in Frames /\ v \in Variant /\ r \in Regs /\ "RSP" \in Regs /\ regs \in [Regs -> Int]
      /\ Placed(v, e) /\ d \in Int /\ -d \in Int /\ RegsMean(a, regs, e)
  BY RegFacts, PreFacts
<1>3. a.reg[r] \in Values /\ regs[r] \in Int
  BY <1>2 DEF Syms
<1>4. /\ \A k \in 1 .. 3 : b.slot[k] = IF k = d THEN a.reg[r] ELSE a.slot[k]
      /\ b.reg = a.reg /\ b.ptr = a.ptr /\ b.ent = a.ent /\ b.mir = a.mir /\ b.pk = a.pk /\ b.zf = a.zf /\ b.fresh = a.fresh
  BY <1>1, <1>2, <1>3, FillFacts
<1>5. Means(Here, regs["RSP"], e) /\ Means(a.reg[r], regs[r], e)
  BY <1>1, <1>2 DEF RegsMean
<1>6. regs["RSP"] = At(e) /\ At(e) \in Int
  BY <1>2, <1>5, MeansHere, Places
<1>7. Write(regs["RSP"] + (-d), regs[r]) /\ regs' = regs
  BY <1>1, ExecStore
<1>8. regs["RSP"] + (-d) = At(e) - d
  BY <1>2, <1>6
<1>9. Write(At(e) - d, regs[r])
  BY <1>7, <1>8
<1>10. RegsMean(b, regs', e) /\ regs' \in [Regs -> Int]
  BY <1>2, <1>4, <1>7 DEF RegsMean
<1>11. b.slot[d] = a.reg[r] /\ Means(b.slot[d], regs[r], e) /\ \A j \in 1 .. 3 : b.slot[j] = (IF j = d THEN b.slot[d] ELSE a.slot[j])
  BY <1>4, <1>5
<1> QED  BY <1>3, <1>4, <1>9, <1>10, <1>11, SoundBelow

\* The machine does what the rule for Push says.
LEMMA SoundPush ==
  ASSUME NEW v, NEW a, NEW e, Pre(v, a, e), NEW i, NEW b \in Syms, RPush(v, i, a, b), Exec(i)
  PROVE  Sound(v, b, e)
<1>1. PICK r \in Free, d \in 1 .. 2 : /\ i = <<"push", r>> /\ a.reg["RSP"] = Want("RSP", 1 - d)
                                      /\ b = Fill(Hold(a, "RSP", Want("RSP", -d)), d, a.reg[r])
  BY DEF RPush
<1>2. /\ a \in Syms /\ e \in Frames /\ v \in Variant /\ r \in Regs /\ "RSP" \in Regs /\ regs \in [Regs -> Int]
      /\ Placed(v, e) /\ d \in Int /\ -d \in Int /\ 1 - d \in Int /\ RegsMean(a, regs, e) /\ d \in 1 .. 3
  BY RegFacts, PreFacts
<1>3. a.reg[r] \in Values /\ regs[r] \in Int /\ Want("RSP", -d) \in Values /\ At(e) \in Int
  BY <1>2, ValueFacts, Places DEF Syms
<1>4. PICK h : h = Hold(a, "RSP", Want("RSP", -d))
  OBVIOUS
<1>5. h \in Syms /\ Has(a, h, "RSP", Want("RSP", -d))
  BY <1>2, <1>3, <1>4, HoldFacts
<1>6. b = Fill(h, d, a.reg[r])
  BY <1>1, <1>4
<1>7. /\ \A k \in 1 .. 3 : b.slot[k] = IF k = d THEN a.reg[r] ELSE h.slot[k]
      /\ b.reg = h.reg /\ b.ptr = h.ptr /\ b.ent = h.ent /\ b.mir = h.mir /\ b.pk = h.pk /\ b.zf = h.zf /\ b.fresh = h.fresh
  BY <1>2, <1>3, <1>5, <1>6, FillFacts
<1>8. /\ h.slot = a.slot /\ b.ptr = a.ptr /\ b.ent = a.ent /\ b.mir = a.mir /\ b.pk = a.pk /\ b.zf = a.zf /\ b.fresh = a.fresh
      /\ \A q \in Regs : b.reg[q] = IF q = "RSP" THEN Want("RSP", -d) ELSE a.reg[q]
  BY <1>5, <1>7 DEF Has, Same
<1>9. Means(Want("RSP", 1 - d), regs["RSP"], e) /\ Means(a.reg[r], regs[r], e)
  BY <1>1, <1>2 DEF RegsMean
<1>10. regs["RSP"] = At(e) + (1 - d)
  BY <1>9 DEF Means, Want, At
<1>11. regs["RSP"] - 1 = At(e) - d /\ regs["RSP"] - 1 = At(e) + (-d) /\ regs["RSP"] - 1 \in Int
  BY <1>2, <1>3, <1>10
<1>12. Write(regs["RSP"] - 1, regs[r]) /\ regs' = [regs EXCEPT !["RSP"] = regs["RSP"] - 1]
  BY <1>1, ExecPush
<1>13. Write(At(e) - d, regs[r])
  BY <1>11, <1>12
<1>14. Means(Want("RSP", -d), regs["RSP"] - 1, e)
  BY <1>11 DEF Means, Want, At
<1>15. PICK r2 : r2 = [regs EXCEPT !["RSP"] = regs["RSP"] - 1]
  OBVIOUS
<1>16. r2 \in [Regs -> Int] /\ \A q \in Regs : r2[q] = IF q = "RSP" THEN regs["RSP"] - 1 ELSE regs[q]
  BY <1>2, <1>11, <1>15
<1>17. RegsMean(b, r2, e)
  BY <1>2, <1>8, <1>14, <1>16 DEF RegsMean
<1>18. RegsMean(b, regs', e) /\ regs' \in [Regs -> Int]
  BY <1>12, <1>15, <1>16, <1>17
<1>19. b.slot[d] = a.reg[r] /\ Means(b.slot[d], regs[r], e) /\ \A j \in 1 .. 3 : b.slot[j] = (IF j = d THEN b.slot[d] ELSE a.slot[j])
  BY <1>2, <1>7, <1>8, <1>9
<1> QED  BY <1>2, <1>3, <1>8, <1>13, <1>18, <1>19, SoundBelow

\* Every rule but the function's own code and the way out.
THEOREM SoundStep ==
  ASSUME NEW v, NEW a, NEW e, Pre(v, a, e), NEW i, NEW b \in Syms, Rule(v, i, a, b), Exec(i),
         i # <<"body">>, i # <<"back">>, i # <<"jmp", "R10">>
  PROVE  Sound(v, b, e)
<1>1. \/ RMov(v, i, a, b) \/ RImm(v, i, a, b) \/ RAdd(v, i, a, b) \/ RForth(v, i, a, b) \/ RBack(v, i, a, b)
      \/ RLoadRet(v, i, a, b) \/ RLoadSlot(v, i, a, b) \/ RLoadPtr(v, i, a, b) \/ RLoadClave(v, i, a, b)
      \/ RLoadEntry(v, i, a, b) \/ RLoadMirror(v, i, a, b) \/ RStoreRa(v, i, a, b) \/ RStoreSp(v, i, a, b)
      \/ RStorePtr(v, i, a, b) \/ RStoreMirror(v, i, a, b) \/ RStoreSlot(v, i, a, b) \/ RAddPtr(v, i, a, b)
      \/ RPush(v, i, a, b) \/ RPop(v, i, a, b) \/ RPopRet(v, i, a, b) \/ RXor(v, i, a, b) \/ RPopcnt(v, i, a, b)
      \/ RProbe(v, i, a, b) \/ RXorm(v, i, a, b) \/ RZero(v, i, a, b) \/ RCmove(v, i, a, b) \/ RWrpkru(v, i, a, b)
  BY DEF Rule, RBody, RLeave, RJmp
<1>2. RMov(v, i, a, b) \/ RImm(v, i, a, b) \/ RAdd(v, i, a, b) \/ RForth(v, i, a, b) \/ RBack(v, i, a, b) => Sound(v, b, e)
  BY SoundMov, SoundImm, SoundAdd, SoundForth, SoundBack
<1>3. RLoadRet(v, i, a, b) \/ RLoadSlot(v, i, a, b) \/ RLoadPtr(v, i, a, b) \/ RLoadClave(v, i, a, b) => Sound(v, b, e)
  BY SoundLoadRet, SoundLoadSlot, SoundLoadPtr, SoundLoadClave
<1>4. RLoadEntry(v, i, a, b) \/ RLoadMirror(v, i, a, b) \/ RStoreRa(v, i, a, b) \/ RStoreSp(v, i, a, b) => Sound(v, b, e)
  BY SoundLoadEntry, SoundLoadMirror, SoundStoreRa, SoundStoreSp
<1>5. RStorePtr(v, i, a, b) \/ RStoreMirror(v, i, a, b) \/ RStoreSlot(v, i, a, b) \/ RAddPtr(v, i, a, b) => Sound(v, b, e)
  BY SoundStorePtr, SoundStoreMirror, SoundStoreSlot, SoundAddPtr
<1>6. RPush(v, i, a, b) \/ RPop(v, i, a, b) \/ RPopRet(v, i, a, b) \/ RXor(v, i, a, b) \/ RPopcnt(v, i, a, b) => Sound(v, b, e)
  BY SoundPush, SoundPop, SoundPopRet, SoundXor, SoundPopcnt
<1>7. RProbe(v, i, a, b) \/ RXorm(v, i, a, b) \/ RZero(v, i, a, b) \/ RCmove(v, i, a, b) \/ RWrpkru(v, i, a, b) => Sound(v, b, e)
  BY SoundProbe, SoundXorm, SoundZero, SoundCmove, SoundWrpkru
<1> QED  BY <1>1, <1>2, <1>3, <1>4, <1>5, <1>6, <1>7

-------------------------------------------------------------------------------
(* Activations nested by signals.                                          *)

\* The activations, outermost first: level 0 is the function, the others are
\* handlers.  C holds their contexts, p their shadow pointers.
VL(u, l) == IF l = 0 THEN u ELSE HandlerOf(u)
Note(u, C, l) == Notes(VL(u, l))[C[l].pc]
Env(C, p, m, F, l) == [w |-> C[l].want, s |-> m[C[l].want["RSP"]], q |-> p[l], l |-> l, F |-> F]
Room(l) == (MaxNest - l) * (RedZone + 3)
Contexts == [regs : [Regs -> Int], zf : BOOLEAN, pkru : {OpenAll, WriteProt, AccessProt}, pc : Nat, want : [Regs -> Int]]

Standing(u, C, p, m, F, l) ==
  /\ C[l].pc \in 1 .. Len(Code(VL(u, l))) /\ C[l].want["RSP"] >= 4 + Room(l)
  /\ Acts(VL(u, l), Note(u, C, l), Env(C, p, m, F, l), C[l].regs, m, C[l].zf, C[l].pkru)
\* Level k works below what level l still needs.
Under(u, C, p, l, k) ==
  /\ C[k].want["RSP"] < C[l].want["RSP"] /\ p[k] >= p[l] + Top(VL(u, l), Note(u, C, l))
  /\ \A j \in 1 .. 3 : Note(u, C, l).slot[j] # Any => C[k].want["RSP"] < C[l].want["RSP"] - j
\* A signal arrived at level l where it stands.
Interrupted(u, C, p, F, l) ==
  /\ p[l + 1] = p[l] + Top(VL(u, l), Note(u, C, l))
  /\ Note(u, C, l).open => "raced" \in F
Nested(u, n, C, p, m, F) ==
  /\ u \in Variant /\ n \in 0 .. MaxNest /\ C \in [0 .. n -> Contexts] /\ p \in [0 .. n -> Int] /\ p[0] = P0(u)
  /\ m \in [Words -> Int] /\ F \in SUBSET Blames
  /\ \A l \in 0 .. n : Standing(u, C, p, m, F, l)
  /\ \A l \in 0 .. n : \A k \in 0 .. n : l < k => Under(u, C, p, l, k)
  /\ \A l \in 0 .. n : l < n => Interrupted(u, C, p, F, l)
  /\ Shared(VL(u, n), Note(u, C, n), m, Env(C, p, m, F, n))

\* Each handler takes at most RedZone + 3 words.
LEMMA RoomStep ==
  ASSUME NEW l \in 0 .. MaxNest
  PROVE  /\ Room(l) \in Int /\ Room(l) >= 0
         /\ l < MaxNest => Room(l) = Room(l + 1) + RedZone + 3
<1> DEFINE K == RedZone + 3
<1>1. K \in Nat /\ MaxNest \in Nat /\ l \in Nat
  BY Layout
<1>2. Room(l) = (MaxNest - l) * K /\ Room(l + 1) = (MaxNest - (l + 1)) * K
  BY DEF Room
<1>3. PICK x \in Nat : x = MaxNest - l
  BY <1>1
<1> HIDE DEF K
<1>4. x * K \in Nat
  BY <1>1
<1>5. l < MaxNest => Room(l) = Room(l + 1) + K
  <2> SUFFICES ASSUME l < MaxNest PROVE Room(l) = Room(l + 1) + K
    OBVIOUS
  <2>1. PICK y \in Nat : y = MaxNest - (l + 1)
    BY <1>1
  <2>2. x = y + 1
    BY <1>1, <1>3, <2>1
  <2>3. (y + 1) * K = y * K + K
    BY <1>1
  <2> QED  BY <1>2, <1>3, <2>1, <2>2, <2>3
<1>6. Room(l) \in Int /\ Room(l) >= 0
  BY <1>2, <1>3, <1>4
<1>7. RedZone \in Int /\ Room(l + 1) \in Int
  <2>1. PICK y \in Int : y = MaxNest - (l + 1)
    BY <1>1
  <2>2. y * K \in Int
    BY <1>1
  <2> QED  BY <1>2, <2>1, <2>2, Layout
<1> QED  BY <1>5, <1>6, <1>7 DEF K

\* A handler is a function of the same build.
LEMMA Levels ==
  ASSUME NEW u \in Variant, NEW l
  PROVE  /\ VL(u, l) \in Variant /\ VL(u, l).scheme = u.scheme /\ VL(u, l).mpk = u.mpk
         /\ (VL(u, l).load \/ VL(u, l).ctor => l = 0) /\ P0(VL(u, l)) = P0(u)
         /\ (Mirrored(VL(u, l)) <=> Mirrored(u)) /\ (Stacked(VL(u, l)) <=> Stacked(u))
<1>1. /\ HandlerOf(u) \in Variant /\ HandlerOf(u).scheme = u.scheme /\ HandlerOf(u).mpk = u.mpk
      /\ ~HandlerOf(u).load /\ ~HandlerOf(u).ctor
  BY DEF HandlerOf, Variant
<1>2. VL(u, l) = u \/ VL(u, l) = HandlerOf(u)
  BY DEF VL
<1>3. VL(u, l) \in Variant /\ VL(u, l).scheme = u.scheme /\ VL(u, l).mpk = u.mpk
  BY <1>1, <1>2
<1>4. VL(u, l).load \/ VL(u, l).ctor => l = 0
  BY <1>1 DEF VL
<1> QED  BY <1>3, <1>4 DEF P0, Mirrored, Stacked

\* Only the three named rules are for these instructions.
LEMMA RuleHead ==
  ASSUME NEW v, NEW i, NEW a, NEW b, Rule(v, i, a, b)
  PROVE  /\ i[1] = "body" => RBody(v, i, a, b)
         /\ i[1] = "back" => RLeave(v, i, a, b)
         /\ i[1] = "jmp" => RJmp(v, i, a, b)
<1>1. RMov(v, i, a, b) \/ RImm(v, i, a, b) \/ RAdd(v, i, a, b) \/ RForth(v, i, a, b) \/ RBack(v, i, a, b)
      => i[1] \notin {"body", "back", "jmp"}
  BY DEF RMov, RImm, RAdd, RForth, RBack
<1>2. RLoadRet(v, i, a, b) \/ RLoadSlot(v, i, a, b) \/ RLoadPtr(v, i, a, b) \/ RLoadClave(v, i, a, b)
      => i[1] \notin {"body", "back", "jmp"}
  BY DEF RLoadRet, RLoadSlot, RLoadPtr, RLoadClave
<1>3. RLoadEntry(v, i, a, b) \/ RLoadMirror(v, i, a, b) \/ RStoreRa(v, i, a, b) \/ RStoreSp(v, i, a, b)
      => i[1] \notin {"body", "back", "jmp"}
  BY DEF RLoadEntry, RLoadMirror, RStoreRa, RStoreSp
<1>4. RStorePtr(v, i, a, b) \/ RStoreMirror(v, i, a, b) \/ RStoreSlot(v, i, a, b) \/ RAddPtr(v, i, a, b)
      => i[1] \notin {"body", "back", "jmp"}
  BY DEF RStorePtr, RStoreMirror, RStoreSlot, RAddPtr
<1>5. RPush(v, i, a, b) \/ RPop(v, i, a, b) \/ RPopRet(v, i, a, b) \/ RXor(v, i, a, b) \/ RPopcnt(v, i, a, b)
      => i[1] \notin {"body", "back", "jmp"}
  BY DEF RPush, RPop, RPopRet, RXor, RPopcnt
<1>6. RProbe(v, i, a, b) \/ RXorm(v, i, a, b) \/ RZero(v, i, a, b) \/ RCmove(v, i, a, b) \/ RWrpkru(v, i, a, b)
      => i[1] \notin {"body", "back", "jmp"}
  BY DEF RProbe, RXorm, RZero, RCmove, RWrpkru
<1>7. (RBody(v, i, a, b) => i[1] = "body") /\ (RLeave(v, i, a, b) => i[1] = "back") /\ (RJmp(v, i, a, b) => i[1] = "jmp")
  BY DEF RBody, RLeave, RJmp
<1>8. i[1] \in {"body", "back", "jmp"} => RBody(v, i, a, b) \/ RLeave(v, i, a, b) \/ RJmp(v, i, a, b)
  BY <1>1, <1>2, <1>3, <1>4, <1>5, <1>6 DEF Rule
<1> QED  BY <1>7, <1>8

\* What is said stays true as more happens.
LEMMA MeansGrows ==
  ASSUME NEW x, NEW n, NEW e, NEW e2, e2.w = e.w, e2.s = e.s, e2.q = e.q, e2.l = e.l, e.F \subseteq e2.F, Means(x, n, e)
  PROVE  Means(x, n, e2)
BY DEF Means, At

\* An activation is untouched by what leaves its own words alone.
LEMMA ActsKept ==
  ASSUME NEW v, NEW a \in Syms, NEW e, NEW e2, NEW r, NEW m, NEW m2, NEW z, NEW k, Acts(v, a, e, r, m, z, k),
         e2.w = e.w, e2.s = e.s, e2.q = e.q, e2.l = e.l, e.F \subseteq e2.F, m2[At(e)] = m[At(e)],
         \A j \in 1 .. 3 : a.slot[j] = Any \/ m2[At(e) - j] = m[At(e) - j],
         ~Mirrored(v) /\ a.ent >= 1 => "raced" \in e2.F \/ (m2[e.q] = m[e.q] /\ m2[e.q + 1] = m[e.q + 1]),
         Mirrored(v) /\ a.mir => m2[At(e) + ParOffset] = m[At(e) + ParOffset]
  PROVE  Acts(v, a, e2, r, m2, z, k)
<1>1. At(e2) = At(e)
  BY DEF At
<1>2. RegsMean(a, r, e2)
  BY MeansGrows DEF Acts, RegsMean
<1>3. SlotsMean(a, m2, e2)
  <2> SUFFICES ASSUME NEW j \in 1 .. 3 PROVE Means(a.slot[j], m2[At(e2) - j], e2)
    BY DEF SlotsMean
  <2>1. CASE a.slot[j] = Any
    BY <2>1 DEF Means, Any, Tagged
  <2>2. CASE a.slot[j] # Any
    <3>1. m2[At(e2) - j] = m[At(e) - j] /\ Means(a.slot[j], m[At(e) - j], e)
      BY <1>1, <2>2 DEF Acts, SlotsMean
    <3> QED  BY <3>1, MeansGrows
  <2> QED  BY <2>1, <2>2
<1>4. FlagMeans(a, z, e2) /\ MirrorMeans(v, a, m2, e2) /\ KeyMeans(v, a, k) /\ Placed(v, e2)
  BY <1>1 DEF Acts, FlagMeans, MirrorMeans, Placed
<1>5. EntryMeans(v, a, m2, e2)
  <2>1. a.ent = 2 => a.ent >= 1
    OBVIOUS
  <2> QED  BY <1>1, <2>1 DEF Acts, EntryMeans
<1>6. SlotMeans(v, a, m2, e2)
  BY <1>1 DEF Acts, SlotMeans
<1> QED  BY <1>2, <1>3, <1>4, <1>5, <1>6 DEF Acts

\* The fields of an activation's environment.
LEMMA EnvFields ==
  ASSUME NEW C, NEW p, NEW m, NEW F, NEW l
  PROVE  /\ Env(C, p, m, F, l).w = C[l].want /\ Env(C, p, m, F, l).s = m[C[l].want["RSP"]] /\ Env(C, p, m, F, l).q = p[l]
         /\ Env(C, p, m, F, l).l = l /\ Env(C, p, m, F, l).F = F /\ At(Env(C, p, m, F, l)) = C[l].want["RSP"]
BY DEF Env, At

\* What the nesting says of one activation.
LEMMA StandFacts ==
  ASSUME NEW u, NEW n, NEW C, NEW p, NEW m, NEW F, Nested(u, n, C, p, m, F), NEW l \in 0 .. n
  PROVE  /\ VL(u, l) \in Variant /\ Note(u, C, l) \in Syms /\ Stable(VL(u, l), Note(u, C, l))
         /\ Env(C, p, m, F, l) \in Frames /\ C[l] \in Contexts /\ l \in 0 .. MaxNest
         /\ Standing(u, C, p, m, F, l) /\ Placed(VL(u, l), Env(C, p, m, F, l))
<1>1. /\ u \in Variant /\ n \in 0 .. MaxNest /\ MaxNest \in Nat /\ C[l] \in Contexts /\ p[l] \in Int /\ F \in SUBSET Blames
      /\ Standing(u, C, p, m, F, l)
  BY Layout DEF Nested
<1>2. VL(u, l) \in Variant
  BY <1>1, Levels
<1>3. Walks(VL(u, l), Code(VL(u, l)), Notes(VL(u, l))) /\ Shaped(VL(u, l), Code(VL(u, l)))
  BY <1>2, NotesWalk, CodeShaped
<1>4. C[l].pc \in 1 .. Len(Code(VL(u, l))) + 1
  BY <1>1, <1>3 DEF Standing, Shaped
<1>5. Note(u, C, l) \in Syms /\ Stable(VL(u, l), Note(u, C, l))
  BY <1>3, <1>4 DEF Walks, Note
<1>6. PICK e : e = Env(C, p, m, F, l)
  OBVIOUS
<1>7. e.w = C[l].want /\ e.s = m[C[l].want["RSP"]] /\ e.q = p[l] /\ e.l = l /\ e.F = F
  BY <1>6, EnvFields
<1>8. /\ SlotMeans(VL(u, l), Note(u, C, l), m, e) /\ Placed(VL(u, l), e)
  BY <1>1, <1>6 DEF Standing, Acts
<1>9. e.s \in Int
  BY <1>8, Layout DEF SlotMeans, RaOf
<1>10. C[l].want \in [Regs -> Int] /\ l \in 0 .. MaxNest
  BY <1>1 DEF Contexts
<1>11. e \in Frames
  BY <1>1, <1>6, <1>7, <1>9, <1>10 DEF Frames, Env
<1> QED  BY <1>1, <1>2, <1>5, <1>6, <1>8, <1>10, <1>11

\* What the innermost activation writes does not touch the others.
LEMMA LowerKept ==
  ASSUME NEW u, NEW n, NEW C, NEW p, NEW m, NEW F, Nested(u, n, C, p, m, F), NEW l \in 0 .. n, l < n,
         NEW m2, NEW F2, F \subseteq F2, Spared(VL(u, n), m, m2, Env(C, p, m, F, n)),
         NEW C2, NEW p2, C2[l] = C[l], p2[l] = p[l]
  PROVE  Standing(u, C2, p2, m2, F2, l)
<1>1. /\ VL(u, l) \in Variant /\ Note(u, C, l) \in Syms /\ Stable(VL(u, l), Note(u, C, l))
      /\ Env(C, p, m, F, l) \in Frames /\ Standing(u, C, p, m, F, l) /\ Placed(VL(u, l), Env(C, p, m, F, l))
  BY StandFacts
<1>2. n \in 0 .. n /\ n \in Nat /\ n \in 0 .. MaxNest
  BY Layout DEF Nested
<1>3. /\ VL(u, n) \in Variant /\ Env(C, p, m, F, n) \in Frames /\ Placed(VL(u, n), Env(C, p, m, F, n))
  BY <1>2, StandFacts
<1>4. PICK v, a, e, f : v = VL(u, l) /\ a = Note(u, C, l) /\ e = Env(C, p, m, F, l) /\ f = Env(C, p, m, F, n)
  OBVIOUS
<1>5. /\ e.w = C[l].want /\ e.s = m[C[l].want["RSP"]] /\ e.q = p[l] /\ e.l = l /\ e.F = F /\ At(e) = C[l].want["RSP"]
      /\ f.q = p[n] /\ At(f) = C[n].want["RSP"]
  BY <1>4, EnvFields
<1>6. /\ (Mirrored(v) <=> Mirrored(VL(u, n))) /\ (Stacked(v) <=> Stacked(VL(u, n)))
  <2>1. u \in Variant
    BY DEF Nested
  <2> QED  BY <1>4, <2>1, Levels
<1>7. /\ At(f) < At(e) /\ p[n] >= p[l] + Top(v, a)
      /\ \A j \in 1 .. 3 : a.slot[j] # Any => At(f) < At(e) - j
      /\ a.open => "raced" \in F
  BY <1>2, <1>4, <1>5 DEF Nested, Under, Interrupted
<1>8. /\ At(e) \in Stack /\ At(e) \in Int /\ (\A j \in 1 .. 3 : At(e) - j \in Stack) /\ At(f) \in Int /\ e.q \in Int /\ f.q \in Int
      /\ (~Mirrored(v) => e.q \in Shadow /\ e.q + 1 \in Shadow) /\ (Stacked(v) => e.q > ShadowBase)
      /\ (Mirrored(v) => At(e) + ParOffset \in Shadow)
  <2>1. At(e) - 1 \in Stack /\ At(e) - 2 \in Stack /\ At(e) - 3 \in Stack
    BY <1>1, <1>4, Places
  <2>2. \A j \in 1 .. 3 : At(e) - j \in Stack
    <3> SUFFICES ASSUME NEW j \in 1 .. 3 PROVE At(e) - j \in Stack
      OBVIOUS
    <3>1. j = 1 \/ j = 2 \/ j = 3
      OBVIOUS
    <3> QED  BY <2>1, <3>1
  <2>3. At(f) \in Int /\ f.q \in Int
    BY <1>3, <1>4, Places
  <2> QED  BY <1>1, <1>4, <2>2, <2>3, Places
<1>9. \A x \in Words : m2[x] # m[x] =>
        \/ x \in Stack /\ x <= At(f)
        \/ ~Mirrored(v) /\ x \in {f.q, f.q + 1}
        \/ Stacked(v) /\ x = ShadowBase
        \/ Mirrored(v) /\ x = At(f) + ParOffset
  BY <1>4, <1>6 DEF Spared
<1>10. (~Mirrored(v) => f.q \in Shadow /\ f.q + 1 \in Shadow) /\ (Mirrored(v) => At(f) + ParOffset \in Shadow)
       /\ (Stacked(v) => ShadowBase \in Shadow)
  BY <1>3, <1>4, <1>6, Places
<1>11. \A x \in Stack : x > At(f) => m2[x] = m[x]
  <2> SUFFICES ASSUME NEW x \in Stack, x > At(f), m2[x] # m[x] PROVE FALSE
    OBVIOUS
  <2>1. x \in Words /\ x \in Int /\ x \notin Shadow
    BY WordFacts
  <2>2. ~(x <= At(f))
    BY <1>8, <2>1
  <2> QED  BY <1>9, <1>10, <2>1, <2>2
<1>12. m2[At(e)] = m[At(e)]
  BY <1>7, <1>8, <1>11
<1>13. \A j \in 1 .. 3 : a.slot[j] = Any \/ m2[At(e) - j] = m[At(e) - j]
  <2> SUFFICES ASSUME NEW j \in 1 .. 3, a.slot[j] # Any PROVE m2[At(e) - j] = m[At(e) - j]
    OBVIOUS
  <2>1. At(f) < At(e) - j /\ At(e) - j \in Stack /\ At(e) - j \in Int
    BY <1>7, <1>8, WordFacts
  <2> QED  BY <1>8, <1>11, <2>1
<1>14. ~Mirrored(v) /\ a.ent >= 1 => "raced" \in F2 \/ (m2[e.q] = m[e.q] /\ m2[e.q + 1] = m[e.q + 1])
  <2> SUFFICES ASSUME ~Mirrored(v), a.ent >= 1, "raced" \notin F2 PROVE m2[e.q] = m[e.q] /\ m2[e.q + 1] = m[e.q + 1]
    OBVIOUS
  <2>1. ~a.open /\ a.ent > 0
    BY <1>1, <1>4, <1>7 DEF Syms
  <2>2. Top(v, a) = 2
    BY <1>1, <1>4, <2>1 DEF Stable
  <2>3. f.q >= e.q + 2
    BY <1>5, <1>7, <2>2
  <2>4. e.q \in Words /\ e.q + 1 \in Words /\ e.q \notin Stack /\ e.q + 1 \notin Stack
    BY <1>8, WordFacts
  <2>5. ShadowBase \in Int /\ (Stacked(v) => e.q # ShadowBase /\ e.q + 1 # ShadowBase)
    BY <1>8, Layout
  <2>6. e.q \notin {f.q, f.q + 1} /\ e.q + 1 \notin {f.q, f.q + 1}
    BY <1>8, <2>3
  <2> QED  BY <1>9, <2>4, <2>5, <2>6
<1>15. Mirrored(v) /\ a.mir => m2[At(e) + ParOffset] = m[At(e) + ParOffset]
  <2> SUFFICES ASSUME Mirrored(v) PROVE m2[At(e) + ParOffset] = m[At(e) + ParOffset]
    OBVIOUS
  <2>1. At(e) + ParOffset \in Words /\ At(e) + ParOffset \notin Stack /\ ParOffset \in Int
    BY <1>8, WordFacts, Layout
  <2>2. At(e) + ParOffset # At(f) + ParOffset
    BY <1>7, <1>8, <2>1
  <2>3. ~Stacked(v)
    BY DEF Stacked, Mirrored
  <2> QED  BY <1>9, <2>1, <2>2, <2>3
<1>16. PICK e2 : e2 = Env(C2, p2, m2, F2, l)
  OBVIOUS
<1>17. /\ e2.w = C[l].want /\ e2.s = m2[C[l].want["RSP"]] /\ e2.q = p[l] /\ e2.l = l /\ e2.F = F2
  BY <1>16, EnvFields
<1>18. e2.w = e.w /\ e2.s = e.s /\ e2.q = e.q /\ e2.l = e.l /\ e.F \subseteq e2.F
  BY <1>5, <1>12, <1>17
<1>19. Acts(v, a, e, C[l].regs, m, C[l].zf, C[l].pkru) /\ a \in Syms
  BY <1>1, <1>4 DEF Standing
<1>20. "raced" \in F2 <=> "raced" \in e2.F
  BY <1>17
<1>21. Acts(v, a, e2, C[l].regs, m2, C[l].zf, C[l].pkru)
  BY <1>12, <1>13, <1>14, <1>15, <1>18, <1>19, <1>20, ActsKept
<1>22. Note(u, C2, l) = a
  BY <1>4 DEF Note
<1> QED  BY <1>1, <1>4, <1>16, <1>21, <1>22 DEF Standing

-------------------------------------------------------------------------------
(* The invariant.                                                          *)

\* A step of the innermost activation.
LEMMA TopStep ==
  ASSUME NEW u, NEW n, NEW C, NEW p, NEW m, NEW F, Nested(u, n, C, p, m, F),
         NEW c2 \in Contexts, c2.pc \in 1 .. Len(Code(VL(u, n))), c2.want["RSP"] = C[n].want["RSP"],
         NEW C2, C2 = [C EXCEPT ![n] = c2], NEW m2 \in [Words -> Int], NEW F2 \in SUBSET Blames, F \subseteq F2,
         Spared(VL(u, n), m, m2, Env(C, p, m, F, n)),
         Live(VL(u, n), Notes(VL(u, n))[c2.pc], Env(C2, p, m2, F2, n), c2.regs, m2, c2.zf, c2.pkru)
  PROVE  Nested(u, n, C2, p, m2, F2)
<1>1. /\ u \in Variant /\ n \in 0 .. MaxNest /\ n \in Nat /\ n \in 0 .. n /\ C \in [0 .. n -> Contexts] /\ p \in [0 .. n -> Int]
      /\ p[0] = P0(u)
  BY Layout DEF Nested
<1>2. C2 \in [0 .. n -> Contexts] /\ C2[n] = c2 /\ \A l \in 0 .. n : l # n => C2[l] = C[l]
  BY <1>1
<1>3. \A l \in 0 .. n : C2[l].want["RSP"] = C[l].want["RSP"]
  BY <1>2
<1>4. Note(u, C2, n) = Notes(VL(u, n))[c2.pc]
  BY <1>2 DEF Note
<1>5. \A l \in 0 .. n : l # n => Note(u, C2, l) = Note(u, C, l)
  BY <1>2 DEF Note
<1>6. ASSUME NEW l \in 0 .. n PROVE Standing(u, C2, p, m2, F2, l)
  <2>1. CASE l = n
    <3>1. Acts(VL(u, n), Note(u, C2, n), Env(C2, p, m2, F2, n), c2.regs, m2, c2.zf, c2.pkru)
      BY <1>4 DEF Live
    <3>2. C[n].want["RSP"] >= 4 + Room(n)
      BY <1>1 DEF Nested, Standing
    <3> QED  BY <1>2, <2>1, <3>1, <3>2 DEF Standing
  <2>2. CASE l # n
    <3>1. l < n /\ C2[l] = C[l]
      BY <1>1, <1>2, <2>2
    <3> QED  BY <3>1, LowerKept
  <2> QED  BY <2>1, <2>2
<1>7. ASSUME NEW l \in 0 .. n, NEW k \in 0 .. n, l < k PROVE Under(u, C2, p, l, k)
  <2>1. Under(u, C, p, l, k) /\ l # n
    BY <1>1, <1>7 DEF Nested
  <2>2. C2[l].want["RSP"] = C[l].want["RSP"] /\ C2[k].want["RSP"] = C[k].want["RSP"] /\ Note(u, C2, l) = Note(u, C, l)
    BY <1>3, <1>5, <2>1
  <2> QED  BY <2>1, <2>2 DEF Under
<1>8. ASSUME NEW l \in 0 .. n, l < n PROVE Interrupted(u, C2, p, F2, l)
  <2>0. l # n
    BY <1>1, <1>8
  <2>1. Interrupted(u, C, p, F, l) /\ Note(u, C2, l) = Note(u, C, l)
    BY <1>1, <1>5, <1>8, <2>0 DEF Nested
  <2> QED  BY <2>1 DEF Interrupted
<1>9. Shared(VL(u, n), Note(u, C2, n), m2, Env(C2, p, m2, F2, n))
  BY <1>4 DEF Live
<1> QED  BY <1>1, <1>2, <1>6, <1>7, <1>8, <1>9 DEF Nested

Present == [regs |-> regs, zf |-> zf, pkru |-> pkru, pc |-> pc, want |-> want]
CtxOf == [l \in 0 .. Level |-> IF l = Level THEN Present ELSE saved[l + 1]]
Flags == {f \in Blames : \/ f = "raced" /\ Hit(Exposed)
                         \/ f = "early" /\ Hit(Unloaded)
                         \/ f = "altered" /\ altered}
Tower(p) == Nested(variant, Level, CtxOf, p, mem, Flags)
IInv ==
  /\ variant \in Variants /\ saved \in Seq(Contexts)
  /\ status = "run" => \E p : Tower(p)
  /\ SafeReturn /\ TrapBlame /\ KillBlame /\ AccessGranted /\ PointerBalanced

\* The flags are what the histories say.
LEMMA FlagFacts ==
  /\ Flags \in SUBSET Blames
  /\ "raced" \in Flags <=> Hit(Exposed)
  /\ "early" \in Flags <=> Hit(Unloaded)
  /\ "altered" \in Flags <=> altered
BY DEF Flags, Blames

\* The code the machine runs.
LEMMA InstrIs ==
  ASSUME variant \in Variants
  PROVE  /\ Instr = Code(VL(variant, Level))[pc] /\ Running = VL(variant, Level) /\ variant \in Variant
         /\ \A l : CodeOf[VL(variant, l)] = Code(VL(variant, l))
<1>1. variant \in Variant
  BY LayoutAssumption
<1>2. \A l : VL(variant, l) \in Variants \cup {HandlerOf(v) : v \in Variants}
  BY DEF VL
<1>3. \A l : CodeOf[VL(variant, l)] = Code(VL(variant, l))
  BY <1>2 DEF CodeOf
<1>4. Running = VL(variant, Level)
  BY DEF Running, VL, Handler
<1> QED  BY <1>1, <1>3, <1>4 DEF Instr

\* The contexts of the levels.
LEMMA LevelFacts ==
  ASSUME saved \in Seq(Contexts)
  PROVE  /\ Level \in Nat /\ Level \in 0 .. Level /\ CtxOf[Level] = Present
         /\ \A l \in 0 .. Level : l # Level => CtxOf[l] = saved[l + 1] /\ l + 1 \in 1 .. Level
<1>1. Level \in Nat
  BY DEF Level
<1>2. \A l \in 0 .. Level : CtxOf[l] = IF l = Level THEN Present ELSE saved[l + 1]
  BY DEF CtxOf
<1>3. Level \in 0 .. Level /\ \A l \in 0 .. Level : l # Level => l + 1 \in 1 .. Level
  BY <1>1
<1> QED  BY <1>1, <1>2, <1>3

\* Where the innermost activation stands.
LEMMA Stands ==
  ASSUME IInv, status = "run", NEW p, Tower(p), NEW v, v = VL(variant, Level),
         NEW a, a = Notes(v)[pc], NEW b, b = Notes(v)[pc + 1], NEW e, e = Env(CtxOf, p, mem, Flags, Level)
  PROVE  /\ Pre(v, a, e) /\ b \in Syms /\ Stable(v, b) /\ Rule(v, Instr, a, b) /\ Plain(Instr, a)
         /\ Before(v, Code(v), a, pc) /\ pc \in 1 .. Len(Code(v)) /\ pc \in Nat
         /\ Shaped(v, Code(v)) /\ Instr = Code(v)[pc]
<1>1. saved \in Seq(Contexts) /\ variant \in Variants
  BY DEF IInv
<1>2. Level \in Nat /\ Level \in 0 .. Level /\ CtxOf[Level] = Present
  BY <1>1, LevelFacts
<1>3. Nested(variant, Level, CtxOf, p, mem, Flags)
  BY DEF Tower
<1>4. PICK u, n, C, m, F : u = variant /\ n = Level /\ C = CtxOf /\ m = mem /\ F = Flags
  OBVIOUS
<1>5. Nested(u, n, C, p, m, F) /\ n \in 0 .. n /\ v = VL(u, n) /\ e = Env(C, p, m, F, n)
  BY <1>2, <1>3, <1>4
<1>6. C[n].pc = pc /\ C[n].regs = regs /\ C[n].zf = zf /\ C[n].pkru = pkru /\ C[n].want = want
  BY <1>2, <1>4 DEF Present
<1>7. Note(u, C, n) = a
  BY <1>5, <1>6 DEF Note
<1>8. /\ v \in Variant /\ a \in Syms /\ Stable(v, a) /\ e \in Frames /\ C[n] \in Contexts /\ n \in 0 .. MaxNest
      /\ Standing(u, C, p, m, F, n)
  BY <1>5, <1>7, StandFacts
<1>9. pc \in 1 .. Len(Code(v)) /\ Acts(v, a, e, regs, mem, zf, pkru)
  BY <1>4, <1>5, <1>6, <1>7, <1>8 DEF Standing
<1>10. Shared(v, a, mem, e) /\ mem \in [Words -> Int]
  BY <1>4, <1>5, <1>7 DEF Nested
<1>11. Typed(e, regs, mem, zf, pkru)
  BY <1>6, <1>8, <1>10 DEF Typed, Contexts
<1>12. Live(v, a, e, regs, mem, zf, pkru)
  BY <1>9, <1>10, <1>11 DEF Live
<1>13. e.q = p[n] /\ p[0] = P0(u) /\ u \in Variant
  BY <1>5, EnvFields DEF Nested
<1>14. v.mpk = variant.mpk /\ (v.load => e.q = P0(v))
  BY <1>4, <1>5, <1>13, Levels
<1>15. Pre(v, a, e)
  BY <1>8, <1>12, <1>14 DEF Pre
<1>16. Walks(v, Code(v), Notes(v)) /\ Shaped(v, Code(v))
  BY <1>8, NotesWalk, CodeShaped
<1>17. pc \in 1 .. Len(Code(v)) + 1 /\ pc + 1 \in 1 .. Len(Code(v)) + 1 /\ pc \in Nat
  BY <1>9, <1>16 DEF Shaped
<1>18. Instr = Code(v)[pc]
  BY <1>1, InstrIs
<1>19. b \in Syms /\ Stable(v, b) /\ Rule(v, Instr, a, b) /\ Plain(Instr, a)
  BY <1>9, <1>16, <1>17, <1>18 DEF Walks
<1>20. Before(v, Code(v), a, pc)
  BY <1>8, <1>17, NotesFacts
<1> QED  BY <1>9, <1>15, <1>16, <1>17, <1>18, <1>19, <1>20

\* Signals of the past stay where they were.
LEMMA HitSame ==
  ASSUME UNCHANGED <<hits, variant>>
  PROVE  Hit(Exposed)' = Hit(Exposed) /\ Hit(Unloaded)' = Hit(Unloaded) /\ Hit(ZeroRsp)' = Hit(ZeroRsp)
<1>1. Hit(Exposed)' = Hit(Exposed)
  BY DEF Hit, Handler, Exposed
<1>2. Hit(Unloaded)' = Hit(Unloaded)
  BY DEF Hit, Handler, Unloaded
<1>3. Hit(ZeroRsp)' = Hit(ZeroRsp)
  BY DEF Hit, Handler, ZeroRsp
<1> QED  BY <1>1, <1>2, <1>3

\* And are never forgotten.
LEMMA HitGrows ==
  ASSUME hits \subseteq hits', variant' = variant
  PROVE  (Hit(Exposed) => Hit(Exposed)') /\ (Hit(Unloaded) => Hit(Unloaded)') /\ (Hit(ZeroRsp) => Hit(ZeroRsp)')
<1>1. Hit(Exposed) => Hit(Exposed)'
  BY DEF Hit, Handler, Exposed
<1>2. Hit(Unloaded) => Hit(Unloaded)'
  BY DEF Hit, Handler, Unloaded
<1>3. Hit(ZeroRsp) => Hit(ZeroRsp)'
  BY DEF Hit, Handler, ZeroRsp
<1> QED  BY <1>1, <1>2, <1>3

\* Nor are the flags.
LEMMA FlagsGrow ==
  ASSUME hits \subseteq hits', variant' = variant, altered => altered'
  PROVE  Flags \subseteq Flags'
<1>1. \A f : f \in Flags => f \in Blames /\ (\/ f = "raced" /\ Hit(Exposed)
                                             \/ f = "early" /\ Hit(Unloaded)
                                             \/ f = "altered" /\ altered)
  BY DEF Flags
<1>2. \A f : (f \in Blames /\ (\/ f = "raced" /\ Hit(Exposed)'
                               \/ f = "early" /\ Hit(Unloaded)'
                               \/ f = "altered" /\ altered')) => f \in Flags'
  BY DEF Flags
<1>3. (Hit(Exposed) => Hit(Exposed)') /\ (Hit(Unloaded) => Hit(Unloaded)')
  BY HitGrows
<1> QED  BY <1>1, <1>2, <1>3

\* The flags after a step.
LEMMA NextFlags ==
  /\ Flags' \in SUBSET Blames
  /\ "raced" \in Flags' <=> Hit(Exposed)'
  /\ "early" \in Flags' <=> Hit(Unloaded)'
  /\ "altered" \in Flags' <=> altered'
BY DEF Flags, Blames

\* A signal where the machine stands.
LEMMA HitNow ==
  ASSUME variant \in Variants, variant' = variant, <<Level, pc>> \in hits'
  PROVE  /\ pc \in Exposed(VL(variant, Level)) => Hit(Exposed)'
         /\ pc \in Unloaded(VL(variant, Level)) => Hit(Unloaded)'
         /\ pc \in ZeroRsp(VL(variant, Level)) => Hit(ZeroRsp)'
<1>1. PICK h \in hits' : h = <<Level, pc>>
  OBVIOUS
<1>2. h[1] = Level /\ h[2] = pc
  BY <1>1
<1>3. PICK w : w = VL(variant, Level)
  OBVIOUS
<1>4. w = IF h[1] = 0 THEN variant' ELSE HandlerOf(variant')
  BY <1>2, <1>3 DEF VL
<1>5. h[2] \in Exposed(w) => Hit(Exposed)'
  BY <1>4 DEF Hit, Handler, Exposed
<1>6. h[2] \in Unloaded(w) => Hit(Unloaded)'
  BY <1>4 DEF Hit, Handler, Unloaded
<1>7. h[2] \in ZeroRsp(w) => Hit(ZeroRsp)'
  BY <1>4 DEF Hit, Handler, ZeroRsp
<1> QED  BY <1>2, <1>3, <1>5, <1>6, <1>7

\* One step of the innermost activation that keeps the nesting.
LEMMA Stays ==
  ASSUME IInv, status = "run", NEW p, Tower(p), NEW v, v = VL(variant, Level),
         NEW k, k \in 1 .. Len(Code(v)), k \in Nat, pc' = k, variant' = variant, saved' = saved,
         hits' = hits, altered => altered', want' \in [Regs -> Int], want'["RSP"] = want["RSP"],
         NEW e, e = Env(CtxOf, p, mem, Flags, Level), Spared(v, mem, mem', e),
         NEW e2, e2.w = want', e2.s = mem'[want'["RSP"]], e2.q = e.q, e2.l = e.l, e2.F = Flags', e2 \in Frames,
         Live(v, Notes(v)[k], e2, regs', mem', zf', pkru')
  PROVE  Tower(p)'
<1>1. saved \in Seq(Contexts) /\ variant \in Variants
  BY DEF IInv
<1>2. Level \in Nat /\ Level \in 0 .. Level /\ CtxOf[Level] = Present /\ Level' = Level
  BY <1>1, LevelFacts DEF Level
<1>3. Nested(variant, Level, CtxOf, p, mem, Flags)
  BY DEF Tower
<1>4. PICK u, n, C, m, F : u = variant /\ n = Level /\ C = CtxOf /\ m = mem /\ F = Flags
  OBVIOUS
<1>5. PICK c2, C2, m2, F2 : c2 = Present' /\ C2 = CtxOf' /\ m2 = mem' /\ F2 = Flags'
  OBVIOUS
<1>6. Nested(u, n, C, p, m, F) /\ n \in 0 .. n /\ v = VL(u, n) /\ e = Env(C, p, m, F, n)
  BY <1>2, <1>3, <1>4
<1>7. c2.regs = regs' /\ c2.zf = zf' /\ c2.pkru = pkru' /\ c2.pc = k /\ c2.want = want'
      /\ c2 = [regs |-> c2.regs, zf |-> c2.zf, pkru |-> c2.pkru, pc |-> c2.pc, want |-> c2.want]
  BY <1>5 DEF Present
<1>8. C[n].want = want
  BY <1>2, <1>4 DEF Present
<1>9. Typed(e2, regs', mem', zf', pkru')
  BY DEF Live
<1>10. c2 \in Contexts
  <2>1. c2.regs \in [Regs -> Int] /\ c2.zf \in BOOLEAN /\ c2.pkru \in {OpenAll, WriteProt, AccessProt} /\ c2.pc \in Nat
        /\ c2.want \in [Regs -> Int]
    BY <1>7, <1>9 DEF Typed
  <2> QED  BY <1>7, <2>1 DEF Contexts
<1>11. C2 = [C EXCEPT ![n] = c2]
  <2>1. C2 = [l \in 0 .. n |-> IF l = n THEN c2 ELSE saved[l + 1]]
    BY <1>2, <1>4, <1>5 DEF CtxOf
  <2>2. C = [l \in 0 .. n |-> IF l = n THEN Present ELSE saved[l + 1]]
    BY <1>4 DEF CtxOf
  <2> QED  BY <2>1, <2>2
<1>12. m2 \in [Words -> Int] /\ F2 \in SUBSET Blames /\ F \subseteq F2
  <2>1. Flags \subseteq Flags'
    BY FlagsGrow
  <2> QED  BY <1>4, <1>5, <1>9, <2>1, NextFlags DEF Typed
<1>13. Spared(v, m, m2, e)
  BY <1>4, <1>5
<1>14. PICK e3 : e3 = Env(C2, p, m2, F2, n)
  OBVIOUS
<1>15. e3 = e2
  <2>1. C2[n] = c2
    BY <1>6, <1>11 DEF Nested
  <2>2. e.q = p[n] /\ e.l = n
    BY <1>6, EnvFields
  <2>3. e3 = [w |-> want', s |-> m2[want'["RSP"]], q |-> p[n], l |-> n, F |-> F2]
    BY <1>7, <1>14, <2>1 DEF Env
  <2>4. e2 = [w |-> e2.w, s |-> e2.s, q |-> e2.q, l |-> e2.l, F |-> e2.F]
    BY DEF Frames
  <2> QED  BY <1>5, <2>2, <2>3, <2>4
<1>16. Live(v, Notes(v)[c2.pc], e3, c2.regs, m2, c2.zf, c2.pkru)
  BY <1>5, <1>7, <1>15
<1>17. c2.pc \in 1 .. Len(Code(v)) /\ c2.want["RSP"] = C[n].want["RSP"]
  BY <1>7, <1>8
<1>18. Nested(u, n, C2, p, m2, F2)
  BY <1>6, <1>10, <1>11, <1>12, <1>13, <1>14, <1>16, <1>17, TopStep
<1>19. Nested(variant', Level', CtxOf', p, mem', Flags')
  BY <1>2, <1>4, <1>5, <1>18
<1> QED  BY <1>19 DEF Tower

-------------------------------------------------------------------------------
(* Every action keeps it.                                                  *)

\* The next instruction is there, as the last one is <<"back">>.
LEMMA NextInstr ==
  ASSUME NEW v, NEW k \in 1 .. Len(Code(v)), Shaped(v, Code(v)), Code(v)[k][1] # "back"
  PROVE  k + 1 \in 1 .. Len(Code(v)) /\ k + 1 \in Nat
<1>1. Len(Code(v)) \in Nat /\ Code(v)[Len(Code(v))][1] = "back"
  BY DEF Shaped
<1>2. k # Len(Code(v))
  BY <1>1
<1> QED  BY <1>1, <1>2

\* The properties of the ways to stop hold as long as the machine runs.
LEMMA RunsOn ==
  ASSUME status' = "run"
  PROVE  SafeReturn' /\ TrapBlame' /\ KillBlame' /\ AccessGranted' /\ PointerBalanced'
BY DEF SafeReturn, TrapBlame, KillBlame, AccessGranted, PointerBalanced

\* The machine stopped at a trap or an unmapped word, for a reason.
LEMMA Stopped ==
  ASSUME status' \in {"trap", "segv"}, status' = "trap" => altered' \/ Hit(Exposed)', status' = "segv" => Hit(Unloaded)'
  PROVE  SafeReturn' /\ TrapBlame' /\ KillBlame' /\ AccessGranted' /\ PointerBalanced'
BY DEF SafeReturn, TrapBlame, KillBlame, AccessGranted, PointerBalanced

\* An instruction of a prolog or an epilog keeps the invariant.
LEMMA StepKeeps ==
  ASSUME IInv, Step
  PROVE  IInv'
<1>1. /\ variant \in Variants /\ saved \in Seq(Contexts) /\ status = "run" /\ Instr[1] \notin {"body", "back", "jmp"}
      /\ Exec(Instr) /\ pc' = pc + 1 /\ UNCHANGED <<variant, saved, want, hits, altered>>
  BY DEF IInv, Step, Advance
<1>2. PICK p : Tower(p)
  BY <1>1 DEF IInv
<1>3. PICK v, a, b, e : /\ v = VL(variant, Level) /\ a = Notes(v)[pc] /\ b = Notes(v)[pc + 1]
                        /\ e = Env(CtxOf, p, mem, Flags, Level)
  OBVIOUS
<1>4. /\ Pre(v, a, e) /\ b \in Syms /\ Rule(v, Instr, a, b) /\ pc \in 1 .. Len(Code(v)) /\ pc \in Nat
      /\ Shaped(v, Code(v)) /\ Instr = Code(v)[pc]
  BY <1>1, <1>2, <1>3, Stands
<1>5. Instr # <<"body">> /\ Instr # <<"back">> /\ Instr # <<"jmp", "R10">>
  BY <1>1
<1>6. PICK i : i = Instr
  OBVIOUS
<1>7. Sound(v, b, e)
  <2>1. Exec(i) /\ Rule(v, i, a, b) /\ i # <<"body">> /\ i # <<"back">> /\ i # <<"jmp", "R10">>
    BY <1>1, <1>4, <1>5, <1>6
  <2> QED  BY <1>4, <2>1, SoundStep
<1>8. CtxOf[Level] = Present /\ Present.want = want
  BY <1>1, LevelFacts DEF Present
<1>9. e.w = want /\ e.F = Flags /\ e.q = p[Level] /\ e.l = Level /\ e.s = mem[want["RSP"]] /\ At(e) = want["RSP"]
  BY <1>3, <1>8, EnvFields
<1>10. variant' \in Variants /\ saved' \in Seq(Contexts)
  BY <1>1
<1>11. CASE status' = "run" /\ Live(v, b, e, regs', mem', zf', pkru') /\ Spared(v, mem, mem', e)
  <2>1. SlotMeans(v, b, mem', e) /\ e \in Frames
    BY <1>11 DEF Live, Acts, Typed
  <2>2. e.s = mem'[want'["RSP"]] /\ e.w = want'
    BY <1>1, <1>9, <2>1 DEF SlotMeans
  <2>3. Flags' = Flags
    BY <1>1, HitSame DEF Flags
  <2>4. PICK k : k = pc + 1
    OBVIOUS
  <2>5. k \in 1 .. Len(Code(v)) /\ k \in Nat /\ pc' = k
    BY <1>1, <1>4, <2>4, NextInstr
  <2>6. want' \in [Regs -> Int] /\ want'["RSP"] = want["RSP"]
    BY <1>1, <1>9, <2>1 DEF Frames
  <2>7. Live(v, Notes(v)[k], e, regs', mem', zf', pkru')
    BY <1>3, <1>11, <2>4
  <2>8. e.F = Flags'
    BY <1>9, <2>3
  <2>9. Tower(p)'
    BY <1>1, <1>2, <1>3, <1>11, <2>1, <2>2, <2>5, <2>6, <2>7, <2>8, Stays
  <2> QED  BY <1>10, <1>11, <2>9, RunsOn DEF IInv
<1>12. CASE status' = "trap" /\ ("altered" \in e.F \/ "raced" \in e.F)
  <2>1. altered \/ Hit(Exposed)
    BY <1>9, <1>12, FlagFacts
  <2>2. altered' \/ Hit(Exposed)'
    BY <1>1, <2>1, HitGrows
  <2> QED  BY <1>10, <1>12, <2>2, Stopped DEF IInv
<1>13. CASE status' = "segv" /\ "early" \in e.F
  <2>1. Hit(Unloaded)
    BY <1>9, <1>13, FlagFacts
  <2>2. Hit(Unloaded)'
    BY <1>1, <2>1, HitGrows
  <2> QED  BY <1>10, <1>13, <2>2, Stopped DEF IInv
<1> QED  BY <1>7, <1>11, <1>12, <1>13 DEF Sound

\* Tokens of argument registers are addresses of nothing.
LEMMA Arguments ==
  \A r \in Free : Argument(r) \in Int /\ Argument(r) >= ClaveBase + 10 /\ Argument(r) <= ClaveBase + 14
BY Layout DEF Argument, Free

\* The function's own code leaves the activation as RBody says.
LEMMA BodyLive ==
  ASSUME NEW v, NEW a, NEW e, Pre(v, a, e), NEW i, NEW b \in Syms, RBody(v, i, a, b), a.reg["GS"] = PageOf(v),
         NEW r2,
         r2 = [r \in Regs |-> IF r \in {"RSP", "GS", "R15"} THEN regs[r] ELSE Argument(r) + 10],
         NEW F2 \in SUBSET Blames, e.F \subseteq F2,
         NEW m2, m2 = mem \/ (m2 = [mem EXCEPT ![regs["RSP"]] = Altered] /\ "altered" \in F2),
         NEW e2, e2 = [w |-> r2, s |-> m2[At(e)], q |-> e.q, l |-> e.l, F |-> F2]
  PROVE  Live(v, b, e2, r2, m2, zf, pkru) /\ e2 \in Frames /\ Spared(v, mem, m2, e) /\ r2["RSP"] = At(e)
<1>1. /\ a.fresh /\ (v.mpk => a.pk = "lock") /\ a.reg["RSP"] = Want("RSP", 0)
      /\ a.reg["R15"] = (IF v.scheme = "REG" THEN Ptr(2) ELSE IF v.scheme = "PARR" THEN Ptr(0) ELSE Want("R15", 0))
      /\ b = [a EXCEPT !.reg = [r \in Regs |-> IF r \in {"RSP", "GS", "R15"} THEN a.reg[r] ELSE Want(r, 0)],
                       !.slot = [j \in 1 .. 3 |-> Any], !.zf = FALSE, !.fresh = FALSE]
  BY DEF RBody
<1>2. /\ a \in Syms /\ v \in Variant /\ e \in Frames /\ regs \in [Regs -> Int] /\ mem \in [Words -> Int] /\ Placed(v, e)
      /\ RegsMean(a, regs, e) /\ Live(v, a, e, regs, mem, zf, pkru) /\ "RSP" \in Regs /\ "R15" \in Regs /\ "GS" \in Regs
      /\ e.q \in Int
  BY PreFacts, RegFacts DEF Frames
<1>3. /\ \A r \in Regs : b.reg[r] = IF r \in {"RSP", "GS", "R15"} THEN a.reg[r] ELSE Want(r, 0)
      /\ \A j \in 1 .. 3 : b.slot[j] = Any
      /\ b.ptr = a.ptr /\ b.ent = a.ent /\ b.mir = a.mir /\ b.pk = a.pk /\ ~b.zf /\ ~b.fresh
  BY <1>1, <1>2 DEF Syms
<1>4. \A r \in Regs : r \notin {"RSP", "GS", "R15"} => r \in Free
  BY DEF Regs, Free
<1>5. /\ r2 \in [Regs -> Int]
      /\ \A r \in Regs : r2[r] = IF r \in {"RSP", "GS", "R15"} THEN regs[r] ELSE Argument(r) + 10
  <2>1. \A r \in Regs : (IF r \in {"RSP", "GS", "R15"} THEN regs[r] ELSE Argument(r) + 10) \in Int
    <3> SUFFICES ASSUME NEW r \in Regs PROVE (IF r \in {"RSP", "GS", "R15"} THEN regs[r] ELSE Argument(r) + 10) \in Int
      OBVIOUS
    <3>1. regs[r] \in Int
      BY <1>2
    <3>2. r \notin {"RSP", "GS", "R15"} => Argument(r) \in Int
      BY <1>4, Arguments
    <3> QED  BY <3>1, <3>2
  <2> QED  BY <2>1
<1>6. Means(Want("RSP", 0), regs["RSP"], e)
  BY <1>1, <1>2 DEF RegsMean
<1>7. regs["RSP"] = At(e) /\ At(e) \in Int /\ At(e) \in Stack /\ At(e) \in Words
  BY <1>2, <1>6, MeansHere, Places, WordFacts DEF Here
<1>8. r2["RSP"] = At(e)
  BY <1>2, <1>5, <1>7
<1>9. /\ m2 \in [Words -> Int] /\ \A x \in Words : x # At(e) => m2[x] = mem[x]
      /\ (m2[At(e)] = mem[At(e)] \/ (m2[At(e)] = Altered /\ "altered" \in F2))
  BY <1>2, <1>7, Layout
<1>10. e2.w = r2 /\ e2.s = m2[At(e)] /\ e2.q = e.q /\ e2.l = e.l /\ e2.F = F2 /\ At(e2) = At(e)
  BY <1>8 DEF At
<1>11. mem[At(e)] = e.s /\ e.s = RaOf(e.l) /\ SlotMeans(v, a, mem, e)
  BY <1>1, <1>2 DEF Live, Acts, SlotMeans
<1>12. e2.s \in Int
  BY <1>7, <1>9, <1>10
<1>13. e2 \in Frames
  BY <1>2, <1>5, <1>10, <1>12 DEF Frames
<1>14. Spared(v, mem, m2, e)
  BY <1>7, <1>9 DEF Spared
<1>15. RegsMean(b, r2, e2)
  <2> SUFFICES ASSUME NEW r \in Regs PROVE Means(b.reg[r], r2[r], e2)
    BY DEF RegsMean
  <2>1. Means(Want(r, 0), r2[r], e2)
    BY <1>10, <1>13, MeansWant
  <2>2. CASE r = "GS"
    <3>1. PICK n : PageOf(v) = Lit(n)
      BY DEF PageOf
    <3>2. Means(Lit(n), regs["GS"], e) /\ b.reg["GS"] = Lit(n) /\ r2["GS"] = regs["GS"]
      BY <1>2, <1>3, <1>5, <3>1 DEF RegsMean
    <3>3. Means(Lit(n), r2["GS"], e2)
      BY <3>2 DEF Means, Lit
    <3> QED  BY <2>2, <3>2, <3>3
  <2>3. CASE r = "R15"
    <3>1. b.reg["R15"] = a.reg["R15"] /\ r2["R15"] = regs["R15"] /\ Means(a.reg["R15"], regs["R15"], e)
      BY <1>2, <1>3, <1>5 DEF RegsMean
    <3>2. CASE a.reg["R15"] = Want("R15", 0)
      BY <2>1, <2>3, <3>1, <3>2
    <3>3. CASE a.reg["R15"] = Ptr(0) \/ a.reg["R15"] = Ptr(2)
      BY <1>10, <2>3, <3>1, <3>3 DEF Means, Ptr
    <3> QED  BY <1>1, <3>2, <3>3
  <2>4. CASE r = "RSP"
    BY <1>1, <1>3, <2>1, <2>4
  <2>5. CASE r \notin {"RSP", "GS", "R15"}
    BY <1>3, <2>1, <2>5
  <2> QED  BY <2>2, <2>3, <2>4, <2>5
<1>16. SlotsMean(b, m2, e2)
  BY <1>3 DEF SlotsMean, Means, Any, Tagged
<1>17. FlagMeans(b, zf, e2) /\ KeyMeans(v, b, pkru)
  BY <1>2, <1>3 DEF FlagMeans, KeyMeans, Live, Acts
<1>18. EntryMeans(v, b, m2, e2)
  <2>1. ~Mirrored(v) => m2[e.q] = mem[e.q] /\ m2[e.q + 1] = mem[e.q + 1]
    <3>1. ~Mirrored(v) => e.q \in Shadow /\ e.q + 1 \in Shadow
      BY <1>2, Places
    <3>2. ~Mirrored(v) => e.q \in Words /\ e.q + 1 \in Words /\ e.q # At(e) /\ e.q + 1 # At(e)
      BY <1>7, <3>1, WordFacts
    <3> QED  BY <1>9, <3>2
  <2>2. EntryMeans(v, a, mem, e)
    BY <1>2 DEF Live, Acts
  <2> QED  BY <1>3, <1>10, <2>1, <2>2 DEF EntryMeans
<1>19. MirrorMeans(v, b, m2, e2)
  <2>1. Mirrored(v) => m2[At(e) + ParOffset] = mem[At(e) + ParOffset]
    <3>1. Mirrored(v) => At(e) + ParOffset \in Words /\ At(e) + ParOffset # At(e)
      BY <1>2, <1>7, Places, WordFacts
    <3> QED  BY <1>9, <3>1
  <2>2. MirrorMeans(v, a, mem, e)
    BY <1>2 DEF Live, Acts
  <2> QED  BY <1>3, <1>10, <2>1, <2>2 DEF MirrorMeans
<1>20. SlotMeans(v, b, m2, e2)
  <2>1. e2.s \in {RaOf(e.l), Altered} /\ (e2.s = Altered => "altered" \in F2)
    <3>1. e.s = Altered => "altered" \in e.F
      BY <1>11 DEF SlotMeans
    <3> QED  BY <1>9, <1>10, <1>11, <3>1
  <2> QED  BY <1>3, <1>10, <2>1 DEF SlotMeans
<1>21. Placed(v, e2)
  BY <1>2, <1>10 DEF Placed
<1>22. Shared(v, b, m2, e2)
  <2>1. \A x \in Shadow : m2[x] = mem[x]
    BY <1>7, <1>9, WordFacts
  <2>2. m2[ClaveBase] = mem[ClaveBase] /\ m2[ClaveBase + 2] = mem[ClaveBase + 2]
    <3>1. ClaveBase \in Clave /\ ClaveBase + 2 \in Clave
      BY Layout DEF Clave
    <3> QED  BY <1>7, <1>9, <3>1, WordFacts
  <2>3. Stacked(v) => m2[ShadowBase] = mem[ShadowBase]
    BY <1>2, <2>1, Places
  <2>4. Shared(v, a, mem, e)
    BY <1>2 DEF Live
  <2> QED  BY <1>3, <1>10, <2>1, <2>2, <2>3, <2>4 DEF Shared
<1>23. Typed(e2, r2, m2, zf, pkru)
  BY <1>2, <1>5, <1>9, <1>13 DEF Live, Typed
<1>24. Acts(v, b, e2, r2, m2, zf, pkru)
  BY <1>15, <1>16, <1>17, <1>18, <1>19, <1>20, <1>21 DEF Acts
<1> QED  BY <1>8, <1>13, <1>14, <1>22, <1>23, <1>24 DEF Live

\* And keeps the invariant.
LEMMA BodyKeeps ==
  ASSUME IInv, NEW stray \in BOOLEAN, Body(stray)
  PROVE  IInv'
<1>1. /\ variant \in Variants /\ saved \in Seq(Contexts) /\ status = "run" /\ Instr[1] = "body"
      /\ pc' = pc + 1 /\ UNCHANGED <<variant, zf, pkru, saved, hits, status>>
      /\ altered' = (altered \/ stray) /\ want' = regs'
      /\ regs' = [r \in Regs |-> IF r \in {"RSP", "GS", "R15"} THEN regs[r] ELSE Argument(r) + 10]
      /\ mem' = IF stray THEN [mem EXCEPT ![regs["RSP"]] = Altered] ELSE mem
  BY DEF IInv, Body
<1>2. PICK p : Tower(p)
  BY <1>1 DEF IInv
<1>3. PICK v, a, b, e : /\ v = VL(variant, Level) /\ a = Notes(v)[pc] /\ b = Notes(v)[pc + 1]
                        /\ e = Env(CtxOf, p, mem, Flags, Level)
  OBVIOUS
<1>4. /\ Pre(v, a, e) /\ b \in Syms /\ Rule(v, Instr, a, b) /\ pc \in 1 .. Len(Code(v)) /\ pc \in Nat
      /\ Shaped(v, Code(v)) /\ Instr = Code(v)[pc] /\ Before(v, Code(v), a, pc)
  BY <1>1, <1>2, <1>3, Stands
<1>5. PICK i : i = Instr
  OBVIOUS
<1>6. RBody(v, i, a, b)
  BY <1>1, <1>4, <1>5, RuleHead
<1>7. CtxOf[Level] = Present /\ Present.want = want
  BY <1>1, LevelFacts DEF Present
<1>8. e.w = want /\ e.F = Flags /\ e.q = p[Level] /\ e.l = Level /\ At(e) = want["RSP"]
  BY <1>3, <1>7, EnvFields
<1>9. PICK r2, m2, F2 : r2 = regs' /\ m2 = mem' /\ F2 = Flags'
  OBVIOUS
<1>10. Flags \subseteq Flags' /\ F2 \in SUBSET Blames /\ (stray => "altered" \in F2)
  BY <1>1, <1>9, FlagsGrow, NextFlags
<1>11. PICK e2 : e2 = [w |-> r2, s |-> m2[At(e)], q |-> e.q, l |-> e.l, F |-> F2]
  OBVIOUS
<1>12. Live(v, b, e2, r2, m2, zf, pkru) /\ e2 \in Frames /\ Spared(v, mem, m2, e) /\ r2["RSP"] = At(e)
  <2>1. a.reg["GS"] = PageOf(v)
    BY <1>4 DEF Before
  <2>2. r2 = [r \in Regs |-> IF r \in {"RSP", "GS", "R15"} THEN regs[r] ELSE Argument(r) + 10]
    BY <1>1, <1>9
  <2>3. m2 = mem \/ (m2 = [mem EXCEPT ![regs["RSP"]] = Altered] /\ "altered" \in F2)
    BY <1>1, <1>9, <1>10
  <2>4. e.F \subseteq F2 /\ F2 \in SUBSET Blames
    BY <1>8, <1>9, <1>10
  <2>5. Pre(v, a, e) /\ b \in Syms
    BY <1>4
  <2> QED  BY <1>6, <1>11, <2>1, <2>2, <2>3, <2>4, <2>5, BodyLive
<1>13. PICK k : k = pc + 1
  OBVIOUS
<1>14. k \in 1 .. Len(Code(v)) /\ k \in Nat /\ pc' = k
  <2>1. Code(v)[pc][1] # "back"
    BY <1>1, <1>4
  <2> QED  BY <1>1, <1>4, <1>13, <2>1, NextInstr
<1>15. e2.w = want' /\ e2.s = mem'[want'["RSP"]] /\ e2.q = e.q /\ e2.l = e.l /\ e2.F = Flags'
  BY <1>1, <1>9, <1>11, <1>12
<1>16. want' \in [Regs -> Int] /\ want'["RSP"] = want["RSP"]
  <2>1. e2.w \in [Regs -> Int]
    BY <1>12 DEF Frames
  <2>2. want' = r2
    BY <1>1, <1>9
  <2> QED  BY <1>8, <1>12, <1>15, <2>1, <2>2
<1>17. Live(v, Notes(v)[k], e2, regs', mem', zf', pkru') /\ Spared(v, mem, mem', e)
  BY <1>1, <1>3, <1>9, <1>12, <1>13
<1>18. altered => altered'
  BY <1>1
<1>19. Tower(p)'
  BY <1>1, <1>2, <1>3, <1>12, <1>14, <1>15, <1>16, <1>17, <1>18, Stays
<1>20. status' = "run" /\ variant' \in Variants /\ saved' \in Seq(Contexts)
  BY <1>1
<1> QED  BY <1>19, <1>20, RunsOn DEF IInv

\* A signal at the innermost level n: context c, note a, the handler's slot x,
\* its context d.
Delivered(u, n, C, p, m, F, c, a, x, d, C2, p2, m2, F2) ==
  /\ Nested(u, n, C, p, m, F) /\ n < MaxNest /\ c = C[n] /\ a = Note(u, C, n)
  /\ x = c.regs["RSP"] - RedZone - 1 /\ x \in Stack
  /\ d.regs = [c.regs EXCEPT !["RSP"] = x] /\ d.zf = c.zf /\ d.pkru = (IF u.mpk THEN AccessProt ELSE c.pkru)
  /\ d.pc = 1 /\ d.want = d.regs /\ d \in Contexts
  /\ C2 = [l \in 0 .. n + 1 |-> IF l = n + 1 THEN d ELSE C[l]]
  /\ p2 = [l \in 0 .. n + 1 |-> IF l = n + 1 THEN p[n] + Top(VL(u, n), a) ELSE p[l]]
  /\ m2 = [m EXCEPT ![x] = Restorer]
  /\ F \subseteq F2 /\ F2 \in SUBSET Blames
  /\ a.open => "raced" \in F2
  /\ a.reg["R15"] = Unset => "early" \in F2

\* Where rsp stands when a handler can be entered.
LEMMA SignalRsp ==
  ASSUME NEW v \in Variant, NEW a \in Syms, Stable(v, a), NEW e \in Frames, NEW r \in [Regs -> Int], RegsMean(a, r, e),
         Placed(v, e), NEW x, x = r["RSP"] - RedZone - 1, x \in Stack
  PROVE  /\ r["RSP"] \in Int /\ x < At(e) - 2 /\ x >= At(e) - RedZone - 3
         /\ \A j \in 1 .. 3 : a.slot[j] # Any => x < At(e) - j
<1>1. r["RSP"] \in Int /\ At(e) \in Int /\ Means(a.reg["RSP"], r["RSP"], e) /\ At(e) = e.w["RSP"]
  BY RegFacts, Places DEF RegsMean, At
<1>2. RedZone \in Int /\ RedZone >= 3 /\ NullPage = 0 /\ x >= 1
  BY Layout, WordFacts
<1>3. CASE a.reg["RSP"] = Want("RSP", 1) /\ \A j \in 1 .. 3 : a.slot[j] = Any
  <2>1. r["RSP"] = At(e) + 1
    BY <1>1, <1>3 DEF Means, Want
  <2> QED  BY <1>1, <1>2, <1>3, <2>1
<1>4. CASE a.reg["RSP"] \in {Want("RSP", -2), Want("RSP", -1), Here, Lit(0), Choice, Sure}
  <2>1. r["RSP"] <= At(e) /\ r["RSP"] >= At(e) - 2
    <3>1. CASE a.reg["RSP"] \in {Want("RSP", -2), Want("RSP", -1), Here}
      <4>1. r["RSP"] = At(e) - 2 \/ r["RSP"] = At(e) - 1 \/ r["RSP"] = At(e)
        BY <1>1, <3>1 DEF Means, Want, Here
      <4> QED  BY <1>1, <4>1
    <3>2. CASE a.reg["RSP"] = Lit(0)
      <4>1. r["RSP"] = 0
        BY <1>1, <3>2 DEF Means, Lit
      <4> QED  BY <1>2, <4>1
    <3>3. CASE a.reg["RSP"] \in {Choice, Sure}
      <4>1. r["RSP"] = At(e) \/ r["RSP"] = NullPage
        BY <1>1, <3>3 DEF Means, Choice, Sure, Tagged
      <4> QED  BY <1>1, <1>2, <4>1
    <3> QED  BY <1>4, <3>1, <3>2, <3>3
  <2>2. x < At(e) - 3 /\ x >= At(e) - RedZone - 3
    BY <1>1, <1>2, <2>1
  <2>3. \A j \in 1 .. 3 : x < At(e) - j
    BY <1>1, <1>2, <2>2
  <2> QED  BY <1>1, <1>2, <2>2, <2>3
<1> QED  BY <1>3, <1>4 DEF Stable

\* What the delivery says, in short.
LEMMA DeliveredFacts ==
  ASSUME NEW u, NEW n, NEW C, NEW p, NEW m, NEW F, NEW c, NEW a, NEW x, NEW d, NEW C2, NEW p2, NEW m2, NEW F2,
         Delivered(u, n, C, p, m, F, c, a, x, d, C2, p2, m2, F2),
         NEW e, e = Env(C, p, m, F, n)
  PROVE  /\ n \in Nat /\ n \in 0 .. n /\ n + 1 \in 0 .. MaxNest /\ u \in Variant
         /\ VL(u, n) \in Variant /\ a \in Syms /\ Stable(VL(u, n), a) /\ e \in Frames /\ c \in Contexts
         /\ Standing(u, C, p, m, F, n) /\ Placed(VL(u, n), e) /\ At(e) \in Int /\ At(e) = c.want["RSP"]
         /\ RegsMean(a, c.regs, e) /\ c.regs \in [Regs -> Int] /\ e.q = p[n] /\ e.l = n /\ e.F = F /\ p[n] \in Int
         /\ x \in Int /\ x < At(e) - 2 /\ x >= At(e) - RedZone - 3
         /\ \A j \in 1 .. 3 : a.slot[j] # Any => x < At(e) - j
         /\ x \in Words /\ m2 \in [Words -> Int] /\ m2[x] = Restorer /\ \A y \in Words : y # x => m2[y] = m[y]
         /\ d.regs["RSP"] = x /\ (\A r \in Regs : r # "RSP" => d.regs[r] = c.regs[r])
<1>1. /\ Nested(u, n, C, p, m, F) /\ n < MaxNest /\ c = C[n] /\ a = Note(u, C, n) /\ x = c.regs["RSP"] - RedZone - 1
      /\ x \in Stack /\ m2 = [m EXCEPT ![x] = Restorer] /\ d.regs = [c.regs EXCEPT !["RSP"] = x]
  BY DEF Delivered
<1>2. n \in Nat /\ n \in 0 .. n /\ n + 1 \in 0 .. MaxNest /\ u \in Variant /\ m \in [Words -> Int] /\ p[n] \in Int
  BY <1>1, Layout DEF Nested
<1>3. /\ VL(u, n) \in Variant /\ a \in Syms /\ Stable(VL(u, n), a) /\ e \in Frames /\ c \in Contexts
      /\ Standing(u, C, p, m, F, n) /\ Placed(VL(u, n), e)
  BY <1>1, <1>2, StandFacts
<1>4. At(e) = c.want["RSP"] /\ e.q = p[n] /\ e.l = n /\ e.F = F
  BY <1>1, EnvFields
<1>5. RegsMean(a, c.regs, e) /\ c.regs \in [Regs -> Int]
  BY <1>1, <1>3 DEF Standing, Acts, Contexts
<1>6. /\ x < At(e) - 2 /\ x >= At(e) - RedZone - 3 /\ \A j \in 1 .. 3 : a.slot[j] # Any => x < At(e) - j
  BY <1>1, <1>3, <1>5, SignalRsp
<1>7. At(e) \in Int
  BY <1>3, Places
<1>8. x \in Int /\ x \in Words
  BY <1>1, WordFacts
<1>9. Restorer \in Int
  BY Layout
<1>10. m2 \in [Words -> Int] /\ m2[x] = Restorer /\ \A y \in Words : y # x => m2[y] = m[y]
  BY <1>1, <1>2, <1>8, <1>9
<1>11. d.regs["RSP"] = x /\ (\A r \in Regs : r # "RSP" => d.regs[r] = c.regs[r])
  BY <1>1, <1>5, RegFacts
<1> QED  BY <1>2, <1>3, <1>4, <1>5, <1>6, <1>7, <1>8, <1>10, <1>11

\* The interrupted activations stand as before.
LEMMA DeliveredLower ==
  ASSUME NEW u, NEW n, NEW C, NEW p, NEW m, NEW F, NEW c, NEW a, NEW x, NEW d, NEW C2, NEW p2, NEW m2, NEW F2,
         Delivered(u, n, C, p, m, F, c, a, x, d, C2, p2, m2, F2), NEW l \in 0 .. n
  PROVE  Standing(u, C2, p2, m2, F2, l) /\ Note(u, C2, l) = Note(u, C, l)
<1>1. PICK e : e = Env(C, p, m, F, n)
  OBVIOUS
<1>2. /\ n \in Nat /\ n \in 0 .. n /\ n + 1 \in 0 .. MaxNest /\ u \in Variant
      /\ VL(u, n) \in Variant /\ a \in Syms /\ e \in Frames
      /\ Standing(u, C, p, m, F, n) /\ Placed(VL(u, n), e) /\ At(e) \in Int /\ At(e) = c.want["RSP"]
      /\ e.q = p[n] /\ e.l = n /\ e.F = F
      /\ x \in Int /\ x < At(e) - 2
      /\ \A j \in 1 .. 3 : a.slot[j] # Any => x < At(e) - j
  BY <1>1, DeliveredFacts
<1>3. \A y \in Words : y # x => m2[y] = m[y]
  BY <1>1, DeliveredFacts
<1>4. Nested(u, n, C, p, m, F) /\ c = C[n] /\ a = Note(u, C, n) /\ x \in Stack /\ F \subseteq F2
  BY DEF Delivered
<1>5. C2[l] = C[l] /\ p2[l] = p[l]
  <2>1. l \in 0 .. n + 1 /\ l # n + 1
    BY <1>2
  <2> QED  BY <2>1 DEF Delivered
<1>6. Note(u, C2, l) = Note(u, C, l)
  BY <1>5 DEF Note
<1>7. CASE l < n
  <2>1. Spared(VL(u, n), m, m2, e)
    BY <1>2, <1>3, <1>4 DEF Spared
  <2> QED  BY <1>1, <1>4, <1>5, <1>6, <1>7, <2>1, LowerKept
<1>8. CASE l = n
  <2>1. PICK v : v = VL(u, n)
    OBVIOUS
  <2>2. PICK e2 : e2 = Env(C2, p2, m2, F2, n)
    OBVIOUS
  <2>3. /\ At(e) \in Stack /\ At(e) - 1 \in Stack /\ At(e) - 2 \in Stack /\ At(e) - 3 \in Stack
        /\ (~Mirrored(v) => e.q \in Shadow /\ e.q + 1 \in Shadow) /\ (Mirrored(v) => At(e) + ParOffset \in Shadow)
    BY <1>2, <2>1, Places
  <2>4. m2[At(e)] = m[At(e)]
    BY <1>2, <1>3, <2>3, WordFacts
  <2>5. \A j \in 1 .. 3 : a.slot[j] = Any \/ m2[At(e) - j] = m[At(e) - j]
    <3> SUFFICES ASSUME NEW j \in 1 .. 3, a.slot[j] # Any PROVE m2[At(e) - j] = m[At(e) - j]
      OBVIOUS
    <3>1. x # At(e) - j
      BY <1>2
    <3>2. At(e) - j \in Stack
      <4>1. j = 1 \/ j = 2 \/ j = 3
        OBVIOUS
      <4> QED  BY <2>3, <4>1
    <3> QED  BY <1>3, <3>1, <3>2, WordFacts
  <2>6. ~Mirrored(v) => m2[e.q] = m[e.q] /\ m2[e.q + 1] = m[e.q + 1]
    BY <1>3, <1>4, <2>3, WordFacts
  <2>7. Mirrored(v) => m2[At(e) + ParOffset] = m[At(e) + ParOffset]
    BY <1>3, <1>4, <2>3, WordFacts
  <2>8. e2.w = c.want /\ e2.s = m2[c.want["RSP"]] /\ e2.q = p[n] /\ e2.l = n /\ e2.F = F2
    BY <1>4, <1>5, <1>8, <2>2, EnvFields
  <2>9. e.w = c.want /\ e.s = m[c.want["RSP"]]
    BY <1>1, <1>4, EnvFields
  <2>10. e2.w = e.w /\ e2.s = e.s /\ e2.q = e.q /\ e2.l = e.l /\ e.F \subseteq e2.F
    BY <1>2, <1>4, <2>4, <2>8, <2>9
  <2>11. Acts(v, a, e, c.regs, m, c.zf, c.pkru)
    BY <1>1, <1>2, <1>4, <2>1 DEF Standing
  <2>12. Acts(v, a, e2, c.regs, m2, c.zf, c.pkru)
    BY <1>2, <2>4, <2>5, <2>6, <2>7, <2>10, <2>11, ActsKept
  <2>13. C2[n] = c /\ c.pc \in 1 .. Len(Code(v)) /\ c.want["RSP"] >= 4 + Room(n)
    BY <1>2, <1>4, <1>5, <1>8, <2>1 DEF Standing
  <2> QED  BY <1>4, <1>6, <1>8, <2>1, <2>2, <2>12, <2>13 DEF Standing
<1> QED  BY <1>2, <1>7, <1>8

\* r15 and the top of the shadow stack where a handler is entered.
LEMMA SignalR15 ==
  ASSUME NEW v \in Variant, NEW k, NEW a \in Syms, Before(v, Code(v), a, k), NEW e \in Frames, NEW r, RegsMean(a, r, e),
         Owned(v)
  PROVE  r["R15"] = e.q + Top(v, a) \/ (r["R15"] = Foreign /\ (a.reg["R15"] = Unset \/ "early" \in e.F))
<1>1. Means(a.reg["R15"], r["R15"], e) /\ e.q \in Int
  BY RegFacts DEF RegsMean, Frames
<1>2. v.scheme = "REG" \/ v.scheme = "PARR"
  BY DEF Owned
<1>3. CASE a.reg["R15"] = Ptr(0)
  <2>1. r["R15"] = e.q /\ Top(v, a) = 0
    BY <1>1, <1>2, <1>3 DEF Means, Ptr, Top, Stacked
  <2> QED  BY <1>1, <2>1
<1>4. CASE a.reg["R15"] = Ptr(2) /\ v.scheme = "REG"
  BY <1>1, <1>4 DEF Means, Ptr, Top
<1>5. CASE a.reg["R15"] = Base
  <2>1. (r["R15"] = e.q \/ (r["R15"] = Foreign /\ "early" \in e.F)) /\ Top(v, a) = 0
    BY <1>1, <1>2, <1>5 DEF Means, Base, Tagged, Top, Stacked
  <2> QED  BY <1>1, <2>1
<1>6. CASE a.reg["R15"] = Unset
  BY <1>1, <1>6 DEF Means, Unset, Tagged
<1> QED  BY <1>3, <1>4, <1>5, <1>6 DEF Before

\* The handler starts like any function.
LEMMA DeliveredTop ==
  ASSUME NEW u, NEW n, NEW C, NEW p, NEW m, NEW F, NEW c, NEW a, NEW x, NEW d, NEW C2, NEW p2, NEW m2, NEW F2,
         Delivered(u, n, C, p, m, F, c, a, x, d, C2, p2, m2, F2)
  PROVE  /\ Standing(u, C2, p2, m2, F2, n + 1)
         /\ Shared(VL(u, n + 1), Note(u, C2, n + 1), m2, Env(C2, p2, m2, F2, n + 1))
         /\ p2[n + 1] = p[n] + Top(VL(u, n), a) /\ p2[n + 1] >= p[n] /\ C2[n + 1] = d
<1>1. PICK e : e = Env(C, p, m, F, n)
  OBVIOUS
<1>2. /\ n \in Nat /\ n \in 0 .. n /\ n + 1 \in 0 .. MaxNest /\ u \in Variant
      /\ VL(u, n) \in Variant /\ a \in Syms /\ Stable(VL(u, n), a) /\ e \in Frames /\ c \in Contexts
      /\ Standing(u, C, p, m, F, n) /\ Placed(VL(u, n), e) /\ At(e) \in Int /\ At(e) = c.want["RSP"]
      /\ RegsMean(a, c.regs, e) /\ c.regs \in [Regs -> Int] /\ e.q = p[n] /\ e.l = n /\ e.F = F /\ p[n] \in Int
      /\ x \in Int /\ x < At(e) - 2 /\ x >= At(e) - RedZone - 3
  BY <1>1, DeliveredFacts
<1>3. /\ x \in Words /\ m2 \in [Words -> Int] /\ m2[x] = Restorer /\ \A y \in Words : y # x => m2[y] = m[y]
      /\ d.regs["RSP"] = x /\ (\A r \in Regs : r # "RSP" => d.regs[r] = c.regs[r])
  BY <1>1, DeliveredFacts
<1>4. /\ Nested(u, n, C, p, m, F) /\ c = C[n] /\ a = Note(u, C, n) /\ x \in Stack /\ F \subseteq F2 /\ F2 \in SUBSET Blames
      /\ d.zf = c.zf /\ d.pkru = (IF u.mpk THEN AccessProt ELSE c.pkru) /\ d.pc = 1 /\ d.want = d.regs /\ d \in Contexts
      /\ (a.reg["R15"] = Unset => "early" \in F2) /\ n < MaxNest
  BY DEF Delivered
<1>5. C2[n + 1] = d /\ p2[n + 1] = p[n] + Top(VL(u, n), a)
  <2>1. n + 1 \in 0 .. n + 1
    BY <1>2
  <2> QED  BY <2>1 DEF Delivered
<1>6. PICK v, h, b, e2 : v = VL(u, n) /\ h = VL(u, n + 1) /\ b = Note(u, C2, n + 1) /\ e2 = Env(C2, p2, m2, F2, n + 1)
  OBVIOUS
<1>7. /\ h \in Variant /\ h.scheme = u.scheme /\ v.scheme = u.scheme /\ h.mpk = u.mpk /\ v.mpk = u.mpk /\ ~h.load
      /\ P0(h) = P0(v) /\ (Mirrored(h) <=> Mirrored(v)) /\ (Stacked(h) <=> Stacked(v))
  <2>1. n + 1 # 0
    BY <1>2
  <2>2. /\ VL(u, n) \in Variant /\ VL(u, n).scheme = u.scheme /\ VL(u, n).mpk = u.mpk /\ P0(VL(u, n)) = P0(u)
        /\ (Mirrored(VL(u, n)) <=> Mirrored(u)) /\ (Stacked(VL(u, n)) <=> Stacked(u))
    BY <1>2, Levels
  <2>3. /\ VL(u, n + 1) \in Variant /\ VL(u, n + 1).scheme = u.scheme /\ VL(u, n + 1).mpk = u.mpk
        /\ (VL(u, n + 1).load \/ VL(u, n + 1).ctor => n + 1 = 0) /\ P0(VL(u, n + 1)) = P0(u)
        /\ (Mirrored(VL(u, n + 1)) <=> Mirrored(u)) /\ (Stacked(VL(u, n + 1)) <=> Stacked(u))
    BY <1>2, Levels
  <2> QED  BY <1>6, <2>1, <2>2, <2>3
<1>8. b = Entered(h)
  <2>1. Notes(h)[1] = Entered(h)
    BY <1>7, NotesWalk
  <2> QED  BY <1>4, <1>5, <1>6, <2>1 DEF Note
<1>9. /\ e2.w = d.want /\ e2.s = m2[x] /\ e2.q = p2[n + 1] /\ e2.l = n + 1 /\ e2.F = F2 /\ At(e2) = x
  BY <1>3, <1>4, <1>5, <1>6, EnvFields
<1>10. Top(v, a) \in {0, 2} /\ (Mirrored(v) => Top(v, a) = 0) /\ (Stacked(v) => Top(v, a) = a.ptr)
  <2>1. Top(v, a) \in {0, 2}
    BY <1>2, <1>6 DEF Stable
  <2> QED  BY <2>1 DEF Top, Mirrored, Stacked
<1>11. e2.q = e.q + Top(v, a) /\ e.q \in Int /\ e2.q \in Int /\ p2[n + 1] >= p[n]
  BY <1>2, <1>5, <1>6, <1>9, <1>10
<1>12. d.regs \in [Regs -> Int]
  BY <1>4 DEF Contexts
<1>13. d.pc \in 1 .. Len(Code(h))
  <2>1. Len(Code(h)) \in Nat /\ Len(Code(h)) >= 1
    BY <1>7, CodeShaped DEF Shaped
  <2> QED  BY <1>4, <2>1
<1>14. x >= 4 + Room(n + 1) /\ x >= 4
  <2>1. c.want["RSP"] >= 4 + Room(n)
    BY <1>4, <1>2 DEF Standing
  <2>2. n \in 0 .. MaxNest
    BY <1>2, <1>4, Layout
  <2>3. Room(n) \in Int /\ Room(n) = Room(n + 1) + RedZone + 3
    BY <1>4, <2>2, RoomStep
  <2>4. Room(n + 1) \in Int /\ Room(n + 1) >= 0
    BY <1>2, RoomStep
  <2>5. RedZone \in Int
    BY Layout
  <2> QED  BY <1>2, <2>1, <2>3, <2>4, <2>5
<1>15. Placed(h, e2)
  <2>1. /\ At(e) <= StackTop /\ e.q >= P0(v) /\ e.q - ShadowBase - 2 <= StackTop - At(e) /\ (Mirrored(v) => e.q = P0(v))
    BY <1>2, <1>6 DEF Placed
  <2>2. StackTop \in Int /\ ShadowBase \in Int
    BY Layout
  <2>3. At(e2) \in 4 .. StackTop /\ e2.l # 0
    BY <1>2, <1>9, <1>14, <2>1, <2>2
  <2>4. v.scheme \in Schemes /\ P0(v) \in Int
    <3>1. v.scheme \in Schemes
      BY <1>2, <1>6 DEF Variant
    <3> QED  BY <3>1, Layout DEF P0, Start
  <2>5. e2.q >= P0(h)
    BY <1>7, <1>10, <1>11, <2>1, <2>4
  <2>6. e2.q - ShadowBase - 2 <= StackTop - At(e2)
    BY <1>2, <1>9, <1>10, <1>11, <2>1, <2>2
  <2>7. Mirrored(h) => e2.q = P0(h)
    BY <1>7, <1>10, <1>11, <2>1
  <2> QED  BY <2>3, <2>5, <2>6, <2>7 DEF Placed
<1>16. n + 1 \in 0 .. MaxNest /\ e2.s \in Int /\ e2 \in Frames
  <2>1. e2.s \in Int
    BY <1>3, <1>9
  <2>2. e2 = [w |-> e2.w, s |-> e2.s, q |-> e2.q, l |-> e2.l, F |-> e2.F]
    BY <1>6, <1>9 DEF Env
  <2> QED  BY <1>2, <1>4, <1>9, <1>11, <1>12, <2>1, <2>2 DEF Frames
<1>17. RegsMean(b, d.regs, e2)
  <2> SUFFICES ASSUME NEW r \in Regs PROVE Means(b.reg[r], d.regs[r], e2)
    BY DEF RegsMean
  <2>1. b.reg[r] = IF r = "GS" THEN PageOf(h) ELSE IF r = "R15" /\ Owned(h) THEN Base ELSE Want(r, 0)
    BY <1>7, <1>8 DEF Entered, PageOf, Owned
  <2>2. Before(v, Code(v), a, c.pc)
    <3>1. c.pc \in 1 .. Len(Code(v)) /\ a = Notes(v)[c.pc]
      BY <1>2, <1>4, <1>6 DEF Standing, Note
    <3>2. c.pc \in 1 .. Len(Code(v)) + 1
      <4>1. Len(Code(v)) \in Nat
        BY <1>2, <1>6, CodeShaped DEF Shaped
      <4> QED  BY <3>1, <4>1
    <3> QED  BY <1>2, <1>6, <3>1, <3>2, NotesFacts
  <2>3. CASE r = "GS"
    <3>1. a.reg["GS"] = PageOf(v) /\ PageOf(h) = PageOf(v)
      BY <1>7, <2>2 DEF Before, PageOf
    <3>2. PICK k : PageOf(v) = Lit(k)
      BY DEF PageOf
    <3>3. Means(Lit(k), c.regs["GS"], e) /\ d.regs["GS"] = c.regs["GS"]
      BY <1>2, <1>3, <3>1, <3>2, RegFacts DEF RegsMean
    <3>4. Means(Lit(k), d.regs["GS"], e2)
      BY <3>3 DEF Means, Lit
    <3> QED  BY <2>1, <2>3, <3>1, <3>2, <3>4
  <2>4. CASE r = "R15" /\ Owned(h)
    <3>1. Owned(v)
      BY <1>7, <2>4 DEF Owned
    <3>2. c.regs["R15"] = e.q + Top(v, a) \/ (c.regs["R15"] = Foreign /\ (a.reg["R15"] = Unset \/ "early" \in e.F))
      <4>1. v \in Variant
        BY <1>2, <1>6
      <4> QED  BY <1>2, <2>2, <3>1, <4>1, SignalR15
    <3>3. d.regs["R15"] = c.regs["R15"]
      BY <1>3, RegFacts
    <3>4. d.regs["R15"] = e2.q \/ (d.regs["R15"] = Foreign /\ "early" \in e2.F)
      BY <1>2, <1>4, <1>9, <1>11, <3>2, <3>3
    <3>5. b.reg["R15"] = Base
      BY <2>1, <2>4
    <3> QED  BY <1>16, <2>4, <3>4, <3>5, MeansTags
  <2>5. CASE r # "GS" /\ ~(r = "R15" /\ Owned(h))
    <3>1. b.reg[r] = Want(r, 0)
      BY <2>1, <2>5
    <3> QED  BY <1>4, <1>9, <1>16, <3>1, MeansWant
  <2> QED  BY <2>3, <2>4, <2>5
<1>18. /\ \A j \in 1 .. 3 : b.slot[j] = Any
       /\ b.ptr = 0 /\ b.ent = 0 /\ ~b.mir /\ b.pk = "any" /\ ~b.zf
  BY <1>8 DEF Entered
<1>19. SlotsMean(b, m2, e2)
  BY <1>18 DEF SlotsMean, Means, Any, Tagged
<1>20. FlagMeans(b, d.zf, e2) /\ EntryMeans(h, b, m2, e2) /\ MirrorMeans(h, b, m2, e2)
  BY <1>18 DEF FlagMeans, EntryMeans, MirrorMeans
<1>21. KeyMeans(h, b, d.pkru)
  <2>1. KeyMeans(v, a, c.pkru)
    BY <1>2, <1>4, <1>6 DEF Standing, Acts
  <2> QED  BY <1>4, <1>7, <1>18, <2>1 DEF KeyMeans
<1>22. SlotMeans(h, b, m2, e2)
  <2>1. e2.s = Restorer /\ e2.l # 0 /\ RaOf(e2.l) = Restorer /\ Restorer # Altered /\ m2[At(e2)] = e2.s
    BY <1>2, <1>3, <1>9, Layout DEF RaOf
  <2> QED  BY <2>1 DEF SlotMeans
<1>23. Acts(h, b, e2, d.regs, m2, d.zf, d.pkru)
  BY <1>15, <1>17, <1>19, <1>20, <1>21, <1>22 DEF Acts
<1>24. Shared(h, b, m2, e2)
  <2>1. Shared(v, a, m, e)
    BY <1>1, <1>4, <1>6 DEF Nested
  <2>2. \A y \in Shadow : m2[y] = m[y]
    BY <1>3, <1>4, WordFacts
  <2>3. m2[ClaveBase] = m[ClaveBase] /\ m2[ClaveBase + 2] = m[ClaveBase + 2]
    <3>1. ClaveBase \in Clave /\ ClaveBase + 2 \in Clave
      BY Layout DEF Clave
    <3> QED  BY <1>3, <1>4, <3>1, WordFacts
  <2>4. Stacked(v) => m2[ShadowBase] = m[ShadowBase]
    BY <1>2, <1>6, <2>2, Places
  <2>5. Stacked(h) => m2[ShadowBase] = e2.q + b.ptr
    <3> SUFFICES ASSUME Stacked(h) PROVE m2[ShadowBase] = e2.q + b.ptr
      OBVIOUS
    <3>1. m[ShadowBase] = e.q + a.ptr /\ Top(v, a) = a.ptr
      BY <1>7, <1>10, <2>1 DEF Shared
    <3> QED  BY <1>7, <1>11, <1>18, <2>4, <3>1
  <2> QED  BY <2>1, <2>2, <2>3, <2>5 DEF Shared
<1>25. Standing(u, C2, p2, m2, F2, n + 1)
  BY <1>3, <1>4, <1>5, <1>6, <1>13, <1>14, <1>23 DEF Standing
<1> QED  BY <1>5, <1>6, <1>11, <1>24, <1>25

\* A handler is entered.
LEMMA DeliverStep ==
  ASSUME NEW u, NEW n, NEW C, NEW p, NEW m, NEW F, NEW c, NEW a, NEW x, NEW d, NEW C2, NEW p2, NEW m2, NEW F2,
         Delivered(u, n, C, p, m, F, c, a, x, d, C2, p2, m2, F2)
  PROVE  Nested(u, n + 1, C2, p2, m2, F2)
<1>1. PICK e : e = Env(C, p, m, F, n)
  OBVIOUS
<1>2. /\ n \in Nat /\ n \in 0 .. n /\ n + 1 \in 0 .. MaxNest /\ u \in Variant /\ At(e) \in Int /\ At(e) = c.want["RSP"]
      /\ p[n] \in Int /\ x \in Int /\ x < At(e) - 2 /\ \A j \in 1 .. 3 : a.slot[j] # Any => x < At(e) - j
  BY <1>1, DeliveredFacts
<1>3. m2 \in [Words -> Int] /\ d.regs["RSP"] = x
  BY <1>1, DeliveredFacts
<1>4. /\ Nested(u, n, C, p, m, F) /\ c = C[n] /\ a = Note(u, C, n) /\ F \subseteq F2 /\ F2 \in SUBSET Blames
      /\ d.want = d.regs /\ d \in Contexts /\ (a.open => "raced" \in F2)
      /\ C2 = [l \in 0 .. n + 1 |-> IF l = n + 1 THEN d ELSE C[l]]
      /\ p2 = [l \in 0 .. n + 1 |-> IF l = n + 1 THEN p[n] + Top(VL(u, n), a) ELSE p[l]]
  BY DEF Delivered
<1>5. /\ Standing(u, C2, p2, m2, F2, n + 1)
      /\ Shared(VL(u, n + 1), Note(u, C2, n + 1), m2, Env(C2, p2, m2, F2, n + 1))
      /\ p2[n + 1] = p[n] + Top(VL(u, n), a) /\ p2[n + 1] >= p[n] /\ C2[n + 1] = d
  BY DeliveredTop
<1>6. /\ C \in [0 .. n -> Contexts] /\ p \in [0 .. n -> Int] /\ p[0] = P0(u)
      /\ \A l \in 0 .. n : \A k \in 0 .. n : l < k => Under(u, C, p, l, k)
      /\ \A l \in 0 .. n : l < n => Interrupted(u, C, p, F, l)
  BY <1>4 DEF Nested
<1>7. ASSUME NEW l \in 0 .. n + 1, l # n + 1 PROVE l \in 0 .. n /\ C2[l] = C[l] /\ p2[l] = p[l]
  <2>1. l \in 0 .. n
    BY <1>2, <1>7
  <2> QED  BY <1>4, <1>7, <2>1
<1>8. p2[n + 1] \in Int
  <2>1. Top(VL(u, n), a) \in {0, 2}
    <3>1. Stable(VL(u, n), a)
      BY <1>1, DeliveredFacts
    <3> QED  BY <3>1 DEF Stable
  <2> QED  BY <1>2, <1>5, <2>1
<1>9. C2 \in [0 .. n + 1 -> Contexts]
  <2>1. \A l \in 0 .. n + 1 : (IF l = n + 1 THEN d ELSE C[l]) \in Contexts
    BY <1>4, <1>6, <1>7
  <2> QED  BY <1>4, <2>1
<1>10. p2 \in [0 .. n + 1 -> Int]
  <2>1. \A l \in 0 .. n + 1 : (IF l = n + 1 THEN p[n] + Top(VL(u, n), a) ELSE p[l]) \in Int
    BY <1>5, <1>6, <1>7, <1>8
  <2> QED  BY <1>4, <2>1
<1>11. p2[0] = P0(u)
  <2>1. 0 \in 0 .. n + 1 /\ 0 # n + 1
    BY <1>2
  <2> QED  BY <1>6, <1>7, <2>1
<1>12. ASSUME NEW l \in 0 .. n PROVE Standing(u, C2, p2, m2, F2, l) /\ Note(u, C2, l) = Note(u, C, l)
  BY DeliveredLower
<1>13. ASSUME NEW l \in 0 .. n + 1 PROVE Standing(u, C2, p2, m2, F2, l)
  <2>1. CASE l = n + 1
    BY <1>5, <2>1
  <2>2. CASE l # n + 1
    BY <1>7, <1>12, <2>2
  <2> QED  BY <2>1, <2>2
<1>14. ASSUME NEW l \in 0 .. n + 1, NEW k \in 0 .. n + 1, l < k PROVE Under(u, C2, p2, l, k)
  <2>1. l \in 0 .. n /\ l # n + 1
    BY <1>2, <1>14
  <2>2. l \in 0 .. n + 1 /\ C2[l] = C[l] /\ p2[l] = p[l] /\ Note(u, C2, l) = Note(u, C, l)
    BY <1>7, <1>12, <2>1
  <2>3. CASE k # n + 1
    <3>1. k \in 0 .. n /\ C2[k] = C[k] /\ p2[k] = p[k]
      BY <1>7, <2>3
    <3>2. Under(u, C, p, l, k)
      BY <1>6, <1>14, <2>1, <3>1
    <3> QED  BY <2>2, <3>1, <3>2 DEF Under
  <2>4. CASE k = n + 1 /\ l = n
    <3>1. C2[k].want["RSP"] = x /\ C2[l].want["RSP"] = At(e) /\ Note(u, C2, l) = a
      BY <1>2, <1>3, <1>4, <1>5, <2>2, <2>4
    <3>2. x < At(e)
      BY <1>2
    <3>3. p2[k] >= p2[l] + Top(VL(u, l), Note(u, C, l))
      BY <1>4, <1>5, <1>8, <2>2, <2>4
    <3> QED  BY <1>2, <1>4, <2>2, <2>4, <3>1, <3>2, <3>3 DEF Under
  <2>5. CASE k = n + 1 /\ l # n
    <3>1. l < n /\ n \in 0 .. n
      BY <1>2, <2>1, <2>5
    <3>2. Under(u, C, p, l, n)
      BY <1>6, <2>1, <3>1
    <3>3. /\ At(e) < C[l].want["RSP"] /\ p[n] >= p[l] + Top(VL(u, l), Note(u, C, l))
          /\ \A j \in 1 .. 3 : Note(u, C, l).slot[j] # Any => At(e) < C[l].want["RSP"] - j
      BY <1>2, <1>4, <3>2 DEF Under
    <3>4. C2[k].want["RSP"] = x
      BY <1>3, <1>4, <1>5, <2>5
    <3>5. C[l].want["RSP"] \in Int /\ p[l] \in Int /\ Top(VL(u, l), Note(u, C, l)) \in Int
      <4>1. Nested(u, n, C, p, m, F)
        BY <1>4
      <4>2. C[l] \in Contexts /\ Stable(VL(u, l), Note(u, C, l))
        BY <2>1, <4>1, StandFacts
      <4>3. C[l].want \in [Regs -> Int] /\ "RSP" \in Regs
        BY <4>2, RegFacts DEF Contexts
      <4>4. Top(VL(u, l), Note(u, C, l)) \in {0, 2}
        BY <4>2 DEF Stable
      <4>5. p[l] \in Int
        BY <1>6, <2>1
      <4> QED  BY <4>3, <4>4, <4>5
    <3>6. x < C[l].want["RSP"] /\ \A j \in 1 .. 3 : Note(u, C, l).slot[j] # Any => x < C[l].want["RSP"] - j
      BY <1>2, <3>3, <3>5
    <3>7. p2[k] >= p2[l] + Top(VL(u, l), Note(u, C, l))
      BY <1>2, <1>5, <1>8, <2>2, <2>5, <3>3, <3>5
    <3> QED  BY <2>2, <3>4, <3>6, <3>7 DEF Under
  <2> QED  BY <2>3, <2>4, <2>5
<1>15. ASSUME NEW l \in 0 .. n + 1, l < n + 1 PROVE Interrupted(u, C2, p2, F2, l)
  <2>1. l \in 0 .. n /\ l # n + 1
    BY <1>2, <1>15
  <2>2. C2[l] = C[l] /\ p2[l] = p[l] /\ Note(u, C2, l) = Note(u, C, l)
    BY <1>7, <1>12, <2>1
  <2>3. CASE l = n
    BY <1>4, <1>5, <2>2, <2>3 DEF Interrupted
  <2>4. CASE l # n
    <3>1. l < n /\ l + 1 \in 0 .. n + 1 /\ l + 1 # n + 1
      BY <1>2, <2>1, <2>4
    <3>2. p2[l + 1] = p[l + 1] /\ Interrupted(u, C, p, F, l)
      BY <1>6, <1>7, <2>1, <3>1
    <3> QED  BY <1>4, <2>2, <3>2 DEF Interrupted
  <2> QED  BY <2>3, <2>4
<1> QED  BY <1>2, <1>3, <1>4, <1>5, <1>9, <1>10, <1>11, <1>13, <1>14, <1>15 DEF Nested

\* The kernel kills the program for a reason.
LEMMA Killed ==
  ASSUME status' = "sigkill", Hit(ZeroRsp)' \/ altered' \/ Hit(Exposed)'
  PROVE  SafeReturn' /\ TrapBlame' /\ KillBlame' /\ AccessGranted' /\ PointerBalanced'
BY DEF SafeReturn, TrapBlame, KillBlame, AccessGranted, PointerBalanced

\* Where rsp stands when the kernel finds no room.
LEMMA NoRoom ==
  ASSUME NEW v \in Variant, NEW a \in Syms, Stable(v, a), NEW e \in Frames, NEW r \in [Regs -> Int], RegsMean(a, r, e),
         NEW l, SlotMeans(v, a, mem, e), At(e) \in 4 .. StackTop, l \in 0 .. MaxNest, l < MaxNest, At(e) >= 4 + Room(l),
         NEW x, x = r["RSP"] - RedZone - 1, x \notin Stack
  PROVE  a.reg["RSP"] = Lit(0) \/ "altered" \in e.F \/ "raced" \in e.F
<1>1. r["RSP"] \in Int /\ At(e) \in Int /\ Means(a.reg["RSP"], r["RSP"], e) /\ At(e) = e.w["RSP"]
  BY Layout, RegFacts DEF RegsMean, At
<1>2. RedZone \in Int /\ RedZone >= 3 /\ NullPage = 0 /\ StackTop \in Int /\ x \in Int
  BY <1>1, Layout
<1>3. Room(l) >= RedZone + 3
  <2>1. l + 1 \in 0 .. MaxNest
    BY Layout
  <2>2. Room(l) = Room(l + 1) + RedZone + 3
    BY RoomStep
  <2>3. Room(l + 1) \in Int /\ Room(l + 1) >= 0
    BY <2>1, RoomStep
  <2> QED  BY <1>2, <2>2, <2>3
<1>4. Room(l) \in Int
  BY RoomStep
<1>5. ~(r["RSP"] >= At(e) - 2 /\ r["RSP"] <= At(e) + 1)
  <2> SUFFICES ASSUME r["RSP"] >= At(e) - 2, r["RSP"] <= At(e) + 1 PROVE FALSE
    OBVIOUS
  <2>1. x >= 1 /\ x <= StackTop
    BY <1>1, <1>2, <1>3, <1>4
  <2> QED  BY <1>2, <2>1 DEF Stack
<1>6. CASE a.reg["RSP"] = Want("RSP", 1)
  <2>1. r["RSP"] = At(e) + 1
    BY <1>1, <1>6 DEF Means, Want
  <2> QED  BY <1>1, <1>5, <2>1
<1>7. CASE a.reg["RSP"] \in {Want("RSP", -2), Want("RSP", -1), Here}
  <2>1. r["RSP"] = At(e) - 2 \/ r["RSP"] = At(e) - 1 \/ r["RSP"] = At(e)
    BY <1>1, <1>7 DEF Means, Want, Here
  <2> QED  BY <1>1, <1>5, <2>1
<1>8. CASE a.reg["RSP"] \in {Choice, Sure}
  <2>1. r["RSP"] # At(e)
    BY <1>1, <1>5
  <2>2. e.s # RaOf(e.l) \/ "raced" \in e.F
    BY <1>1, <1>8, <2>1 DEF Means, Choice, Sure, Tagged
  <2> QED  BY <2>2 DEF SlotMeans
<1> QED  BY <1>6, <1>7, <1>8 DEF Stable

\* The windows the properties name are where the walk says something is amiss.
LEMMA Windows ==
  ASSUME variant \in Variants, NEW v, v = VL(variant, Level), Shaped(v, Code(v)), NEW k \in 1 .. Len(Code(v))
  PROVE  /\ InWindow(v, Code(v), k) => k \in Exposed(v)
         /\ Code(v)[k] = <<"cmove", "RSP", "R10">> => k \in ZeroRsp(v)
         /\ v.load /\ k = 1 => k \in Unloaded(v)
<1>1. CodeOf[v] = Code(v)
  BY InstrIs
<1>2. DOMAIN Code(v) = 1 .. Len(Code(v))
  <2>1. PICK S : Code(v) \in Seq(S)
    BY DEF Shaped
  <2> QED  BY <2>1
<1> QED  BY <1>1, <1>2 DEF InWindow, Exposed, ZeroRsp, Unloaded

\* A signal is blamed on the instruction it arrives at.
LEMMA SignalFlags ==
  ASSUME variant \in Variants, NEW v \in Variant, v = VL(variant, Level), Shaped(v, Code(v)), pc \in 1 .. Len(Code(v)),
         NEW a \in Syms, Before(v, Code(v), a, pc), Plain(Code(v)[pc], a),
         variant' = variant, hits' = hits \cup {<<Level, pc>>}, altered' = altered
  PROVE  /\ Flags \subseteq Flags' /\ Flags' \in SUBSET Blames
         /\ a.open => "raced" \in Flags'
         /\ a.reg["R15"] = Unset => "early" \in Flags'
         /\ a.reg["RSP"] = Lit(0) => Hit(ZeroRsp)'
<1>1. Flags \subseteq Flags' /\ Flags' \in SUBSET Blames
  BY FlagsGrow, NextFlags
<1>2. <<Level, pc>> \in hits'
  OBVIOUS
<1>3. /\ pc \in Exposed(v) => "raced" \in Flags'
      /\ pc \in Unloaded(v) => "early" \in Flags'
      /\ pc \in ZeroRsp(v) => Hit(ZeroRsp)'
  BY <1>2, HitNow, NextFlags
<1>4. PICK k : k = pc
  OBVIOUS
<1>5. /\ InWindow(v, Code(v), k) => k \in Exposed(v)
      /\ Code(v)[k] = <<"cmove", "RSP", "R10">> => k \in ZeroRsp(v)
      /\ v.load /\ k = 1 => k \in Unloaded(v)
  BY <1>4, Windows
<1>6. a.open => "raced" \in Flags'
  BY <1>3, <1>4, <1>5 DEF Before
<1>7. a.reg["R15"] = Unset => "early" \in Flags'
  <2>1. Unset.t = "foreign" /\ Ptr(0).t = "ptr" /\ Ptr(2).t = "ptr" /\ Base.t = "base" /\ Want("R15", 0).t = "want"
    BY DEF Unset, Ptr, Base, Want, Tagged
  <2>2. a.reg["R15"] = Unset => pc = 1 /\ v.load
    BY <2>1 DEF Before
  <2> QED  BY <1>3, <1>4, <1>5, <2>2
<1>8. a.reg["RSP"] = Lit(0) => Hit(ZeroRsp)'
  <2>1. Lit(0).t = "lit"
    BY DEF Lit
  <2> QED  BY <1>3, <1>4, <1>5, <2>1 DEF Plain
<1> QED  BY <1>1, <1>6, <1>7, <1>8

\* A signal keeps the invariant.
LEMMA SignalKeeps ==
  ASSUME IInv, Signal
  PROVE  IInv'
<1>1. /\ variant \in Variants /\ saved \in Seq(Contexts) /\ status = "run" /\ Level < MaxNest
      /\ hits' = hits \cup {<<Level, pc>>} /\ variant' = variant /\ altered' = altered
  BY DEF IInv, Signal
<1>2. PICK p : Tower(p)
  BY <1>1 DEF IInv
<1>3. PICK v, a, b, e : /\ v = VL(variant, Level) /\ a = Notes(v)[pc] /\ b = Notes(v)[pc + 1]
                        /\ e = Env(CtxOf, p, mem, Flags, Level)
  OBVIOUS
<1>4. /\ Pre(v, a, e) /\ Plain(Instr, a) /\ pc \in 1 .. Len(Code(v)) /\ pc \in Nat
      /\ Shaped(v, Code(v)) /\ Instr = Code(v)[pc] /\ Before(v, Code(v), a, pc)
  BY <1>1, <1>2, <1>3, Stands
<1>5. v \in Variant /\ a \in Syms /\ Stable(v, a) /\ e \in Frames /\ RegsMean(a, regs, e) /\ regs \in [Regs -> Int]
      /\ Placed(v, e) /\ SlotMeans(v, a, mem, e) /\ mem \in [Words -> Int]
  BY <1>4, PreFacts DEF Live, Acts
<1>6. /\ Flags \subseteq Flags' /\ Flags' \in SUBSET Blames /\ (a.open => "raced" \in Flags')
      /\ (a.reg["R15"] = Unset => "early" \in Flags') /\ (a.reg["RSP"] = Lit(0) => Hit(ZeroRsp)')
  <2>1. Plain(Code(v)[pc], a)
    BY <1>4
  <2> QED  BY <1>1, <1>3, <1>4, <1>5, <2>1, SignalFlags
<1>7. CtxOf[Level] = Present /\ Level \in Nat /\ Level \in 0 .. Level
      /\ \A l \in 0 .. Level : l # Level => CtxOf[l] = saved[l + 1] /\ l + 1 \in 1 .. Level
  BY <1>1, LevelFacts
<1>8. Present.want = want /\ Present.regs = regs /\ Present.zf = zf /\ Present.pkru = pkru /\ Present.pc = pc
  BY DEF Present
<1>9. Nested(variant, Level, CtxOf, p, mem, Flags)
  BY <1>2 DEF Tower
<1>10. PICK x : x = regs["RSP"] - RedZone - 1
  OBVIOUS
<1>11. CASE x \notin Stack
  <2>1. status' = "sigkill" /\ saved' = saved
    BY <1>10, <1>11 DEF Signal
  <2>2. PICK l : l = Level
    OBVIOUS
  <2>3. PICK u, C, F : u = variant /\ C = CtxOf /\ F = Flags
    OBVIOUS
  <2>4. Nested(u, l, C, p, mem, F) /\ l \in 0 .. l /\ l < MaxNest /\ e = Env(C, p, mem, F, l)
    BY <1>1, <1>3, <1>7, <1>9, <2>2, <2>3
  <2>5. Standing(u, C, p, mem, F, l) /\ l \in 0 .. MaxNest /\ At(e) = C[l].want["RSP"] /\ e.F = F
    BY <2>4, StandFacts, EnvFields
  <2>6. At(e) >= 4 + Room(l) /\ At(e) \in 4 .. StackTop
    BY <1>5, <2>5 DEF Standing, Placed
  <2>7. a.reg["RSP"] = Lit(0) \/ "altered" \in e.F \/ "raced" \in e.F
    BY <1>5, <1>10, <1>11, <2>4, <2>5, <2>6, NoRoom
  <2>8. Hit(ZeroRsp)' \/ altered' \/ Hit(Exposed)'
    BY <1>6, <2>3, <2>5, <2>7, NextFlags
  <2>9. variant' \in Variants /\ saved' \in Seq(Contexts) /\ status' # "run"
    BY <1>1, <2>1
  <2>10. SafeReturn' /\ TrapBlame' /\ KillBlame' /\ AccessGranted' /\ PointerBalanced'
    BY <2>1, <2>8, Killed
  <2> QED  BY <2>9, <2>10 DEF IInv
<1>12. CASE x \in Stack
  <2>1. /\ saved' = Append(saved, Present) /\ mem' = [mem EXCEPT ![x] = Restorer] /\ regs' = [regs EXCEPT !["RSP"] = x]
        /\ want' = regs' /\ pkru' = (IF variant.mpk THEN AccessProt ELSE pkru) /\ pc' = 1 /\ zf' = zf /\ status' = status
    BY <1>10, <1>12 DEF Signal, Present
  <2>2. PICK u, n, C, m, F, c : u = variant /\ n = Level /\ C = CtxOf /\ m = mem /\ F = Flags /\ c = Present
    OBVIOUS
  <2>3. PICK d, m2, F2 : d = Present' /\ m2 = mem' /\ F2 = Flags'
    OBVIOUS
  <2>4. PICK C2 : C2 = [l \in 0 .. n + 1 |-> IF l = n + 1 THEN d ELSE C[l]]
    OBVIOUS
  <2>5. PICK p2 : p2 = [l \in 0 .. n + 1 |-> IF l = n + 1 THEN p[n] + Top(VL(u, n), a) ELSE p[l]]
    OBVIOUS
  <2>6. d.regs = regs' /\ d.zf = zf /\ d.pkru = pkru' /\ d.pc = 1 /\ d.want = regs'
        /\ d = [regs |-> d.regs, zf |-> d.zf, pkru |-> d.pkru, pc |-> d.pc, want |-> d.want]
    BY <2>1, <2>3 DEF Present
  <2>7. Nested(u, n, C, p, m, F) /\ n < MaxNest /\ c = C[n] /\ n \in 0 .. n /\ v = VL(u, n)
    BY <1>1, <1>3, <1>7, <1>9, <2>2
  <2>8. a = Note(u, C, n)
    BY <1>3, <1>8, <2>2, <2>7 DEF Note
  <2>9. c \in Contexts
    BY <2>7, StandFacts
  <2>10. d \in Contexts
    <3>1. regs' \in [Regs -> Int]
      <4>1. x \in Int
        BY <1>12, WordFacts
      <4> QED  BY <1>5, <2>1, <4>1
    <3>2. zf \in BOOLEAN /\ pkru \in {OpenAll, WriteProt, AccessProt}
      BY <1>8, <2>2, <2>9 DEF Contexts
    <3>3. d.regs \in [Regs -> Int] /\ d.zf \in BOOLEAN /\ d.pkru \in {OpenAll, WriteProt, AccessProt} /\ d.pc \in Nat
          /\ d.want \in [Regs -> Int]
      BY <2>1, <2>6, <3>1, <3>2
    <3> QED  BY <2>6, <3>3 DEF Contexts
  <2>11. c.regs = regs /\ c.zf = zf /\ c.pkru = pkru
    BY <1>8, <2>2
  <2>12. d.regs = [c.regs EXCEPT !["RSP"] = x] /\ d.zf = c.zf /\ d.pkru = (IF u.mpk THEN AccessProt ELSE c.pkru)
         /\ d.want = d.regs /\ m2 = [m EXCEPT ![x] = Restorer] /\ x = c.regs["RSP"] - RedZone - 1
    BY <1>10, <2>1, <2>2, <2>3, <2>6, <2>11
  <2>13. F \subseteq F2 /\ F2 \in SUBSET Blames /\ (a.open => "raced" \in F2) /\ (a.reg["R15"] = Unset => "early" \in F2)
    BY <1>6, <2>2, <2>3
  <2>14. Delivered(u, n, C, p, m, F, c, a, x, d, C2, p2, m2, F2)
    BY <1>12, <2>4, <2>5, <2>6, <2>7, <2>8, <2>10, <2>12, <2>13 DEF Delivered
  <2>15. Nested(u, n + 1, C2, p2, m2, F2)
    BY <2>14, DeliverStep
  <2>16. Level' = n + 1 /\ saved' \in Seq(Contexts)
    BY <1>1, <2>1, <2>2, <2>9 DEF Level
  <2>17. CtxOf' = C2
    <3>1. CtxOf' = [l \in 0 .. n + 1 |-> IF l = n + 1 THEN d ELSE saved'[l + 1]]
      BY <2>3, <2>16 DEF CtxOf
    <3>2. ASSUME NEW l \in 0 .. n + 1, l # n + 1 PROVE saved'[l + 1] = C[l]
      <4>1. Len(saved) = n /\ n \in Nat /\ l \in 0 .. n
        BY <1>7, <2>2, <3>2 DEF Level
      <4>2. CASE l = n
        <5>1. saved'[l + 1] = Present
          BY <1>1, <2>1, <4>1, <4>2
        <5> QED  BY <2>2, <2>7, <4>2, <5>1
      <4>3. CASE l # n
        <5>1. l + 1 \in 1 .. Len(saved)
          BY <4>1, <4>3
        <5>2. saved'[l + 1] = saved[l + 1]
          BY <1>1, <2>1, <5>1
        <5>3. C[l] = saved[l + 1]
          BY <1>7, <2>2, <4>1, <4>3
        <5> QED  BY <5>2, <5>3
      <4> QED  BY <4>2, <4>3
    <3> QED  BY <2>4, <3>1, <3>2
  <2>18. Nested(variant', Level', CtxOf', p2, mem', Flags')
    BY <1>1, <2>2, <2>3, <2>15, <2>16, <2>17
  <2>19. Tower(p2)'
    BY <2>18 DEF Tower
  <2>20. status' = "run" /\ variant' \in Variants
    BY <1>1, <2>1
  <2> QED  BY <2>16, <2>19, <2>20, RunsOn DEF IInv
<1> QED  BY <1>11, <1>12

\* A handler is gone and has left the pointer where it found it.
LEMMA ReturnStep ==
  ASSUME NEW u, NEW n, NEW C, NEW p, NEW m, NEW F, Nested(u, n, C, p, m, F), n # 0,
         Top(VL(u, n), Note(u, C, n)) = 0,
         NEW C2, C2 = [l \in 0 .. n - 1 |-> C[l]], NEW p2, p2 = [l \in 0 .. n - 1 |-> p[l]]
  PROVE  Nested(u, n - 1, C2, p2, m, F)
<1>1. /\ u \in Variant /\ n \in 0 .. MaxNest /\ C \in [0 .. n -> Contexts] /\ p \in [0 .. n -> Int] /\ p[0] = P0(u)
      /\ m \in [Words -> Int] /\ F \in SUBSET Blames
      /\ (\A l \in 0 .. n : Standing(u, C, p, m, F, l))
      /\ (\A l \in 0 .. n : \A k \in 0 .. n : l < k => Under(u, C, p, l, k))
      /\ (\A l \in 0 .. n : l < n => Interrupted(u, C, p, F, l))
      /\ Shared(VL(u, n), Note(u, C, n), m, Env(C, p, m, F, n))
  BY DEF Nested
<1>2. n \in Nat /\ n - 1 \in 0 .. MaxNest /\ n \in 0 .. n /\ n - 1 \in 0 .. n - 1 /\ 0 \in 0 .. n - 1 /\ n - 1 < n
      /\ n - 1 \in 0 .. n /\ (n - 1) + 1 = n
  BY <1>1, Layout
<1>3. \A l \in 0 .. n - 1 : l \in 0 .. n /\ l < n
  BY <1>2
<1>4. \A l \in 0 .. n - 1 : C2[l] = C[l] /\ p2[l] = p[l]
  OBVIOUS
<1>5. C2 \in [0 .. n - 1 -> Contexts] /\ p2 \in [0 .. n - 1 -> Int] /\ p2[0] = P0(u)
  BY <1>1, <1>2, <1>3
<1>6. \A l \in 0 .. n - 1 : Note(u, C2, l) = Note(u, C, l) /\ Env(C2, p2, m, F, l) = Env(C, p, m, F, l)
  BY <1>4 DEF Note, Env
<1>7. \A l \in 0 .. n - 1 : Standing(u, C2, p2, m, F, l)
  <2> SUFFICES ASSUME NEW l \in 0 .. n - 1 PROVE Standing(u, C2, p2, m, F, l)
    OBVIOUS
  <2>1. Standing(u, C, p, m, F, l)
    BY <1>1, <1>3
  <2> QED  BY <1>4, <1>6, <2>1 DEF Standing
<1>8. \A l \in 0 .. n - 1 : \A k \in 0 .. n - 1 : l < k => Under(u, C2, p2, l, k)
  <2> SUFFICES ASSUME NEW l \in 0 .. n - 1, NEW k \in 0 .. n - 1, l < k PROVE Under(u, C2, p2, l, k)
    OBVIOUS
  <2>1. Under(u, C, p, l, k)
    BY <1>1, <1>3
  <2> QED  BY <1>4, <1>6, <2>1 DEF Under
<1>9. \A l \in 0 .. n - 1 : l < n - 1 => Interrupted(u, C2, p2, F, l)
  <2> SUFFICES ASSUME NEW l \in 0 .. n - 1, l < n - 1 PROVE Interrupted(u, C2, p2, F, l)
    OBVIOUS
  <2>1. Interrupted(u, C, p, F, l)
    BY <1>1, <1>3
  <2>2. l + 1 \in 0 .. n - 1
    BY <1>2
  <2> QED  BY <1>4, <1>6, <2>1, <2>2 DEF Interrupted
<1>10. Shared(VL(u, n - 1), Note(u, C2, n - 1), m, Env(C2, p2, m, F, n - 1))
  <2>1. Interrupted(u, C, p, F, n - 1)
    BY <1>1, <1>2
  <2>2. PICK v, w, a, b, e, f : /\ v = VL(u, n - 1) /\ w = VL(u, n) /\ a = Note(u, C, n - 1) /\ b = Note(u, C, n)
                                /\ e = Env(C, p, m, F, n - 1) /\ f = Env(C, p, m, F, n)
    OBVIOUS
  <2>3. e.q = p[n - 1] /\ f.q = p[n] /\ p[n] = p[n - 1] + Top(v, a) /\ p[n] \in Int
    BY <1>1, <1>2, <2>1, <2>2, EnvFields DEF Interrupted
  <2>4. (Stacked(v) <=> Stacked(u)) /\ v.scheme = u.scheme
    BY <1>1, <2>2, Levels
  <2>5. (Stacked(w) <=> Stacked(u)) /\ w.scheme = u.scheme
    BY <1>1, <2>2, Levels
  <2>6. Stacked(u) => Top(v, a) = a.ptr /\ b.ptr = 0
    <3>1. Top(w, b) = 0
      BY <2>2
    <3> QED  BY <2>4, <2>5, <3>1 DEF Top, Stacked
  <2>7. Shared(w, b, m, f)
    BY <1>1, <2>2
  <2>8. Shared(v, a, m, e)
    BY <2>3, <2>4, <2>5, <2>6, <2>7 DEF Shared
  <2> QED  BY <1>2, <1>6, <2>2, <2>8
<1> QED  BY <1>1, <1>2, <1>5, <1>7, <1>8, <1>9, <1>10 DEF Nested

\* The ways an activation ends.
LEMMA JmpTarget ==
  ASSUME NEW v, NEW a, NEW e, Pre(v, a, e), NEW i, NEW b, RJmp(v, i, a, b)
  PROVE  i = <<"jmp", "R10">> /\ regs["R10"] = RaOf(e.l) /\ Top(v, a) = 0 /\ Balanced(v, a) /\ ~v.ctor
<1>1. i = <<"jmp", "R10">> /\ a.reg["R10"] = Ra /\ Top(v, a) = 0 /\ Balanced(v, a) /\ ~v.ctor
  BY DEF RJmp
<1>2. Means(Ra, regs["R10"], e)
  BY <1>1, PreFacts, RegFacts DEF RegsMean
<1>3. regs["R10"] = RaOf(e.l)
  BY <1>2 DEF Means, Ra, Tagged
<1> QED  BY <1>1, <1>3

\* A return goes to the checked address, traps, or is a constructor's.
LEMMA BackTarget ==
  ASSUME NEW v, NEW a, NEW e, Pre(v, a, e), NEW i, NEW b, RLeave(v, i, a, b)
  PROVE  /\ i = <<"back">>
         /\ \/ ~v.ctor /\ Top(v, a) = 0 /\ Balanced(v, a) /\ regs["RSP"] \in Words /\ mem[regs["RSP"]] = RaOf(e.l)
            \/ ~v.ctor /\ regs["RSP"] \notin Words /\ ("altered" \in e.F \/ "raced" \in e.F)
            \/ v.ctor /\ regs["RSP"] \in Words /\ mem[regs["RSP"]] = RaOf(e.l)
            \/ v.ctor /\ regs["RSP"] \in Words /\ mem[regs["RSP"]] = Altered /\ "altered" \in e.F
<1>1. i = <<"back">> /\ IF v.ctor THEN a.reg["RSP"] = Here ELSE a.reg["RSP"] \in {Sure, Choice} /\ Top(v, a) = 0 /\ Balanced(v, a)
  BY DEF RLeave
<1>2. Means(a.reg["RSP"], regs["RSP"], e) /\ e \in Frames /\ At(e) \in Words /\ SlotMeans(v, a, mem, e) /\ v \in Variant
  <2>1. v \in Variant /\ e \in Frames /\ Placed(v, e) /\ RegsMean(a, regs, e) /\ Live(v, a, e, regs, mem, zf, pkru)
    BY PreFacts
  <2>2. At(e) \in Stack
    BY <2>1, Places
  <2> QED  BY <2>1, <2>2, RegFacts, WordFacts DEF RegsMean, Live, Acts
<1>3. mem[At(e)] = e.s /\ e.s \in {RaOf(e.l), Altered} /\ (e.s = Altered => "altered" \in e.F)
  BY <1>2 DEF SlotMeans
<1>4. CASE v.ctor
  <2>1. regs["RSP"] = At(e)
    BY <1>1, <1>2, <1>4, MeansHere
  <2> QED  BY <1>1, <1>2, <1>3, <1>4, <2>1
<1>5. CASE ~v.ctor
  <2>1. \/ regs["RSP"] = At(e) /\ e.s = RaOf(e.l)
        \/ regs["RSP"] = NullPage /\ (e.s # RaOf(e.l) \/ "raced" \in e.F)
    BY <1>1, <1>2, <1>5 DEF Means, Sure, Choice, Tagged
  <2>2. NullPage \notin Words
    BY Layout, WordFacts
  <2> QED  BY <1>1, <1>2, <1>3, <1>5, <2>1, <2>2
<1> QED  BY <1>4, <1>5

\* The function returned to its caller.
LEMMA Returned ==
  ASSUME IInv, status = "run", Level = 0, NEW p, Tower(p), NEW a, a = Notes(variant)[pc],
         Top(variant, a) = 0, Balanced(variant, a),
         status' = "returned", UNCHANGED <<variant, regs, mem, saved>>
  PROVE  IInv'
<1>1. variant \in Variants /\ saved \in Seq(Contexts)
  BY DEF IInv
<1>2. PICK v, e : v = VL(variant, Level) /\ e = Env(CtxOf, p, mem, Flags, Level)
  OBVIOUS
<1>3. v = variant
  BY <1>2 DEF VL
<1>4. Pre(v, a, e)
  BY <1>2, <1>3, Stands
<1>5. RegsMean(a, regs, e) /\ Shared(v, a, mem, e) /\ v \in Variant
  BY <1>4, PreFacts DEF Live
<1>6. e.q = p[0] /\ p[0] = P0(v)
  <2>1. e.q = p[0]
    BY <1>2, EnvFields
  <2>2. p[0] = P0(variant)
    BY DEF Tower, Nested
  <2> QED  BY <1>3, <2>1, <2>2
<1>7. v.scheme \in Schemes
  BY <1>5 DEF Variant
<1>8. P0(v) \in Int
  BY <1>7, Layout DEF P0, Start
<1>9. v.scheme \in {"REG", "PARR"} => regs["R15"] = P0(v)
  <2> SUFFICES ASSUME v.scheme \in {"REG", "PARR"} PROVE regs["R15"] = P0(v)
    OBVIOUS
  <2>1. a.reg["R15"] = Ptr(0)
    BY <1>3 DEF Balanced
  <2>2. Means(Ptr(0), regs["R15"], e)
    BY <1>5, <2>1, RegFacts DEF RegsMean
  <2> QED  BY <1>6, <1>8, <2>2 DEF Means, Ptr
<1>10. v.scheme \in {"SEG", "MEM"} => mem[ShadowBase] = P0(v)
  <2> SUFFICES ASSUME v.scheme \in {"SEG", "MEM"} PROVE mem[ShadowBase] = P0(v)
    OBVIOUS
  <2>1. Stacked(v) /\ a.ptr = 0
    BY <1>3 DEF Stacked, Top
  <2> QED  BY <1>5, <1>6, <1>8, <2>1 DEF Shared
<1>11. PointerBalanced'
  <2>1. v.scheme = "REG" => P0(v) = ShadowBase
    BY DEF P0, Start
  <2>2. v.scheme = "PARR" => P0(v) = ParOffset
    BY DEF P0
  <2>3. v.scheme \in {"SEG", "MEM"} => P0(v) = Start(v.scheme)
    BY DEF P0
  <2> QED  BY <1>3, <1>7, <1>9, <1>10, <2>1, <2>2, <2>3 DEF PointerBalanced, Schemes
<1>12. SafeReturn' /\ TrapBlame' /\ KillBlame' /\ AccessGranted'
  BY DEF SafeReturn, TrapBlame, KillBlame, AccessGranted
<1> QED  BY <1>1, <1>11, <1>12 DEF IInv

\* The first elements of a sequence.
LEMMA Leading ==
  ASSUME NEW S, NEW s, NEW k \in Nat, \A i \in 1 .. k : s[i] \in S
  PROVE  /\ SubSeq(s, 1, k) \in Seq(S) /\ Len(SubSeq(s, 1, k)) = k
         /\ \A i \in 1 .. k : SubSeq(s, 1, k)[i] = s[i]
BY SubSeqProperties

\* A handler returns to the kernel, which restores what it interrupted.
LEMMA Resumed ==
  ASSUME IInv, status = "run", Level # 0, NEW p, Tower(p), NEW v, v = VL(variant, Level), NEW a, a = Notes(v)[pc],
         Top(v, a) = 0, Leave(Restorer)
  PROVE  IInv'
<1>1. variant \in Variants /\ saved \in Seq(Contexts)
  BY DEF IInv
<1>2. /\ Level \in Nat /\ Level \in 0 .. Level /\ CtxOf[Level] = Present
      /\ \A l \in 0 .. Level : l # Level => CtxOf[l] = saved[l + 1] /\ l + 1 \in 1 .. Level
  BY <1>1, LevelFacts
<1>3. PICK u, n, C, m, F : u = variant /\ n = Level /\ C = CtxOf /\ m = mem /\ F = Flags
  OBVIOUS
<1>4. Nested(u, n, C, p, m, F) /\ n # 0 /\ n \in Nat /\ v = VL(u, n)
  BY <1>2, <1>3 DEF Tower
<1>5. a = Note(u, C, n)
  BY <1>2, <1>3, <1>4 DEF Note, Present
<1>6. PICK C2, p2 : C2 = [l \in 0 .. n - 1 |-> C[l]] /\ p2 = [l \in 0 .. n - 1 |-> p[l]]
  OBVIOUS
<1>7. Nested(u, n - 1, C2, p2, m, F)
  BY <1>4, <1>5, <1>6, ReturnStep
<1>8. PICK c : c = saved[n]
  OBVIOUS
<1>9. /\ regs' = c.regs /\ zf' = c.zf /\ pkru' = c.pkru /\ pc' = c.pc /\ want' = c.want
      /\ saved' = SubSeq(saved, 1, n - 1) /\ variant' = variant /\ mem' = mem /\ hits' = hits /\ altered' = altered
      /\ status' = status
  BY <1>3, <1>8 DEF Leave
<1>10. Len(saved) = n /\ n \in 1 .. n /\ n - 1 \in 0 .. n
  BY <1>2, <1>3, <1>4 DEF Level
<1>11. c \in Contexts
  BY <1>1, <1>8, <1>10
<1>12. saved' \in Seq(Contexts) /\ Len(saved') = n - 1 /\ \A k \in 1 .. n - 1 : saved'[k] = saved[k]
  <2>1. \A k \in 1 .. n - 1 : saved[k] \in Contexts
    BY <1>1, <1>10
  <2>2. n - 1 \in Nat
    BY <1>4
  <2> QED  BY <1>9, <2>1, <2>2, Leading
<1>13. Level' = n - 1
  BY <1>12 DEF Level
<1>14. Present' = c
  <2>1. c = [regs |-> c.regs, zf |-> c.zf, pkru |-> c.pkru, pc |-> c.pc, want |-> c.want]
    BY <1>11 DEF Contexts
  <2> QED  BY <1>9, <2>1 DEF Present
<1>15. CtxOf' = C2
  <2>1. CtxOf' = [l \in 0 .. n - 1 |-> IF l = n - 1 THEN c ELSE saved'[l + 1]]
    BY <1>13, <1>14 DEF CtxOf
  <2>2. ASSUME NEW l \in 0 .. n - 1 PROVE (IF l = n - 1 THEN c ELSE saved'[l + 1]) = C[l]
    <3>1. l \in 0 .. n /\ l # n /\ l + 1 \in 1 .. n
      BY <1>4
    <3>2. C[l] = saved[l + 1]
      BY <1>2, <1>3, <3>1
    <3>3. CASE l = n - 1
      <4>1. l + 1 = n
        BY <1>4, <3>3
      <4> QED  BY <1>8, <3>2, <3>3, <4>1
    <3>4. CASE l # n - 1
      <4>1. l + 1 \in 1 .. n - 1
        BY <1>4, <3>1, <3>4
      <4> QED  BY <1>12, <3>2, <3>4, <4>1
    <3> QED  BY <3>3, <3>4
  <2> QED  BY <1>6, <2>1, <2>2
<1>16. Flags' = Flags
  BY <1>9, HitSame DEF Flags
<1>17. Nested(variant', Level', CtxOf', p2, mem', Flags')
  BY <1>3, <1>7, <1>9, <1>13, <1>15, <1>16
<1>18. Tower(p2)'
  BY <1>17 DEF Tower
<1>19. status' = "run" /\ variant' \in Variants
  BY <1>1, <1>9
<1> QED  BY <1>12, <1>18, <1>19, RunsOn DEF IInv

\* The last instruction keeps the invariant.
LEMMA BackKeeps ==
  ASSUME IInv, Back
  PROVE  IInv'
<1>1. /\ variant \in Variants /\ saved \in Seq(Contexts) /\ status = "run" /\ Instr[1] \in {"back", "jmp"}
  BY DEF IInv, Back
<1>2. PICK p : Tower(p)
  BY <1>1 DEF IInv
<1>3. PICK v, a, b, e : /\ v = VL(variant, Level) /\ a = Notes(v)[pc] /\ b = Notes(v)[pc + 1]
                        /\ e = Env(CtxOf, p, mem, Flags, Level)
  OBVIOUS
<1>4. Pre(v, a, e) /\ Rule(v, Instr, a, b)
  BY <1>1, <1>2, <1>3, Stands
<1>5. e.l = Level /\ e.F = Flags
  BY <1>3, EnvFields
<1>6. PICK i : i = Instr
  OBVIOUS
<1>7. Level = 0 => v = variant
  BY <1>3 DEF VL
<1>8. v.ctor => Level = 0
  <2>1. variant \in Variant
    BY <1>1, LayoutAssumption
  <2> QED  BY <1>3, <2>1, Levels
<1>9. Level = 0 => RaOf(e.l) = Caller
  BY <1>5 DEF RaOf
<1>10. Level # 0 => RaOf(e.l) = Restorer
  BY <1>5 DEF RaOf
<1>11. ASSUME NEW t, Leave(t), t = RaOf(e.l), Top(v, a) = 0, Balanced(v, a), ~v.ctor PROVE IInv'
  <2>1. CASE Level = 0
    <3>1. status' = "returned" /\ UNCHANGED <<variant, regs, mem, saved>>
      BY <1>9, <1>11, <2>1 DEF Leave
    <3> QED  BY <1>1, <1>2, <1>3, <1>7, <1>11, <2>1, <3>1, Returned
  <2>2. CASE Level # 0
    <3>1. Leave(Restorer)
      BY <1>10, <1>11, <2>2
    <3> QED  BY <1>1, <1>2, <1>3, <1>11, <2>2, <3>1, Resumed
  <2> QED  BY <2>1, <2>2
<1>12. CASE Instr[1] = "jmp"
  <2>1. RJmp(v, i, a, b)
    BY <1>4, <1>6, <1>12, RuleHead
  <2>2. i = <<"jmp", "R10">> /\ regs["R10"] = RaOf(e.l) /\ Top(v, a) = 0 /\ Balanced(v, a) /\ ~v.ctor
    BY <1>4, <2>1, JmpTarget
  <2>3. Leave(regs["R10"])
    BY <1>6, <1>12, <2>2 DEF Back
  <2> QED  BY <1>11, <2>2, <2>3
<1>13. CASE Instr[1] = "back"
  <2>1. RLeave(v, i, a, b)
    BY <1>4, <1>6, <1>13, RuleHead
  <2>2. \/ ~v.ctor /\ Top(v, a) = 0 /\ Balanced(v, a) /\ regs["RSP"] \in Words /\ mem[regs["RSP"]] = RaOf(e.l)
        \/ ~v.ctor /\ regs["RSP"] \notin Words /\ ("altered" \in e.F \/ "raced" \in e.F)
        \/ v.ctor /\ regs["RSP"] \in Words /\ mem[regs["RSP"]] = RaOf(e.l)
        \/ v.ctor /\ regs["RSP"] \in Words /\ mem[regs["RSP"]] = Altered /\ "altered" \in e.F
    BY <1>4, <2>1, BackTarget
  <2>3. regs["RSP"] \in Words => Leave(mem[regs["RSP"]])
    BY <1>13 DEF Back
  <2>4. CASE ~v.ctor /\ Top(v, a) = 0 /\ Balanced(v, a) /\ regs["RSP"] \in Words /\ mem[regs["RSP"]] = RaOf(e.l)
    BY <1>11, <2>3, <2>4
  <2>5. CASE ~v.ctor /\ regs["RSP"] \notin Words /\ ("altered" \in e.F \/ "raced" \in e.F)
    <3>1. status' = "trap" /\ UNCHANGED <<variant, saved, hits, altered>>
      BY <1>13, <2>5 DEF Back
    <3>2. altered' \/ Hit(Exposed)'
      BY <1>5, <2>5, <3>1, FlagFacts, HitSame
    <3>3. SafeReturn' /\ TrapBlame' /\ KillBlame' /\ AccessGranted' /\ PointerBalanced'
      BY <3>1, <3>2, Stopped
    <3> QED  BY <1>1, <3>1, <3>3 DEF IInv
  <2>6. CASE v.ctor /\ regs["RSP"] \in Words /\ mem[regs["RSP"]] = RaOf(e.l)
    <3>1. Leave(Caller) /\ Level = 0 /\ variant.ctor
      BY <1>7, <1>8, <1>9, <2>3, <2>6
    <3>2. status' = "returned" /\ UNCHANGED <<variant, saved>>
      BY <3>1 DEF Leave
    <3>3. SafeReturn' /\ TrapBlame' /\ KillBlame' /\ AccessGranted' /\ PointerBalanced'
      BY <3>1, <3>2 DEF SafeReturn, TrapBlame, KillBlame, AccessGranted, PointerBalanced
    <3> QED  BY <1>1, <3>2, <3>3 DEF IInv
  <2>7. CASE v.ctor /\ regs["RSP"] \in Words /\ mem[regs["RSP"]] = Altered /\ "altered" \in e.F
    <3>1. Leave(Altered) /\ Level = 0 /\ variant.ctor /\ altered
      BY <1>5, <1>7, <1>8, <2>3, <2>7, FlagFacts
    <3>2. status' = "diverted" /\ UNCHANGED <<variant, saved, altered>>
      BY <3>1, Layout DEF Leave
    <3>3. SafeReturn' /\ TrapBlame' /\ KillBlame' /\ AccessGranted' /\ PointerBalanced'
      BY <3>1, <3>2 DEF SafeReturn, TrapBlame, KillBlame, AccessGranted, PointerBalanced
    <3> QED  BY <1>1, <3>2, <3>3 DEF IInv
  <2> QED  BY <2>2, <2>4, <2>5, <2>6, <2>7
<1> QED  BY <1>1, <1>12, <1>13

\* Registers at the function's entry.
LEMMA StartFacts ==
  ASSUME NEW v \in Variant
  PROVE  /\ P0(v) \in Int /\ P0(v) <= ShadowBase + 2
         /\ InitRegs(v) \in [Regs -> Int] /\ InitRegs(v)["RSP"] = Entry
         /\ InitRegs(v)["GS"] = (IF v.scheme = "SEG" THEN ShadowBase ELSE ClaveBase)
         /\ (v.load => InitRegs(v)["R15"] = Foreign)
         /\ (Owned(v) /\ ~v.load => InitRegs(v)["R15"] = P0(v))
         /\ \A r \in Free : InitRegs(v)[r] = Argument(r)
<1>1. v.scheme \in Schemes
  BY DEF Variant
<1>2. P0(v) \in Int /\ P0(v) <= ShadowBase + 2
  BY <1>1, Layout DEF P0, Start
<1>3. \A r \in Regs : r \notin {"RSP", "GS", "R15"} => r \in Free
  BY DEF Regs, Free
<1>4. InitRegs(v) \in [Regs -> Int]
  <2> SUFFICES ASSUME NEW r \in Regs PROVE InitRegs(v)[r] \in Int
    BY DEF InitRegs
  <2>1. r \in Free => Argument(r) \in Int
    BY Arguments
  <2> QED  BY <1>3, <2>1, Layout DEF InitRegs
<1>5. /\ InitRegs(v)["RSP"] = Entry /\ InitRegs(v)["GS"] = (IF v.scheme = "SEG" THEN ShadowBase ELSE ClaveBase)
      /\ (v.load => InitRegs(v)["R15"] = Foreign)
  BY RegFacts DEF InitRegs
<1>6. Owned(v) /\ ~v.load => InitRegs(v)["R15"] = P0(v)
  BY RegFacts DEF InitRegs, Owned, P0, Start
<1>7. \A r \in Free : InitRegs(v)[r] = Argument(r)
  BY DEF InitRegs, Free, Regs
<1> QED  BY <1>2, <1>4, <1>5, <1>6, <1>7

\* Memory at the function's entry.
LEMMA MemFacts ==
  ASSUME NEW v \in Variant
  PROVE  /\ InitMem(v) \in [Words -> Int] /\ InitMem(v)[Entry] = Caller
         /\ \A x \in Shadow : InitMem(v)[x] # Altered
         /\ InitMem(v)[ClaveBase] = ParOffset /\ InitMem(v)[ClaveBase + 2] = ShadowBase
         /\ Stacked(v) => InitMem(v)[ShadowBase] = P0(v)
<1>1. v.scheme \in Schemes
  BY DEF Variant
<1>2. /\ Start(v.scheme) \in Int /\ Start(v.scheme) >= ShadowBase /\ Start(v.scheme) <= ShadowBase + 2
      /\ Header(v.scheme) \subseteq {ShadowBase}
  BY <1>1, Layout DEF Start, Header
<1>3. \A x \in Words : x \in Int
  BY WordFacts
<1>4. InitMem(v) \in [Words -> Int]
  BY <1>2, Layout DEF InitMem
<1>5. Entry \in Stack /\ Entry \in Words
  <2>1. Entry \in Stack
    BY Layout DEF Stack
  <2> QED  BY <2>1, WordFacts
<1>6. InitMem(v)[Entry] = Caller
  <2>1. Entry \notin Header(v.scheme) /\ Entry # ClaveBase /\ Entry \notin {ClaveBase + 1, ClaveBase + 2} /\ Entry # ClaveBase + 4
    BY <1>2, Layout
  <2> QED  BY <1>5, <2>1 DEF InitMem
<1>7. \A x \in Shadow : InitMem(v)[x] # Altered
  <2> SUFFICES ASSUME NEW x \in Shadow PROVE InitMem(v)[x] # Altered
    OBVIOUS
  <2>1. x \in Words /\ x \in Int /\ x # Entry /\ x # ClaveBase /\ x \notin {ClaveBase + 1, ClaveBase + 2} /\ x # ClaveBase + 4
    BY <1>5, WordFacts, Layout
  <2>2. InitMem(v)[x] = IF x \in Header(v.scheme) THEN Start(v.scheme) ELSE 0
    BY <2>1 DEF InitMem
  <2> QED  BY <1>2, <2>2, Layout
<1>8. ClaveBase \in Words /\ ClaveBase + 2 \in Words /\ ClaveBase # Entry /\ ClaveBase + 2 # Entry
      /\ ClaveBase \notin Header(v.scheme) /\ ClaveBase + 2 \notin Header(v.scheme)
  <2>1. ClaveBase \in Clave /\ ClaveBase + 2 \in Clave
    BY Layout DEF Clave
  <2> QED  BY <1>2, <1>5, <2>1, WordFacts, Layout
<1>9. InitMem(v)[ClaveBase] = ParOffset
  <2>1. ClaveBase \notin {ClaveBase + 1, ClaveBase + 2} /\ ClaveBase # ClaveBase + 4
    BY Layout
  <2> QED  BY <1>8, <2>1 DEF InitMem
<1>10. InitMem(v)[ClaveBase + 2] = ShadowBase
  BY <1>8, Layout DEF InitMem
<1>11. Stacked(v) => InitMem(v)[ShadowBase] = P0(v)
  <2> SUFFICES ASSUME Stacked(v) PROVE InitMem(v)[ShadowBase] = P0(v)
    OBVIOUS
  <2>1. ShadowBase \in Header(v.scheme) /\ P0(v) = Start(v.scheme)
    BY DEF Stacked, Header, P0
  <2>2. ShadowBase \in Words /\ ShadowBase # Entry
    <3>1. ShadowBase <= ShadowBase + StackTop - 1 /\ ShadowBase \in Int /\ StackTop \in Int
      BY Layout
    <3>2. ShadowBase \in Shadow
      BY <3>1 DEF Shadow
    <3> QED  BY <3>2, Layout, WordFacts
  <2>3. ShadowBase # ClaveBase /\ ShadowBase \notin {ClaveBase + 1, ClaveBase + 2} /\ ShadowBase # ClaveBase + 4
    BY Layout
  <2> QED  BY <2>1, <2>2, <2>3 DEF InitMem
<1> QED  BY <1>4, <1>6, <1>7, <1>9, <1>10, <1>11

\* The function where its caller enters it.
LEMMA EnteredActs ==
  ASSUME NEW v \in Variant, NEW e, e = [w |-> InitRegs(v), s |-> Caller, q |-> P0(v), l |-> 0, F |-> {}],
         NEW k, k = IF v.mpk THEN WriteProt ELSE OpenAll, NEW a, a = Entered(v)
  PROVE  /\ Acts(v, a, e, InitRegs(v), InitMem(v), FALSE, k) /\ Shared(v, a, InitMem(v), e)
         /\ Entry >= 4 + Room(0) /\ e \in Frames
<1>1. e.w = InitRegs(v) /\ e.s = Caller /\ e.q = P0(v) /\ e.l = 0 /\ e.F = {} /\ At(e) = Entry
  BY StartFacts DEF At
<1>2. e \in Frames
  BY StartFacts, Layout DEF Frames, Blames
<1>3. Entry >= 4 + Room(0) /\ Entry >= 4
  <2>1. 0 \in 0 .. MaxNest
    BY Layout
  <2>2. Room(0) \in Int /\ Room(0) >= 0
    BY <2>1, RoomStep
  <2>3. MaxNest - 0 = MaxNest
    BY Layout
  <2>4. Room(0) = MaxNest * (RedZone + 3)
    BY <2>3 DEF Room
  <2> QED  BY <2>2, <2>4, Layout, RoomAssumption
<1>4. Placed(v, e)
  BY <1>1, <1>3, StartFacts, Layout DEF Placed
<1>5. RegsMean(a, InitRegs(v), e)
  <2> SUFFICES ASSUME NEW r \in Regs PROVE Means(a.reg[r], InitRegs(v)[r], e)
    BY DEF RegsMean
  <2>1. a.reg[r] = IF r = "GS" THEN Lit(IF v.scheme = "SEG" THEN ShadowBase ELSE ClaveBase)
                   ELSE IF r = "R15" /\ v.load THEN Unset ELSE IF r = "R15" /\ Owned(v) THEN Base ELSE Want(r, 0)
    BY DEF Entered, Owned
  <2>2. CASE r = "GS"
    BY <2>1, <2>2, StartFacts DEF Means, Lit
  <2>3. CASE r = "R15" /\ v.load
    BY <1>2, <2>1, <2>3, StartFacts, MeansTags
  <2>4. CASE r = "R15" /\ ~v.load /\ Owned(v)
    BY <1>1, <1>2, <2>1, <2>4, StartFacts, MeansTags
  <2>5. CASE r # "GS" /\ ~(r = "R15" /\ (v.load \/ Owned(v)))
    <3>1. a.reg[r] = Want(r, 0)
      BY <2>1, <2>5
    <3> QED  BY <1>1, <1>2, <3>1, MeansWant
  <2> QED  BY <2>2, <2>3, <2>4, <2>5
<1>6. /\ \A j \in 1 .. 3 : a.slot[j] = Any
      /\ a.ptr = 0 /\ a.ent = 0 /\ ~a.mir /\ a.pk = "any" /\ ~a.zf
  BY DEF Entered
<1>7. SlotsMean(a, InitMem(v), e)
  BY <1>6 DEF SlotsMean, Means, Any, Tagged
<1>8. FlagMeans(a, FALSE, e) /\ EntryMeans(v, a, InitMem(v), e) /\ MirrorMeans(v, a, InitMem(v), e) /\ KeyMeans(v, a, k)
  BY <1>6 DEF FlagMeans, EntryMeans, MirrorMeans, KeyMeans
<1>9. SlotMeans(v, a, InitMem(v), e)
  <2>1. InitMem(v)[Entry] = Caller /\ Caller # Altered
    BY MemFacts, Layout
  <2> QED  BY <1>1, <2>1 DEF SlotMeans, RaOf
<1>10. Shared(v, a, InitMem(v), e)
  <2>1. P0(v) + 0 = P0(v)
    BY StartFacts
  <2> QED  BY <1>1, <1>6, <2>1, MemFacts DEF Shared
<1> QED  BY <1>2, <1>3, <1>4, <1>5, <1>7, <1>8, <1>9, <1>10 DEF Acts

\* The invariant holds when the function is entered.
LEMMA InitKeeps ==
  ASSUME Init
  PROVE  IInv
<1>1. /\ variant \in Variants /\ regs = InitRegs(variant) /\ mem = InitMem(variant) /\ zf = FALSE
      /\ pkru = (IF variant.mpk THEN WriteProt ELSE OpenAll) /\ pc = 1 /\ saved = << >> /\ want = regs /\ hits = {}
      /\ ~altered /\ status = "run"
  BY DEF Init
<1>2. variant \in Variant /\ saved \in Seq(Contexts) /\ Level = 0
  BY <1>1, LayoutAssumption DEF Level
<1>3. Flags = {}
  BY <1>1 DEF Flags, Hit
<1>4. PICK u, C, m, p : u = variant /\ C = CtxOf /\ m = mem /\ p = [l \in 0 .. 0 |-> P0(variant)]
  OBVIOUS
<1>5. PICK e : e = Env(C, p, m, {}, 0)
  OBVIOUS
<1>6. C[0] = Present /\ C = [l \in 0 .. 0 |-> Present] /\ p[0] = P0(u)
  <2>1. CtxOf[0] = Present
    BY <1>2, LevelFacts
  <2>2. CtxOf = [l \in 0 .. 0 |-> IF l = 0 THEN Present ELSE saved[l + 1]]
    BY <1>2 DEF CtxOf
  <2>3. \A l \in 0 .. 0 : l = 0
    OBVIOUS
  <2>4. CtxOf = [l \in 0 .. 0 |-> Present]
    BY <2>2, <2>3
  <2> QED  BY <1>4, <2>1, <2>4
<1>7. C[0].regs = InitRegs(u) /\ C[0].zf = FALSE /\ C[0].pkru = (IF u.mpk THEN WriteProt ELSE OpenAll) /\ C[0].pc = 1
      /\ C[0].want = InitRegs(u)
  BY <1>1, <1>4, <1>6 DEF Present
<1>8. e = [w |-> InitRegs(u), s |-> Caller, q |-> P0(u), l |-> 0, F |-> {}]
  <2>1. InitRegs(u)["RSP"] = Entry /\ m[Entry] = Caller
    BY <1>1, <1>2, <1>4, StartFacts, MemFacts
  <2> QED  BY <1>5, <1>6, <1>7, <2>1 DEF Env
<1>9. VL(u, 0) = u /\ Note(u, C, 0) = Entered(u)
  <2>1. VL(u, 0) = u
    BY DEF VL
  <2> QED  BY <1>2, <1>4, <1>7, <2>1, NotesWalk DEF Note
<1>10. PICK k : k = IF u.mpk THEN WriteProt ELSE OpenAll
  OBVIOUS
<1>11. /\ Acts(u, Entered(u), e, InitRegs(u), m, FALSE, k) /\ Shared(u, Entered(u), m, e) /\ Entry >= 4 + Room(0)
  BY <1>1, <1>2, <1>4, <1>8, <1>10, EnteredActs
<1>12. 1 \in 1 .. Len(Code(u))
  BY <1>2, <1>4, CodeShaped DEF Shaped
<1>13. Standing(u, C, p, m, {}, 0)
  <2>1. C[0].want["RSP"] = Entry
    BY <1>2, <1>4, <1>7, StartFacts
  <2> QED  BY <1>5, <1>7, <1>9, <1>10, <1>11, <1>12, <2>1 DEF Standing
<1>14. Present \in Contexts
  BY <1>1, <1>2, StartFacts DEF Contexts, Present
<1>15. C \in [0 .. 0 -> Contexts] /\ p \in [0 .. 0 -> Int] /\ m \in [Words -> Int] /\ 0 \in 0 .. MaxNest
  BY <1>1, <1>2, <1>4, <1>6, <1>14, StartFacts, MemFacts, Layout
<1>16. Nested(u, 0, C, p, m, {})
  <2>1. \A l \in 0 .. 0 : l = 0
    OBVIOUS
  <2>2. \A l \in 0 .. 0 : Standing(u, C, p, m, {}, l)
    BY <1>13, <2>1
  <2>3. \A l \in 0 .. 0 : \A k2 \in 0 .. 0 : l < k2 => Under(u, C, p, l, k2)
    BY <2>1
  <2>4. \A l \in 0 .. 0 : l < 0 => Interrupted(u, C, p, {}, l)
    BY <2>1
  <2>5. Shared(VL(u, 0), Note(u, C, 0), m, Env(C, p, m, {}, 0))
    BY <1>5, <1>9, <1>11
  <2>6. {} \in SUBSET Blames /\ u \in Variant
    BY <1>2, <1>4
  <2> QED  BY <1>6, <1>15, <2>2, <2>3, <2>4, <2>5, <2>6 DEF Nested
<1>17. Tower(p)
  BY <1>2, <1>3, <1>4, <1>16 DEF Tower
<1>18. SafeReturn /\ TrapBlame /\ KillBlame /\ AccessGranted /\ PointerBalanced
  BY <1>1 DEF SafeReturn, TrapBlame, KillBlame, AccessGranted, PointerBalanced
<1> QED  BY <1>1, <1>2, <1>17, <1>18 DEF IInv

-------------------------------------------------------------------------------
(* The theorems.                                                           *)

\* Nothing changes when nothing happens.
LEMMA StutterKeeps ==
  ASSUME IInv, UNCHANGED vars
  PROVE  IInv'
<1>1. UNCHANGED <<variant, regs, mem, zf, pkru, pc, saved, want, hits, altered, status>>
  BY DEF vars
<1>2. variant' \in Variants /\ saved' \in Seq(Contexts)
  BY <1>1 DEF IInv
<1>3. Hit(Exposed)' = Hit(Exposed) /\ Hit(Unloaded)' = Hit(Unloaded) /\ Hit(ZeroRsp)' = Hit(ZeroRsp)
  BY <1>1, HitSame
<1>4. SafeReturn' /\ TrapBlame' /\ KillBlame' /\ AccessGranted' /\ PointerBalanced'
  BY <1>1, <1>3 DEF IInv, SafeReturn, TrapBlame, KillBlame, AccessGranted, PointerBalanced
<1>5. ASSUME status' = "run" PROVE \E p : Tower(p)'
  <2>1. PICK p : Tower(p)
    BY <1>1, <1>5 DEF IInv
  <2>2. Level' = Level /\ Present' = Present
    BY <1>1 DEF Level, Present
  <2>3. CtxOf' = CtxOf
    BY <1>1, <2>2 DEF CtxOf
  <2>4. Flags' = Flags
    BY <1>1, <1>3 DEF Flags
  <2>5. Tower(p)'
    BY <1>1, <2>1, <2>2, <2>3, <2>4 DEF Tower
  <2> QED  BY <2>5
<1> QED  BY <1>2, <1>4, <1>5 DEF IInv

\* The nesting invariant is inductive.
THEOREM NestingHolds == Spec => []IInv
<1>1. Init => IInv
  BY InitKeeps
<1>2. IInv /\ [Next]_vars => IInv'
  <2> SUFFICES ASSUME IInv, [Next]_vars PROVE IInv'
    OBVIOUS
  <2>1. CASE Step
    BY <2>1, StepKeeps
  <2>2. ASSUME NEW stray \in BOOLEAN, Body(stray) PROVE IInv'
    BY <2>2, BodyKeeps
  <2>3. CASE Back
    BY <2>3, BackKeeps
  <2>4. CASE Signal
    BY <2>4, SignalKeeps
  <2>5. CASE UNCHANGED vars
    BY <2>5, StutterKeeps
  <2> QED  BY <2>1, <2>2, <2>3, <2>4, <2>5 DEF Next
<1> QED  BY <1>1, <1>2, PTL DEF Spec

\* What the function's own code finds.
LEMMA BodyFinds ==
  ASSUME IInv, status = "run", Instr[1] = "body"
  PROVE  ArgsKept /\ EntryPushed /\ (variant.mpk => pkru = WriteProt)
<1>1. PICK p : Tower(p)
  BY DEF IInv
<1>2. PICK v, a, b, e, i : /\ v = VL(variant, Level) /\ a = Notes(v)[pc] /\ b = Notes(v)[pc + 1] /\ i = Instr
                           /\ e = Env(CtxOf, p, mem, Flags, Level)
  OBVIOUS
<1>3. Pre(v, a, e) /\ Rule(v, Instr, a, b)
  BY <1>1, <1>2, Stands
<1>4. RBody(v, i, a, b)
  BY <1>2, <1>3, RuleHead
<1>5. /\ v \in Variant /\ e \in Frames /\ Placed(v, e) /\ RegsMean(a, regs, e) /\ Live(v, a, e, regs, mem, zf, pkru)
      /\ EntryMeans(v, a, mem, e) /\ KeyMeans(v, a, pkru) /\ SlotMeans(v, a, mem, e) /\ Shared(v, a, mem, e)
      /\ v.mpk = variant.mpk
  BY <1>3, PreFacts DEF Live, Acts, Pre
<1>6. variant \in Variants /\ variant \in Variant /\ saved \in Seq(Contexts) /\ Running = v
  <2>1. variant \in Variants /\ saved \in Seq(Contexts)
    BY DEF IInv
  <2> QED  BY <1>2, <2>1, InstrIs
<1>7. v.scheme = variant.scheme /\ (Level = 0 => v = variant)
  BY <1>2, <1>6, Levels DEF VL
<1>8. e.w = want /\ e.l = Level /\ e.F = Flags /\ e.q = p[Level] /\ (Level = 0 => e.q = P0(v))
  <2>1. CtxOf[Level] = Present /\ Present.want = want
    BY <1>6, LevelFacts DEF Present
  <2>2. p[0] = P0(variant)
    BY <1>1 DEF Tower, Nested
  <2> QED  BY <1>2, <1>7, <2>1, <2>2, EnvFields
<1>9. \A r \in Regs : a.reg[r] = Want(r, 0) => regs[r] = want[r]
  BY <1>5, <1>8, MeansWant DEF RegsMean
<1>10. /\ a.fresh /\ (v.mpk => a.pk = "lock")
       /\ \A r \in {"RSP", "RCX", "RDX"} : a.reg[r] = Want(r, 0)
       /\ a.reg["R15"] = IF v.scheme = "REG" THEN Ptr(2) ELSE IF v.scheme = "PARR" THEN Ptr(0) ELSE Want("R15", 0)
       /\ a.reg["RAX"] \in {Ra, Lit(WriteProt)}
       /\ IF ~v.mpk /\ ~Stacked(v) THEN a.reg["R10"] = Want("R10", 0) ELSE a.reg["R10"] \in {Want("RCX", 0), Ptr(2)}
       /\ (~Mirrored(v) => Top(v, a) = 2 /\ a.ent = 2)
  BY <1>4 DEF RBody
<1>11. variant.mpk => pkru = WriteProt
  BY <1>5, <1>10 DEF KeyMeans
<1>12. \A r \in {"RCX", "RDX", "RSP"} \cup (IF Running.scheme \in {"REG", "PARR"} THEN {} ELSE {"R15"}) : regs[r] = want[r]
  <2>1. "RCX" \in Regs /\ "RDX" \in Regs /\ "RSP" \in Regs /\ "R15" \in Regs
    BY RegFacts
  <2> QED  BY <1>6, <1>9, <1>10, <2>1
<1>13. ASSUME Level = 0
       PROVE  regs["RAX"] # want["RAX"] /\ (regs["R10"] = want["R10"] <=> ~variant.mpk /\ variant.scheme \notin {"SEG", "MEM"})
  <2>1. want = InitRegs(v)
    BY <1>5, <1>8, <1>10, <1>13 DEF SlotMeans
  <2>2. want["RAX"] = ClaveBase + 10 /\ want["RCX"] = ClaveBase + 11 /\ want["R10"] = ClaveBase + 13
    BY <1>5, <2>1, StartFacts DEF Free, Argument
  <2>3. "RAX" \in Regs /\ "RCX" \in Regs /\ "R10" \in Regs
    BY RegFacts
  <2>4. regs["RAX"] = Caller \/ regs["RAX"] = WriteProt
    <3>1. Means(a.reg["RAX"], regs["RAX"], e)
      BY <1>5, <2>3 DEF RegsMean
    <3> QED  BY <1>8, <1>10, <1>13, <3>1 DEF Means, Ra, Tagged, Lit, RaOf
  <2>5. regs["RAX"] # want["RAX"]
    BY <2>2, <2>4, Layout
  <2>6. CASE ~v.mpk /\ ~Stacked(v)
    <3>1. regs["R10"] = want["R10"]
      BY <1>9, <1>10, <2>3, <2>6
    <3> QED  BY <1>5, <1>7, <2>5, <2>6, <3>1 DEF Stacked
  <2>7. CASE ~(~v.mpk /\ ~Stacked(v))
    <3>1. Means(a.reg["R10"], regs["R10"], e)
      BY <1>5, <2>3 DEF RegsMean
    <3>2. regs["R10"] = want["RCX"] + 0 \/ regs["R10"] = P0(v) + 2
      BY <1>8, <1>10, <1>13, <2>7, <3>1 DEF Means, Want, Ptr
    <3>3. P0(v) \in Int /\ P0(v) <= ShadowBase + 2
      BY <1>5, StartFacts
    <3>4. regs["R10"] # want["R10"]
      BY <2>2, <3>2, <3>3, Layout
    <3> QED  BY <1>5, <1>7, <2>5, <2>7, <3>4 DEF Stacked
  <2> QED  BY <2>6, <2>7
<1>14. ArgsKept
  BY <1>12, <1>13 DEF ArgsKept
<1>15. EntryPushed
  <2> SUFFICES ASSUME Level = 0, ~Hit(Exposed), variant.scheme \in {"REG", "SEG", "MEM"}
               PROVE  LET q == IF variant.scheme = "REG" THEN regs["R15"] ELSE mem[ShadowBase]
                      IN  q = Start(variant.scheme) + 2 /\ mem[q - 2] = Caller /\ mem[q - 1] = Entry
    BY DEF EntryPushed
  <2>1. ~Mirrored(v) /\ P0(v) = Start(variant.scheme) /\ P0(v) \in Int
    BY <1>5, <1>7, StartFacts DEF Mirrored, P0
  <2>2. mem[P0(v)] = Caller /\ mem[P0(v) + 1] = Entry
    <3>1. "raced" \notin e.F
      BY <1>8, FlagFacts
    <3>2. At(e) = Entry
      BY <1>5, <1>8 DEF Placed
    <3>3. mem[e.q] = RaOf(e.l) /\ mem[e.q + 1] = At(e)
      BY <1>5, <1>10, <2>1, <3>1 DEF EntryMeans
    <3> QED  BY <1>8, <3>2, <3>3 DEF RaOf
  <2>3. variant.scheme = "REG" => regs["R15"] = P0(v) + 2
    <3>1. Means(a.reg["R15"], regs["R15"], e)
      BY <1>5, RegFacts DEF RegsMean
    <3> QED  BY <1>7, <1>8, <1>10, <3>1 DEF Means, Ptr
  <2>4. variant.scheme # "REG" => mem[ShadowBase] = P0(v) + 2
    <3> SUFFICES ASSUME variant.scheme # "REG" PROVE mem[ShadowBase] = P0(v) + 2
      OBVIOUS
    <3>1. Stacked(v) /\ Top(v, a) = 2
      BY <1>7, <1>10, <2>1 DEF Stacked
    <3>2. a.ptr = 2
      BY <1>7, <3>1 DEF Top
    <3> QED  BY <1>5, <1>8, <3>1, <3>2 DEF Shared
  <2>5. PICK q : q = IF variant.scheme = "REG" THEN regs["R15"] ELSE mem[ShadowBase]
    OBVIOUS
  <2>6. q = P0(v) + 2 /\ q - 2 = P0(v) /\ q - 1 = P0(v) + 1
    BY <2>1, <2>3, <2>4, <2>5
  <2> QED  BY <2>1, <2>2, <2>5, <2>6
<1> QED  BY <1>11, <1>14, <1>15

\* What the last instruction finds.
LEMMA BackFinds ==
  ASSUME IInv, status = "run", Instr[1] = "back"
  PROVE  /\ (\A v \in Variants : ~Clobbers(v)) => ResultsKept
         /\ variant.mpk => pkru = WriteProt
<1>1. PICK p : Tower(p)
  BY DEF IInv
<1>2. PICK v, a, b, e, i : /\ v = VL(variant, Level) /\ a = Notes(v)[pc] /\ b = Notes(v)[pc + 1] /\ i = Instr
                           /\ e = Env(CtxOf, p, mem, Flags, Level)
  OBVIOUS
<1>3. Pre(v, a, e) /\ Rule(v, Instr, a, b)
  BY <1>1, <1>2, Stands
<1>4. RLeave(v, i, a, b)
  BY <1>2, <1>3, RuleHead
<1>5. v \in Variant /\ e \in Frames /\ RegsMean(a, regs, e) /\ KeyMeans(v, a, pkru) /\ v.mpk = variant.mpk
  BY <1>3, PreFacts DEF Live, Acts, Pre
<1>6. variant \in Variants /\ saved \in Seq(Contexts) /\ Running = v
  <2>1. variant \in Variants /\ saved \in Seq(Contexts)
    BY DEF IInv
  <2> QED  BY <1>2, <2>1, InstrIs
<1>7. e.w = want
  <2>1. CtxOf[Level] = Present /\ Present.want = want
    BY <1>6, LevelFacts DEF Present
  <2> QED  BY <1>2, <2>1, EnvFields
<1>8. /\ (v.mpk => a.pk = "lock") /\ (~Clobbers(v) => \A r \in v.reads : a.reg[r] = Want(r, 0))
      /\ a.reg["RSP"] \in {Here, Sure, Choice}
  BY <1>4 DEF RLeave
<1>9. variant.mpk => pkru = WriteProt
  BY <1>5, <1>8 DEF KeyMeans
<1>10. ASSUME \A w \in Variants : ~Clobbers(w) PROVE ResultsKept
  <2>1. ~Clobbers(HandlerOf(variant))
    BY DEF Clobbers, HandlerOf, Variant
  <2>2. ~Clobbers(v)
    BY <1>2, <1>6, <1>10, <2>1 DEF VL
  <2>3. v.reads \subseteq Regs
    BY <1>5 DEF Variant, Regs
  <2>4. \A r \in v.reads : regs[r] = want[r]
    <3> SUFFICES ASSUME NEW r \in v.reads PROVE regs[r] = want[r]
      OBVIOUS
    <3>1. r \in Regs /\ Means(Want(r, 0), regs[r], e)
      BY <1>5, <1>8, <2>2, <2>3 DEF RegsMean
    <3> QED  BY <1>5, <1>7, <3>1, MeansWant
  <2>5. regs["RSP"] # NullPage => regs["RSP"] = want["RSP"]
    <3>1. Means(a.reg["RSP"], regs["RSP"], e)
      BY <1>5, RegFacts DEF RegsMean
    <3>2. CASE a.reg["RSP"] = Here
      BY <1>5, <1>7, <3>1, <3>2, MeansHere DEF At
    <3>3. CASE a.reg["RSP"] \in {Sure, Choice}
      BY <1>7, <3>1, <3>3 DEF Means, Sure, Choice, Tagged, At
    <3> QED  BY <1>8, <3>2, <3>3
  <2> QED  BY <1>6, <2>4, <2>5 DEF ResultsKept
<1> QED  BY <1>9, <1>10

\* A prolog hands over the argument registers, rsp and r15 as the caller left
\* them, whatever signals arrive: for every variant, stack and nesting.
THEOREM ArgsKeptHolds == Spec => []ArgsKept
<1>1. IInv => ArgsKept
  BY BodyFinds DEF ArgsKept
<1> QED  BY <1>1, NestingHolds, PTL

\* At the function's first own instruction its entry is complete, unless a
\* handler was entered while it was exposed.
THEOREM EntryPushedHolds == Spec => []EntryPushed
<1>1. IInv => EntryPushed
  BY BodyFinds DEF EntryPushed
<1> QED  BY <1>1, NestingHolds, PTL

\* With pkeys no code outside the sequences runs with a writable shadow stack.
THEOREM ShadowLockedHolds == Spec => []ShadowLocked
<1>1. IInv => ShadowLocked
  BY BodyFinds, BackFinds DEF ShadowLocked
<1> QED  BY <1>1, NestingHolds, PTL

\* The last instruction finds every register it reads, unless a pkeys epilog
\* pushes onto the slot that keeps r11 (Clobbers, which run code_scratch shows).
THEOREM ResultsKeptHolds == (\A v \in Variants : ~Clobbers(v)) => (Spec => []ResultsKept)
<1> SUFFICES ASSUME \A v \in Variants : ~Clobbers(v) PROVE Spec => []ResultsKept
  OBVIOUS
<1>1. IInv => ResultsKept
  BY BackFinds DEF ResultsKept
<1> QED  BY <1>1, NestingHolds, PTL

\* Only a constructor leaves through an altered slot.
THEOREM SafeReturnHolds == Spec => []SafeReturn
<1>1. IInv => SafeReturn
  BY DEF IInv
<1> QED  BY <1>1, NestingHolds, PTL

\* An epilog stops the program only after a stray store or a signal at an
\* exposed entry.
THEOREM TrapBlameHolds == Spec => []TrapBlame
<1>1. IInv => TrapBlame
  BY DEF IInv
<1> QED  BY <1>1, NestingHolds, PTL

\* The kernel finds no stack for a handler only where checkRA() took it away.
THEOREM KillBlameHolds == Spec => []KillBlame
<1>1. IInv => KillBlame
  BY DEF IInv
<1> QED  BY <1>1, NestingHolds, PTL

\* No sequence is refused its own access, but for a signal before r15 is loaded.
THEOREM AccessGrantedHolds == Spec => []AccessGranted
<1>1. IInv => AccessGranted
  BY DEF IInv
<1> QED  BY <1>1, NestingHolds, PTL

\* A function that returned left the pointer where it found it.
THEOREM PointerBalancedHolds == Spec => []PointerBalanced
<1>1. IInv => PointerBalanced
  BY DEF IInv
<1> QED  BY <1>1, NestingHolds, PTL
=============================================================================
