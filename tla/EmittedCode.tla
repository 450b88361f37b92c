---------------------------- MODULE EmittedCode ----------------------------
(***************************************************************************)
(* One activation of an instrumented function, instruction by instruction: *)
(* the prolog and the epilog as the passes emit them, on a small x86.      *)
(* Signals arrive between any two instructions; the handler is itself an   *)
(* instrumented function and uses the same shadow stack.                   *)
(*                                                                         *)
(* Memory is counted in 8-byte words.  An instruction is a tuple: its name *)
(* and operands.                                                           *)
(***************************************************************************)
EXTENDS Integers, Sequences, FiniteSets

CONSTANTS
  Variants,     \* the functions and builds considered, see Variant
  StackTop,     \* the stack is the words 1 .. StackTop
  Entry,        \* where the function's return address lies
  ShadowBase,   \* the first word of the shadow stack
  ClaveBase,    \* the page gs points to under REG
  RedZone,      \* words below rsp the kernel leaves alone for a signal (16 words on x86-64)
  MaxSignals,   \* bound: signals delivered to one activation
  MaxNest       \* bound: handlers active at once

Schemes   == {"REG", "PARR", "SEG", "MEM", "CON"}
\* scheme; mpk: pkeys guard the shadow stack; tail: the block ends in a tail
\* call; reads: the registers its last instruction reads, of which a return has
\* only those of a result; ctor, load: the function is a constructor without
\* epilog, or reloads r15, which only X86ShadowStackReg knows.
Variant ==
  {v \in [scheme : Schemes, mpk : BOOLEAN, tail : BOOLEAN,
          reads : SUBSET {"RAX", "RCX", "RDX", "R10", "R11"}, load : BOOLEAN, ctor : BOOLEAN] :
     /\ v.tail \/ v.reads \subseteq {"RAX", "RDX"}
     /\ v.load \/ v.ctor => v.scheme \in {"REG", "PARR"}}

ASSUME LayoutAssumption ==
  /\ Variants \subseteq Variant
  /\ StackTop \in Nat /\ Entry \in 1 .. StackTop
  /\ RedZone \in Nat /\ RedZone >= 3
  /\ ShadowBase \in Nat /\ ShadowBase > StackTop
  /\ ClaveBase \in Nat /\ ClaveBase > ShadowBase + StackTop
  /\ MaxSignals \in Nat /\ MaxNest \in Nat

\* The stack does not run out: a sequence uses at most three words below its slot,
\* and the red zone lies below those when a signal arrives.
ASSUME RoomAssumption == Entry >= MaxNest * (RedZone + 3) + 4

Stack  == 1 .. StackTop
Shadow == ShadowBase .. ShadowBase + StackTop - 1
Clave  == ClaveBase .. ClaveBase + 4
Words  == Stack \cup Shadow \cup Clave
Regs   == {"RAX", "RCX", "RDX", "R10", "R11", "R15", "RSP", "GS"}

\* Values that are no address of a word above.
Caller     == ClaveBase + 5   \* the function's return address
Restorer   == ClaveBase + 6   \* a handler's return address, which calls sigreturn
Altered    == ClaveBase + 7   \* what a stray store leaves in the return address
Foreign    == ClaveBase + 8   \* what r15 holds in code that does not reserve it

NullPage   == 0      \* no word of memory
OpenAll    == 0      \* PKRU: everything writable
WriteProt  == 8      \* PKRU: WRITE_PROTECTION, writes through key 1 disabled
AccessProt == 4      \* PKRU as the kernel sets it for a handler: key 1 disabled
ParOffset  == ShadowBase - 1

-----------------------------------------------------------------------------
(* The sequences.  Operand order: destination first. *)

\* Mutant: the value is never written to PKRU.
WRPKRUILoadOnly(imm) == <<<<"imm", "RAX", imm>>, <<"imm", "RCX", 0>>, <<"imm", "RDX", 0>>>>
WRPKRUI(imm) == <<<<"imm", "RAX", imm>>, <<"imm", "RCX", 0>>, <<"imm", "RDX", 0>>, <<"wrpkru">>>>
\* Mutant: protection is not restored.
ProtectNever == << >>
Protect      == <<<<"imm", "RAX", WriteProt>>, <<"wrpkru">>>>
SaveArgs     == <<<<"mov", "R10", "RCX">>, <<"mov", "R11", "RDX">>>>
\* Mutant: the two registers are swapped.
RestoreArgsSwapped == <<<<"mov", "RCX", "R11">>, <<"mov", "RDX", "R10">>>>
RestoreArgs  == <<<<"mov", "RCX", "R10">>, <<"mov", "RDX", "R11">>>>
If(c, seq)   == IF c THEN seq ELSE << >>

LoadR15(v) == If(v.load, <<<<"load", "R15", "GS", IF v.scheme = "PARR" THEN 0 ELSE 2>>>>)

\* The entry's two words, and the pointer moved past them.
PushReg == <<<<"load", "RAX", "RSP", 0>>, <<"store", "R15", 0, "RAX">>,
             <<"store", "R15", 1, "RSP">>, <<"add", "R15", 2>>>>
\* Mutant: the pointer moves by one word.
PushSegHalf(ra) ==
  <<<<"load", "RAX", "RSP", 0>>, <<"load", ra, "GS", 0>>, <<"store", ra, 0, "RAX">>,
    <<"store", ra, 1, "RSP">>, <<"add", ra, 1>>, <<"store", "GS", 0, ra>>>>
PushSeg(ra) ==
  <<<<"load", "RAX", "RSP", 0>>, <<"load", ra, "GS", 0>>, <<"store", ra, 0, "RAX">>,
    <<"store", ra, 1, "RSP">>, <<"add", ra, 2>>, <<"store", "GS", 0, ra>>>>
PushMem ==
  <<<<"load", "RAX", "RSP", 0>>, <<"imm", "RDX", ShadowBase>>, <<"load", "RCX", "RDX", 0>>,
    <<"store", "RCX", 0, "RAX">>, <<"store", "RCX", 1, "RSP">>, <<"addm", "RDX", 2>>>>

Prolog(v) ==
  LET open  == If(v.mpk, SaveArgs \o WRPKRUI(OpenAll))
      close == If(v.mpk, Protect \o RestoreArgs)
  IN CASE v.scheme = "REG"  -> open \o PushReg \o close
       [] v.scheme = "PARR" ->
            open \o <<<<"load", "RAX", "RSP", 0>>, <<"storex", "RSP", "R15", "RAX">>>> \o close
       [] v.scheme = "SEG"  ->
            open \o PushSeg(IF v.mpk THEN "RCX" ELSE "R10") \o If(v.mpk, <<<<"imm", "RCX", 0>>>>) \o close
       [] v.scheme = "MEM"  ->
            SaveArgs \o If(v.mpk, WRPKRUI(OpenAll)) \o PushMem
            \o If(v.mpk, <<<<"imm", "RCX", 0>>, <<"imm", "RDX", 0>>>> \o Protect) \o RestoreArgs
       [] v.scheme = "CON"  ->
            open \o <<<<"load", "RAX", "RSP", 0>>, <<"store", "RSP", ParOffset, "RAX">>>> \o close

\* Mutant: r11 is saved over the return address.
SaveScratchTop(v) ==
  If("R11" \in v.reads, <<<<"store", "RSP", 0, "R11">>>>)
  \o If("R10" \in v.reads, <<<<"store", "RSP", -3, "R10">>>>)
\* The slots below rsp that keep r10 and r11 for a tail call.
SaveScratch(v) ==
  If("R11" \in v.reads, <<<<"store", "RSP", -2, "R11">>>>)
  \o If("R10" \in v.reads, <<<<"store", "RSP", -3, "R10">>>>)
\* Mutant: r11 is restored from the wrong slot.
RestoreScratchAbove(v) ==
  If("R11" \in v.reads, <<<<"load", "R11", "RSP", -1>>>>)
  \o If("R10" \in v.reads, <<<<"load", "R10", "RSP", -3>>>>)
RestoreScratch(v) ==
  If("R11" \in v.reads, <<<<"load", "R11", "RSP", -2>>>>)
  \o If("R10" \in v.reads, <<<<"load", "R10", "RSP", -3>>>>)

\* Mutants: no comparison before a tail call; rsp is cleared before the comparison.
CheckRAUnlessTail(v) == If(~v.tail,
  <<<<"mov", "R10", "RSP">>, <<"xorm", "R11", "RSP">>, <<"imm", "RSP", NullPage>>, <<"cmove", "RSP", "R10">>>>)
CheckRAEarly(v) ==
  <<<<"mov", "R10", "RSP">>, <<"imm", "RSP", NullPage>>, <<"xorm", "R11", "R10">>, <<"cmove", "RSP", "R10">>>>
CheckRA(v) ==
  <<<<"mov", "R10", "RSP">>, <<"xorm", "R11", "RSP">>, <<"imm", "RSP", NullPage>>, <<"cmove", "RSP", "R10">>>>

CheckRALBP(v) ==
  <<IF v.tail THEN <<"load", "R10", "RSP", 0>> ELSE <<"pop", "R10">>,
    <<"xor", "R11", "R10">>, <<"popcnt", "R11">>, <<"probe", "R11">>>>
  \o If(~v.tail, <<<<"jmp", "R10">>>>)

\* Mutant: the pointer is not moved back.
PopRegPeek == <<<<"load", "R11", "R15", -2>>>>
PopReg == <<<<"load", "R11", "R15", -2>>, <<"add", "R15", -2>>>>

\* rax and rdx hold a returned value, rcx and rdx arguments of a tail call.
PopSeg(v) ==
  LET reg1    == IF v.tail THEN "RCX" ELSE "RAX"
      raxRead == "RAX" \in v.reads
  IN If(v.mpk, If(raxRead, <<<<"push", "RAX">>>>)
               \o <<<<"mov", "R10", reg1>>, <<"push", "RDX">>>> \o WRPKRUI(OpenAll))
     \o <<<<"load", "R11", "GS", 0>>, <<"add", "R11", -2>>, <<"store", "GS", 0, "R11">>,
          <<"load", "R11", "R11", 0>>>>
     \o If(v.mpk, Protect \o <<<<"mov", reg1, "R10">>, <<"pop", "RDX">>>>
                  \o If(raxRead, <<<<"pop", "RAX">>>>))

PopMem(v) ==
  <<<<"mov", "R10", "RAX">>, <<"push", "RDX">>>>
  \o If(v.mpk, <<<<"push", "RCX">>>> \o WRPKRUI(OpenAll))
  \o <<<<"imm", "RDX", ShadowBase>>, <<"addm", "RDX", -2>>, <<"load", "R11", "RDX", 0>>,
       <<"load", "R11", "R11", 0>>>>
  \o If(v.mpk, <<<<"imm", "RDX", 0>>>> \o Protect \o <<<<"pop", "RCX">>>>)
  \o <<<<"pop", "RDX">>, <<"mov", "RAX", "R10">>>>

Epilog(v) ==
  LET checked == CASE v.scheme = "REG"  -> PopReg \o CheckRALBP(v)
                   [] v.scheme = "PARR" -> <<<<"loadx", "R11", "RSP", "R15">>>> \o CheckRALBP(v)
                   [] v.scheme = "SEG"  -> PopSeg(v) \o CheckRA(v)
                   [] v.scheme = "MEM"  -> PopMem(v) \o CheckRA(v)
                   [] v.scheme = "CON"  -> <<<<"load", "R11", "RSP", ParOffset>>>> \o CheckRA(v)
  IN If(~v.ctor, SaveScratch(v) \o checked \o RestoreScratch(v))

\* The whole function: its own code is one step, and so is its last instruction.
Code(v) == LoadR15(v) \o Prolog(v) \o <<<<"body">>>> \o Epilog(v) \o <<<<"back">>>>

-----------------------------------------------------------------------------
(* The machine. *)

VARIABLES
  variant,  \* which function and build this is
  regs, mem, zf, pkru,
  pc,       \* index into Code(variant)
  saved,    \* contexts of interrupted activations, the newest last
  want,     \* history: register values the next stretch of program code must find
  hits,     \* history: where signals arrived, as pairs (handlers active, pc)
  altered,  \* history: the function or a handler overwrote its own return address
  status

vars == <<variant, regs, mem, zf, pkru, pc, saved, want, hits, altered, status>>

\* A handler is an ordinary function of the same build.
HandlerOf(v) == [v EXCEPT !.tail = FALSE, !.reads = {"RAX"}, !.load = FALSE, !.ctor = FALSE]
Handler == HandlerOf(variant)
Level   == Len(saved)
Running == IF Level = 0 THEN variant ELSE Handler
CodeOf  == [v \in Variants \cup {HandlerOf(v) : v \in Variants} |-> Code(v)]
Instr   == CodeOf[Running][pc]

\* Where the first entry goes, once the runtime has set the shadow stack up.
Start(scheme) == CASE scheme = "SEG" -> ShadowBase + 2
                   [] scheme = "MEM" -> ShadowBase + 1
                   [] OTHER -> ShadowBase
Header(scheme) == IF scheme \in {"SEG", "MEM"} THEN {ShadowBase} ELSE {}

\* Register r holds a value of its own when the function is entered.
Argument(r) ==
  ClaveBase + (CASE r = "RAX" -> 10 [] r = "RCX" -> 11 [] r = "RDX" -> 12
                 [] r = "R10" -> 13 [] r = "R11" -> 14)

InitRegs(v) ==
  [r \in Regs |->
     CASE r = "RSP" -> Entry
       [] r = "GS"  -> IF v.scheme = "SEG" THEN ShadowBase ELSE ClaveBase
       [] r = "R15" -> IF v.load \/ v.scheme \in {"SEG", "MEM", "CON"} THEN Foreign
                       ELSE IF v.scheme = "REG" THEN ShadowBase ELSE ParOffset
       [] OTHER -> Argument(r)]

InitMem(v) ==
  [a \in Words |->
     CASE a = Entry -> Caller
       [] a \in Header(v.scheme) -> Start(v.scheme)
       [] a = ClaveBase -> ParOffset
       [] a \in {ClaveBase + 1, ClaveBase + 2} -> ShadowBase
       [] a = ClaveBase + 4 -> ClaveBase
       [] OTHER -> 0]

Init ==
  /\ variant \in Variants
  /\ regs = InitRegs(variant)
  /\ mem = InitMem(variant)
  /\ zf = FALSE
  /\ pkru = IF variant.mpk THEN WriteProt ELSE OpenAll
  /\ pc = 1
  /\ saved = << >>
  /\ want = regs
  /\ hits = {}
  /\ altered = FALSE
  /\ status = "run"

\* An xor, of which only being zero matters.
Differ(a, b) == IF a = b THEN 0 ELSE 1

\* Memory accesses the hardware refuses.  Those through a zero rsp, and the
\* read beyond the sentinel, are how an epilog stops the program.
Blocked(a, write) ==
  /\ variant.mpk /\ a \in Shadow
  /\ \/ pkru = AccessProt
     \/ write /\ pkru = WriteProt
Fault(a, write) == CASE a \notin Words -> IF a <= NullPage THEN "trap" ELSE "segv"
                     [] a \in Words /\ Blocked(a, write) -> "pkfault"
                     [] OTHER -> "run"

Set(r, x)   == regs' = [regs EXCEPT ![r] = x]
Advance     == pc' = pc + 1 /\ UNCHANGED <<variant, saved, want, hits, altered>>
Read(r, a)  == /\ status' = Fault(a, FALSE)
               /\ IF a \in Words THEN Set(r, mem[a]) ELSE UNCHANGED regs
               /\ UNCHANGED <<mem, zf, pkru>>
Write(a, x) == /\ status' = Fault(a, TRUE)
               /\ mem' = IF Fault(a, TRUE) = "run" THEN [mem EXCEPT ![a] = x] ELSE mem
               /\ UNCHANGED <<zf, pkru>>
Compute(r, x) == Set(r, x) /\ UNCHANGED <<mem, zf, pkru, status>>

Exec(i) ==
  \/ i[1] = "load"   /\ Read(i[2], regs[i[3]] + i[4])
  \/ i[1] = "loadx"  /\ Read(i[2], regs[i[3]] + regs[i[4]])
  \/ i[1] = "store"  /\ Write(regs[i[2]] + i[3], regs[i[4]]) /\ UNCHANGED regs
  \/ i[1] = "storex" /\ Write(regs[i[2]] + regs[i[3]], regs[i[4]]) /\ UNCHANGED regs
  \/ i[1] = "addm"   /\ regs[i[2]] \in Words
                     /\ Write(regs[i[2]], mem[regs[i[2]]] + i[3]) /\ UNCHANGED regs
  \/ i[1] = "push"   /\ Write(regs["RSP"] - 1, regs[i[2]]) /\ Set("RSP", regs["RSP"] - 1)
  \/ i[1] = "pop"    /\ regs["RSP"] \in Words
                     /\ regs' = [regs EXCEPT ![i[2]] = mem[regs["RSP"]], !["RSP"] = @ + 1]
                     /\ UNCHANGED <<mem, zf, pkru, status>>
  \/ i[1] = "mov"    /\ Compute(i[2], regs[i[3]])
  \/ i[1] = "imm"    /\ Compute(i[2], i[3])
  \/ i[1] = "add"    /\ Compute(i[2], regs[i[2]] + i[3])
  \/ i[1] = "popcnt" /\ Compute(i[2], regs[i[2]])
  \/ i[1] = "xor"    /\ Compute(i[2], Differ(regs[i[2]], regs[i[3]]))
  \/ /\ i[1] = "xorm" /\ regs[i[3]] \in Words
     /\ Set(i[2], Differ(regs[i[2]], mem[regs[i[3]]]))
     /\ zf' = (regs[i[2]] = mem[regs[i[3]]])
     /\ UNCHANGED <<mem, pkru, status>>
  \/ i[1] = "cmove"  /\ Compute(i[2], IF zf THEN regs[i[3]] ELSE regs[i[2]])
  \/ \* the last readable byte below the sentinel's guard page is at offset 0
     /\ i[1] = "probe"
     /\ status' = IF regs[i[2]] = 0 THEN "run" ELSE "trap"
     /\ UNCHANGED <<regs, mem, zf, pkru>>
  \/ i[1] = "wrpkru" /\ pkru' = regs["RAX"] /\ UNCHANGED <<regs, mem, zf, status>>

\* An instruction of a prolog or an epilog.
Step ==
  /\ status = "run"
  /\ Instr[1] \notin {"body", "back", "jmp"}
  /\ Exec(Instr)
  /\ Advance

\* The function's own code: it may use every register it does not have to
\* keep, leaves what its last instruction reads, and may overwrite its own
\* return address.
Body(stray) ==
  /\ status = "run"
  /\ Instr[1] = "body"
  /\ regs' = [r \in Regs |-> IF r \in {"RSP", "GS", "R15"} THEN regs[r] ELSE Argument(r) + 10]
  /\ mem' = IF stray THEN [mem EXCEPT ![regs["RSP"]] = Altered] ELSE mem
  /\ altered' = (altered \/ stray)
  /\ want' = regs'
  /\ pc' = pc + 1
  /\ UNCHANGED <<variant, zf, pkru, saved, hits, status>>

\* Control goes to `target`: the first activation returns to its caller, a
\* handler to the kernel, which restores the context it saved.
Leave(target) ==
  IF Level = 0 \/ target # Restorer
    THEN /\ status' = IF target = (IF Level = 0 THEN Caller ELSE Restorer) THEN "returned" ELSE "diverted"
         /\ UNCHANGED <<variant, regs, mem, zf, pkru, pc, saved, want, hits, altered>>
    ELSE LET c == saved[Level]
         IN /\ regs' = c.regs /\ zf' = c.zf /\ pkru' = c.pkru /\ pc' = c.pc /\ want' = c.want
            /\ saved' = SubSeq(saved, 1, Level - 1)
            /\ UNCHANGED <<variant, mem, hits, altered, status>>

\* The last instruction: a return, or a jump that hands the slot on to a callee
\* that returns in its turn.
Back ==
  /\ status = "run"
  /\ Instr[1] \in {"back", "jmp"}
  /\ IF Instr[1] = "jmp" THEN Leave(regs[Instr[2]])
     ELSE IF regs["RSP"] \notin Words
       THEN /\ status' = "trap"
            /\ UNCHANGED <<variant, regs, mem, zf, pkru, pc, saved, want, hits, altered>>
       ELSE Leave(mem[regs["RSP"]])

\* The kernel enters the handler, which is a function of the same build, on
\* the interrupted stack.
Signal ==
  /\ status = "run"
  /\ Cardinality(hits) < MaxSignals /\ <<Level, pc>> \notin hits
  /\ Level < MaxNest
  /\ hits' = hits \cup {<<Level, pc>>}
  /\ LET slot == regs["RSP"] - RedZone - 1
     IN IF slot \notin Stack
          THEN /\ status' = "sigkill"
               /\ UNCHANGED <<variant, regs, mem, zf, pkru, pc, saved, want, altered>>
          ELSE /\ saved' = Append(saved, [regs |-> regs, zf |-> zf, pkru |-> pkru, pc |-> pc, want |-> want])
               /\ mem' = [mem EXCEPT ![slot] = Restorer]
               /\ regs' = [regs EXCEPT !["RSP"] = slot]
               /\ want' = regs'
               /\ pkru' = IF variant.mpk THEN AccessProt ELSE pkru
               /\ pc' = 1
               /\ UNCHANGED <<variant, zf, altered, status>>

Next == Step \/ (\E stray \in BOOLEAN : Body(stray)) \/ Back \/ Signal

Spec == Init /\ [][Next]_vars

-----------------------------------------------------------------------------
(* Where a signal is not harmless. *)

\* An entry is above the pointer but not done with: a prolog has stored it and
\* not yet moved the pointer, or an epilog has moved the pointer and not yet
\* loaded it.
Scratch(v) == IF v.mpk THEN "RCX" ELSE "R10"
Opens(v) ==
  CASE v.scheme = "REG" -> {<<"store", "R15", 0, "RAX">>}
    [] v.scheme = "SEG" -> {<<"store", Scratch(v), 0, "RAX">>, <<"store", "GS", 0, "R11">>}
    [] v.scheme = "MEM" -> {<<"store", "RCX", 0, "RAX">>, <<"addm", "RDX", -2>>}
    [] OTHER -> {}
Closes(v) ==
  CASE v.scheme = "REG" -> {<<"add", "R15", 2>>}
    [] v.scheme = "SEG" -> {<<"store", "GS", 0, Scratch(v)>>, <<"load", "R11", "R11", 0>>}
    [] v.scheme = "MEM" -> {<<"addm", "RDX", 2>>, <<"load", "R11", "R11", 0>>}
    [] OTHER -> {}
Exposed(v) ==
  {k \in DOMAIN CodeOf[v] : \E j \in 1 .. k - 1 :
     CodeOf[v][j] \in Opens(v) /\ \A i \in j + 1 .. k - 1 : CodeOf[v][i] \notin Closes(v)}
\* rsp is zero while checkRA() chooses its new value.
ZeroRsp(v) == {k \in DOMAIN CodeOf[v] : CodeOf[v][k] = <<"cmove", "RSP", "R10">>}
\* r15 still holds what the caller had in it.
Unloaded(v) == IF v.load THEN {1} ELSE {}

Hit(Window(_)) == \E h \in hits : h[2] \in Window(IF h[1] = 0 THEN variant ELSE Handler)

-----------------------------------------------------------------------------
(* Properties. *)

TypeOK ==
  /\ variant \in Variants
  /\ regs \in [Regs -> Int] /\ mem \in [Words -> Int]
  /\ zf \in BOOLEAN /\ pkru \in {OpenAll, WriteProt, AccessProt}
  /\ pc \in DOMAIN CodeOf[Running]
  /\ Level <= MaxNest
  /\ hits \subseteq (0 .. MaxNest) \X Nat
  /\ altered \in BOOLEAN
  /\ status \in {"run", "returned", "diverted", "trap", "pkfault", "segv", "sigkill"}

\* A prolog hands over to the function the argument registers, rsp and, where
\* the scheme does not own it, r15, as the caller left them, whatever signals
\* arrive.  It does not hand over rax, with which a caller tells a variadic
\* function about vector arguments, and keeps r10, a nested function's static
\* chain, exactly where it has a spare register: without pkeys, in all schemes
\* but SEG and MEM.
ArgsKept ==
  status = "run" /\ Instr[1] = "body" =>
    /\ \A r \in {"RCX", "RDX", "RSP"} \cup (IF Running.scheme \in {"REG", "PARR"} THEN {} ELSE {"R15"}) :
         regs[r] = want[r]
    /\ Level = 0 =>
         /\ regs["RAX"] # want["RAX"]
         /\ regs["R10"] = want["R10"] <=> ~variant.mpk /\ variant.scheme \notin {"SEG", "MEM"}

\* "Restore R10, R11 if necessary": the block's last instruction finds each
\* register it reads, and rsp, as the function left them.
ResultsKept ==
  status = "run" /\ Instr[1] = "back" /\ regs["RSP"] # NullPage =>
    \A r \in Running.reads \cup {"RSP"} : regs[r] = want[r]

\* With pkeys, the function's own code and its callees never run with a
\* writable shadow stack, not even after a signal in the middle of a prolog.
ShadowLocked ==
  variant.mpk /\ status = "run" /\ Instr[1] \in {"body", "back"} => pkru = WriteProt

\* No sequence is refused its own access: neither by the pkey nor by an
\* unmapped page, unless a handler was entered before main loaded r15.
AccessGranted ==
  /\ status # "pkfault"
  /\ status = "segv" => Hit(Unloaded)

\* Only a constructor, which has no epilog, leaves through an altered slot.
SafeReturn == status = "diverted" => altered /\ variant.ctor

\* Without a stray store, an epilog stops the program only if a handler was
\* entered while an entry was exposed: never for the mirrored stacks.
TrapBlame == status = "trap" => altered \/ Hit(Exposed)

\* The kernel cannot enter a handler, and kills the program, only while
\* checkRA() holds rsp at zero, or after its comparison has failed.
KillBlame == status = "sigkill" => Hit(ZeroRsp) \/ altered \/ Hit(Exposed)

\* What MinimalStack calls one step: at the function's first own instruction
\* its entry is complete, just below the pointer, unless a handler was
\* entered while it was exposed.
EntryPushed ==
  status = "run" /\ Level = 0 /\ Instr[1] = "body" /\ ~Hit(Exposed) /\ variant.scheme \in {"REG", "SEG", "MEM"} =>
    LET p == IF variant.scheme = "REG" THEN regs["R15"] ELSE mem[ShadowBase]
    IN p = Start(variant.scheme) + 2 /\ mem[p - 2] = Caller /\ mem[p - 1] = Entry

\* A function that returned left the pointer where it found it, whatever
\* signals arrived.
PointerBalanced ==
  status = "returned" /\ ~variant.ctor =>
    CASE variant.scheme = "REG"  -> regs["R15"] = ShadowBase
      [] variant.scheme = "PARR" -> regs["R15"] = ParOffset
      [] variant.scheme \in {"SEG", "MEM"} -> mem[ShadowBase] = Start(variant.scheme)
      [] OTHER -> TRUE
=============================================================================
