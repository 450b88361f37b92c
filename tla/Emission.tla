------------------------------- MODULE Emission -------------------------------
(***************************************************************************)
(* The last step of the compiler, X86MCInstLower.cpp: machine instructions *)
(* of one function become bytes.  Three things about the bytes matter to   *)
(* whoever patches them at run time, and none can be seen in one           *)
(* instruction:                                                            *)
(*  - a STACKMAP promises a number of bytes behind it that may be          *)
(*    overwritten; StackMapShadowTracker counts what is emitted and pads   *)
(*    with nops before something that must not lie inside;                 *)
(*  - a sled (XRay), a patch point and a TLS sequence have a fixed shape   *)
(*    that the runtime or the linker rewrites as a whole;                  *)
(*  - an instruction may be replaced by a shorter one, and a nop is put    *)
(*    between a call and a Windows epilog for the unwinder's sake.         *)
(* Only sizes are modelled, not encodings.                                 *)
(***************************************************************************)
EXTENDS Integers, Sequences, FiniteSets, SequencesExt

CONSTANTS
  MaxInstrs,    \* machine instructions in the function
  ShadowSizes,  \* what a STACKMAP may promise
  PatchSizes,   \* what a PATCHPOINT or a STATEPOINT may ask for
  SrcRegs,      \* registers the operands of an event sled may be in
  Scratch,      \* registers a PATCHPOINT may call through
  Samples       \* the machine instructions that go through Lower()

ASSUME SizesAssumption ==
  /\ MaxInstrs \in Nat
  /\ ShadowSizes \subseteq Nat
  /\ PatchSizes \subseteq Nat

VARIABLES
  is64,   \* the subtarget
  out,    \* bytes so far, and the tracker: InShadow, RequiredShadowSize, CurrentShadowSize
  lands,  \* where control may arrive: return addresses and branch targets, with their origin
  maps,   \* the stack maps recorded: place and promised bytes
  whole,  \* the pieces of code that are rewritten as a whole: kind, place, length
  epilogs,\* where Windows epilogs begin
  called, \* the last instruction that is not a pseudo instruction was a call
  last,   \* what the last step lowered: an instruction before and after, or an event sled's registers
  n,      \* machine instructions lowered
  term,   \* the block has its terminator
  done
vars == <<is64, out, lands, maps, whole, epilogs, called, last, n, term, done>>
-------------------------------------------------------------------------------
(* The tracker.                                                            *)

\* EmitInstruction() without count(): the tracker does not see the bytes.
Silent(o, size) == [o EXCEPT !.pos = @ + size]

\* count(): bytes towards the shadow until it is long enough.  The mutant
\* stops a byte early.
CountEarly(o, size) ==
  IF o.inShadow
  THEN [o EXCEPT !.current = @ + size, !.inShadow = o.current + size + 1 < o.required]
  ELSE o
Count(o, size) ==
  IF o.inShadow
  THEN [o EXCEPT !.current = @ + size, !.inShadow = o.current + size < o.required]
  ELSE o

\* EmitAndCountInstruction().
Emit(o, size) == Count(Silent(o, size), size)

\* EmitNop(): the size of the longest nop that fits, with up to five prefixes.
NopSize(bytes) ==
  LET bare     == IF bytes > 10 THEN 10 ELSE bytes
      prefixes == IF bytes - bare > 5 THEN 5 ELSE bytes - bare
  IN  bare + prefixes

\* EmitNops(): what the loop has emitted when it stops.
EmitNops(bytes) ==
  LET left[b \in 0 .. bytes] == IF b = 0 THEN 0 ELSE NopSize(b) + left[b - NopSize(b)]
  IN  left[bytes]

\* emitShadowPadding().
Pad(o) ==
  IF o.inShadow /\ o.current < o.required
  THEN [Silent(o, EmitNops(o.required - o.current)) EXCEPT !.inShadow = FALSE]
  ELSE o

\* StackMapShadowTracker::reset(), in X86AsmPrinter.h.
Reset(o, bytes) == [o EXCEPT !.inShadow = TRUE, !.required = bytes, !.current = 0]

\* MCStreamer::EmitCodeAlignment(2).  The mutant leaves the sled where it falls.
Align2Not(o) == o
Align2(o) == Silent(o, o.pos % 2)

\* Instructions one after the other.
EmitAll(o, sizes) ==
  LET upTo[k \in 0 .. Len(sizes)] ==
        IF k = 0 THEN o ELSE Emit(upTo[k - 1], sizes[k])
  IN  upTo[Len(sizes)]

\* Sizes of the instructions the lowerings below make.
PushPop == 1
MovReg  == 3
CallRel == 5
-------------------------------------------------------------------------------
(* Lower(): shorter forms and pseudo instructions.  A machine instruction  *)
(* is [op, form, width, args]: forms are "rr", "ri", "mr" and so on, and   *)
(* the ones Lower() introduces are "rev", "acc", "abs" and "short".        *)

\* isX86_64ExtendedReg(), and the accumulators of the four widths.
Extended    == {"r8", "r9", "r10", "r11", "xmm8", "xmm9"}
Accumulator == {"al", "ax", "eax", "rax"}

Acc(width)  == CASE width = 8 -> "al" [] width = 16 -> "ax" [] width = 32 -> "eax" [] width = 64 -> "rax"

\* The instructions Lower() knows a shorter encoding of.
MoveForms == {"mr", "rm"}
VexMoves == {"vmovaps", "vmovdqu", "vmovzpqi"}
ArithOps == {"add", "or", "xor", "cmp", "test"}

\* Commute a register move so that only the register in VEX.R is extended; of
\* VMOVSDrr and VMOVSSrr the second source counts.
Commuted(mi) ==
  LET from == mi.args[Len(mi.args)]
  IN  IF mi.args[1] \notin Extended /\ from \in Extended
      THEN [mi EXCEPT !.form = "rev"] ELSE mi

\* Calls and tail jumps through a register keep only the callee.
Callee(mi) == [mi EXCEPT !.args = <<mi.args[1]>>]

\* EH_RETURN, CLEANUPRET and CATCHRET end as a return.
Return(mi) == [op |-> "ret", form |-> "", width |-> 0, args |-> IF mi.op = "catchret" THEN <<"rax">> ELSE <<>>]

\* The branches on a condition.
Conditions == {"jo", "jno", "jb", "jae", "je", "jne", "jbe", "ja",
               "js", "jns", "jp", "jnp", "jl", "jge", "jle", "jg"}

\* TAILJMPd and TAILJMPd_CC: a jump, or the branch on the condition.
TailJump(mi) ==
  [mi EXCEPT !.op = IF @ = "tailjmp_cc" THEN mi.args[2] ELSE "jmp", !.args = <<mi.args[1]>>]

\* The one byte forms exist only outside 64-bit mode.
IncDec(mi) == IF is64 THEN mi ELSE [mi EXCEPT !.form = "short"]

\* ADD of disjoint bits is OR; ACQUIRE_ and RELEASE_ instructions are ordinary.
Plain == [add_db |-> "or", acquire_mov |-> "mov", release_mov |-> "mov",
          release_add |-> "add", release_xor |-> "xor", release_inc |-> "inc"]

\* SimplifyShortImmForm(): the accumulator need not be named.
ShortImm(mi) ==
  IF mi.args[1] \in Accumulator
  THEN [mi EXCEPT !.form = "acc", !.args = <<mi.args[Len(mi.args)]>>] ELSE mi

\* SimplifyShortMoveForm(): a move between the accumulator and an absolute
\* address, or a TLVP symbol, whatever its base.
ShortMove(mi) ==
  IF \/ is64
     \/ mi.args[1] \notin Accumulator
     \/ mi.args[3] # "tlvp" /\ mi.args[2] # "none"
  THEN mi
  ELSE [mi EXCEPT !.form = IF @ = "mr" THEN "abs_mr" ELSE "abs_rm", !.args = <<mi.args[3]>>]

\* SimplifyMOVSX().  The mutant looks at the destination alone.
ShortSextAnySource(mi) ==
  IF mi.args[1] \in {"ax", "eax", "rax"}
  THEN [mi EXCEPT !.form = "short", !.args = <<>>] ELSE mi
ShortSext(mi) ==
  IF mi.args \in {<<"ax", "al">>, <<"eax", "ax">>, <<"rax", "eax">>}
  THEN [mi EXCEPT !.form = "short", !.args = <<>>] ELSE mi

\* One round of Lower()'s switch.
Simplified(mi) ==
  CASE mi.form = "rr" /\ mi.op \in VexMoves \cup {"vmovsd"} -> Commuted(mi)
    [] mi.form = "r" /\ mi.op \in {"call", "tailjmp_r64"}    -> Callee(mi)
    [] mi.op \in {"eh_return", "cleanupret", "catchret"}    -> Return(mi)
    [] mi.op \in {"tailjmp", "tailjmp_cc"}                  -> TailJump(mi)
    [] mi.op = "inc" /\ mi.form = "r"                       -> IncDec(mi)
    [] mi.op = "mov" /\ mi.form \in MoveForms               -> ShortMove(mi)
    [] mi.op \in ArithOps /\ mi.form = "ri"                 -> ShortImm(mi)
    [] mi.op = "movsx"                                      -> ShortSext(mi)
    [] OTHER                                                -> mi

\* Lower(): what the pseudo instructions stand for is simplified again.
Lower(mi) ==
  IF mi.op \in DOMAIN Plain THEN Simplified([mi EXCEPT !.op = Plain[mi.op]])
                            ELSE Simplified(mi)

\* Bytes of an instruction, as far as the forms above differ.
Size(mi) ==
  CASE mi.form = "rr" /\ mi.op \in VexMoves \cup {"vmovsd"}
                          -> IF mi.args[Len(mi.args)] \in Extended THEN 5 ELSE 4
    [] mi.form = "rev"    -> IF mi.args[1] \in Extended THEN 5 ELSE 4
    [] mi.form \in {"ri", "mr", "rm"}          -> 6
    [] mi.form \in {"acc", "abs_mr", "abs_rm"} -> 5
    [] mi.form = "short" \/ mi.op = "ret"      -> 1
    [] mi.op = "movsx" /\ mi.form = "rr"       -> 3
    [] OTHER              -> 2

\* What instruction selection hands to Lower(): the forms of before, operands
\* that fit form and width, and no base beside a TLVP symbol (an offset from
\* the picbase is a difference of symbols and no TLVP symbol any more).
WellFormed(mi) ==
  /\ mi = [op |-> mi.op, form |-> mi.form, width |-> mi.width, args |-> mi.args]
  /\ mi.width \in {0, 8, 16, 32, 64} /\ mi.args \in Seq(STRING)
  /\ mi.form \notin {"rev", "acc", "abs_mr", "abs_rm", "short"}
  /\ mi.form = "rr" => Len(mi.args) >= 2
  /\ mi.op \in {"tailjmp", "tailjmp_cc"} \/ mi.form = "r" => Len(mi.args) >= 1
  /\ mi.op = "tailjmp_cc" => Len(mi.args) = 2 /\ mi.args[2] \in Conditions
  /\ mi.form = "ri" => Len(mi.args) = 2
  /\ mi.form \in MoveForms =>
        Len(mi.args) = 3 /\ (mi.args[3] = "tlvp" => mi.args[2] = "none")
  /\ mi.op = "movsx" => mi.form = "rr"
  /\ mi.form \in MoveForms \cup {"ri"} \/ mi.op = "movsx" =>
        (mi.args[1] \in Accumulator => mi.width # 0 /\ mi.args[1] = Acc(mi.width))

ASSUME SamplesAssumption == \A mi \in Samples : WellFormed(mi)
-------------------------------------------------------------------------------
(* The lowerings.                                                          *)

Nothing == [kind |-> "none"]

Init ==
  /\ is64 \in BOOLEAN
  /\ out = [pos |-> 0, inShadow |-> FALSE, required |-> 0, current |-> 0]
  /\ lands = {} /\ maps = {} /\ whole = {}
  /\ epilogs = {} /\ called = FALSE /\ last = Nothing
  /\ n = 0 /\ term = FALSE /\ done = FALSE

\* One more machine instruction of an open block.
OneMore ==
  /\ ~done /\ ~term /\ n < MaxInstrs
  /\ n' = n + 1
  /\ UNCHANGED <<is64, done>>

\* A target independent pseudo instruction is not what PrevCrossBBInst() looks for.
Pseudo == OneMore /\ UNCHANGED <<called, epilogs>>

Land(at, by) == lands' = lands \cup {[at |-> at, by |-> by]}

\* Code from place `from' on that someone expects to be `want' bytes long.
Whole(kind, from, want) ==
  whole' = whole \cup {[kind |-> kind, at |-> from, len |-> out'.pos - from, want |-> want]}

Terminators == {"ret", "eh_return", "cleanupret", "catchret", "tailjmp", "tailjmp_cc", "tailjmp_r64"}
Calls == {"call", "tailjmp", "tailjmp_cc", "tailjmp_r64"}

\* A call: counted, then the shadow is filled in front of it.  The mutant
\* forgets to fill it.
CalledUnpadded(o, size) == Emit(o, size)
Called(o, size) == Silent(Pad(Count(o, size)), size)

\* EmitInstruction() for everything that has no case of its own.
EmitInstruction(mi) ==
  LET mc == Lower(mi) IN
  /\ OneMore
  /\ mi.width = 64 => is64
  /\ last' = [kind |-> "lower", before |-> mi, after |-> mc]
  /\ out' = IF mi.op \in Calls THEN Called(out, Size(mc))
                                ELSE Emit(out, Size(mc))
  /\ IF mi.op = "call" THEN Land(out'.pos, "call") ELSE UNCHANGED lands
  /\ term' = (mi.op \in Terminators)
  /\ called' = (mi.op \in Calls)
  /\ UNCHANGED <<maps, whole, epilogs>>

\* LowerTlsAddr(): the general dynamic form is padded to 16 bytes with prefixes.
LowerTlsAddr(general) ==
  /\ OneMore
  /\ out' = EmitAll(out, IF is64 THEN IF general THEN <<1, 7, 1, 1, 1, CallRel>> ELSE <<7, CallRel>>
                                 ELSE IF general THEN <<7, CallRel>> ELSE <<6, CallRel>>)
  /\ Land(out'.pos, "tls")
  /\ Whole("tls", out.pos, IF is64 THEN IF general THEN 16 ELSE 12 ELSE IF general THEN 12 ELSE 11)
  /\ called' = TRUE /\ last' = Nothing
  /\ UNCHANGED <<maps, epilogs, term>>

\* MOVPC32r: a call of the next instruction, and the pop there.
LowerMOVPC32r ==
  /\ OneMore /\ ~is64
  /\ out' = EmitAll(out, <<CallRel, PushPop>>)
  /\ Land(out.pos + CallRel, "pc")
  /\ called' = FALSE /\ last' = Nothing
  /\ UNCHANGED <<maps, whole, epilogs, term>>

\* MORESTACK_RET and MORESTACK_RET_RESTORE_R10.
LowerMORESTACK_RET(restore) ==
  /\ OneMore /\ (restore => is64)
  /\ out' = EmitAll(out, IF restore THEN <<1, MovReg>> ELSE <<1>>)
  /\ called' = FALSE /\ last' = Nothing
  /\ UNCHANGED <<lands, maps, whole, epilogs, term>>

\* A return address must not be the first byte of an epilog.  The mutant emits
\* no nop.
BeforeEpilogBare(o) == o
BeforeEpilog(o) == IF called THEN Emit(o, 1) ELSE o

\* SEH_Epilogue; the prolog stands between the entry and an epilog.
LowerSEH_Epilogue ==
  /\ OneMore /\ is64 /\ n > 0
  /\ \A l \in lands : l.by = "fentry" => l.at < out.pos
  /\ out' = BeforeEpilog(out)
  /\ epilogs' = epilogs \cup {out'.pos}
  /\ last' = Nothing
  /\ UNCHANGED <<lands, maps, whole, called, term>>

\* LowerSTATEPOINT(): nops to be patched, or the call, direct or through a
\* register; the tracker sees neither.
LowerSTATEPOINT(patch, call) ==
  /\ Pseudo /\ is64
  /\ out' = Silent(out, IF patch > 0 THEN EmitNops(patch) ELSE call)
  /\ Land(out'.pos, "statepoint")
  /\ Whole("statepoint", out.pos, IF patch > 0 THEN patch ELSE call)
  /\ last' = Nothing
  /\ UNCHANGED <<maps, term>>

\* LowerFAULTING_OP(): the wrapped instruction, not counted.
LowerFAULTING_OP ==
  /\ Pseudo
  /\ out' = Silent(out, 3)
  /\ last' = Nothing
  /\ UNCHANGED <<lands, maps, whole, term>>

\* LowerFENTRY_CALL() and LowerPATCHABLE_FUNCTION_ENTER(): at the entry.
LowerFENTRY_CALL ==
  /\ Pseudo /\ n = 0
  /\ out' = Emit(out, CallRel)
  /\ Land(out'.pos, "fentry")
  /\ last' = Nothing
  /\ UNCHANGED <<maps, whole, term>>

LowerPATCHABLE_FUNCTION_ENTER ==
  /\ Pseudo /\ is64 /\ n = 0
  /\ out' = Silent(Align2(out), 2 + EmitNops(9))
  /\ Land(out'.pos, "hop")
  /\ Whole("enter", Align2(out).pos, 11)
  /\ last' = Nothing
  /\ UNCHANGED <<maps, term>>

\* LowerPATCHABLE_OP(): the first instruction has at least minSize bytes; a
\* push gets its two byte form, anything else a nop in front.
LowerPATCHABLE_OP(minSize, size, push) ==
  LET first == IF size >= minSize THEN size
               ELSE IF minSize = 2 /\ push THEN 2 ELSE NopSize(minSize)
      nop   == size < minSize /\ ~(minSize = 2 /\ push)
  IN
  /\ Pseudo /\ is64
  /\ out' = Silent(out, IF nop THEN first + size ELSE first)
  /\ whole' = whole \cup {[kind |-> "op", at |-> out.pos, want |-> minSize, len |-> first]}
  /\ last' = Nothing
  /\ UNCHANGED <<lands, maps, term>>

\* LowerSTACKMAP(): the shadow before is filled, a new one begins.
LowerSTACKMAP(bytes) ==
  /\ Pseudo /\ is64
  /\ out' = Reset(Pad(out), bytes)
  /\ maps' = maps \cup {[at |-> out'.pos, len |-> bytes]}
  /\ last' = Nothing
  /\ UNCHANGED <<lands, whole, term>>

\* LowerPATCHPOINT(): MOV64ri and CALL64r unless the target is null, then nops.
LowerPATCHPOINT(bytes, null, reg) ==
  LET encoded == IF null THEN 0 ELSE IF reg \in Extended THEN 13 ELSE 12
      padded  == Pad(out)
      call    == IF null THEN padded
                 ELSE EmitAll(padded, <<10, IF reg \in Extended THEN 3 ELSE 2>>)
  IN
  /\ Pseudo /\ is64
  /\ bytes >= encoded
  /\ out' = Silent(call, EmitNops(bytes - encoded))
  /\ IF null THEN UNCHANGED lands ELSE Land(call.pos, "patchpoint")
  /\ Whole("patchpoint", padded.pos, bytes)
  /\ last' = Nothing
  /\ UNCHANGED <<maps, term>>

\* What the trampolines of the two kinds of event expect, and the bytes their
\* first jump skips.
EventDest == <<"rdi", "rsi">>
TypedDest == <<"rdi", "rsi", "rdx">>
Hop(dest) == IF dest = EventDest THEN 15 ELSE 20

\* The operands that are not where the trampoline wants them.
UsedMask(dest, src) == {i \in DOMAIN dest : src[i] # dest[i]}

\* The registers in front of the sled, each with a value of its own.
Before(dest, src) == [r \in ToSet(dest) \cup ToSet(src) |-> r]

\* The registers at the call: the moves are made one after the other.
Moved(dest, src) ==
  LET upTo[i \in 0 .. Len(dest)] ==
        IF i = 0 THEN Before(dest, src)
        ELSE IF i \in UsedMask(dest, src)
        THEN [upTo[i - 1] EXCEPT ![dest[i]] = upTo[i - 1][src[i]]]
        ELSE upTo[i - 1]
  IN  upTo[Len(dest)]

\* What the pushes save, the last one on top.
Pushed(dest, src) ==
  LET upTo[i \in 0 .. Len(dest)] ==
        IF i = 0 THEN <<>>
        ELSE IF i \in UsedMask(dest, src) THEN Append(upTo[i - 1], dest[i]) ELSE upTo[i - 1]
  IN  upTo[Len(dest)]

\* The order of the pops: the loop counts down.  The mutant counts up.
PopOrderUp(dest, src) == Pushed(dest, src)
PopOrder(dest, src) == Reverse(Pushed(dest, src))

\* The registers behind the sled: the k-th pop takes the k-th value from the top.
Restored(dest, src) ==
  LET saved == Pushed(dest, src)
      upTo[k \in 0 .. Len(saved)] ==
        IF k = 0 THEN Moved(dest, src)
        ELSE [upTo[k - 1] EXCEPT ![PopOrder(dest, src)[k]] = saved[Len(saved) + 1 - k]]
  IN  upTo[Len(saved)]

\* One loop over the operands: an instruction for those that are not in place,
\* nops, which the tracker does not see, for the others.
PerOperand(o, dest, src, size, nops) ==
  LET upTo[i \in 0 .. Len(dest)] ==
        IF i = 0 THEN o
        ELSE IF i \in UsedMask(dest, src) THEN Emit(upTo[i - 1], size)
        ELSE Silent(upTo[i - 1], EmitNops(nops))
  IN  upTo[Len(dest)]

\* A jump over the rest, the pushes, the moves, the call and the pops; where an
\* operand is in place already, nops of the same size.
EventSled(dest, src) ==
  LET start == Align2(out)
      saved == PerOperand(Silent(start, 2), dest, src, PushPop, 4)
      call  == Emit(PerOperand(saved, dest, src, MovReg, 0), CallRel)
  IN
  /\ Pseudo /\ is64
  /\ out' = PerOperand(call, dest, src, PushPop, 1)
  /\ lands' = lands \cup {[at |-> call.pos, by |-> "event"], [at |-> start.pos + 2 + Hop(dest), by |-> "hop"]}
  /\ Whole("event", start.pos, 2 + Hop(dest))
  /\ last' = [kind |-> "sled", src |-> src, dest |-> dest]
  /\ UNCHANGED <<maps, term>>

LowerPATCHABLE_EVENT_CALL(src) == EventSled(EventDest, src)
LowerPATCHABLE_TYPED_EVENT_CALL(src) == EventSled(TypedDest, src)

\* LowerPATCHABLE_RET(): the return first, room for the jump behind it.
LowerPATCHABLE_RET(size) ==
  /\ Pseudo /\ is64
  /\ out' = Silent(Align2(out), size + EmitNops(10))
  /\ Whole("ret", Align2(out).pos, 11)
  /\ term' = TRUE /\ last' = Nothing
  /\ UNCHANGED <<lands, maps>>

\* LowerPATCHABLE_TAIL_CALL(): the sled first, then the jump.
LowerPATCHABLE_TAIL_CALL ==
  LET sled == Silent(Align2(out), 2 + EmitNops(9)) IN
  /\ Pseudo /\ is64
  /\ out' = Silent(sled, 5)
  /\ Land(sled.pos, "hop")
  /\ whole' = whole \cup {[kind |-> "tailcall", at |-> Align2(out).pos, want |-> 11,
                            len |-> sled.pos - Align2(out).pos]}
  /\ term' = TRUE /\ last' = Nothing
  /\ UNCHANGED maps

\* EmitBasicBlockEnd(), of X86AsmPrinter.h; the next block may be branched to.
BlockEnd ==
  /\ ~done /\ n > 0
  /\ out' = Pad(out)
  /\ Land(out'.pos, "block")
  /\ term' = FALSE /\ last' = Nothing
  /\ UNCHANGED <<is64, maps, whole, epilogs, called, n, done>>

\* The last block ends the same way.
FunctionEnd ==
  /\ ~done /\ term
  /\ out' = Pad(out)
  /\ done' = TRUE /\ last' = Nothing
  /\ UNCHANGED <<is64, lands, maps, whole, epilogs, called, n, term>>

Next ==
  \/ \E mi \in Samples : EmitInstruction(mi)
  \/ \E general \in BOOLEAN : LowerTlsAddr(general)
  \/ \E restore \in BOOLEAN : LowerMORESTACK_RET(restore)
  \/ LowerMOVPC32r \/ LowerSEH_Epilogue
  \/ \E patch \in PatchSizes \cup {0}, call \in {CallRel, 2} : LowerSTATEPOINT(patch, call)
  \/ LowerFAULTING_OP \/ LowerFENTRY_CALL \/ LowerPATCHABLE_FUNCTION_ENTER
  \/ \E minSize \in {2, 5}, size \in {1, 3}, push \in BOOLEAN :
        LowerPATCHABLE_OP(minSize, size, push)
  \/ \E bytes \in ShadowSizes : LowerSTACKMAP(bytes)
  \/ \E bytes \in PatchSizes, null \in BOOLEAN, reg \in Scratch : LowerPATCHPOINT(bytes, null, reg)
  \/ \E src \in [1 .. 2 -> SrcRegs] : LowerPATCHABLE_EVENT_CALL(src)
  \/ \E src \in [1 .. 3 -> SrcRegs] : LowerPATCHABLE_TYPED_EVENT_CALL(src)
  \/ \E size \in {1, 3} : LowerPATCHABLE_RET(size)
  \/ LowerPATCHABLE_TAIL_CALL \/ BlockEnd \/ FunctionEnd

Spec == Init /\ [][Next]_vars
-------------------------------------------------------------------------------
(* Properties.                                                             *)

\* The comment in front of the call case of EmitInstruction() says that a
\* stack map's bytes include no place where control can arrive: patching them
\* would pull the code from under a thread.  It is true of ordinary calls,
\* patch points and blocks, and false only behind the lowerings that emit a
\* call or a jump's target without filling the shadow first.
ShadowBlame ==
  \A m \in maps, l \in lands :
     m.at < l.at /\ l.at < m.at + m.len => l.by \in {"tls", "statepoint", "event", "hop"}

\* What a stack map promises is there when the function ends, whatever was
\* counted and whatever was not: no later function is overwritten.
ShadowRoom == done => \A m \in maps : m.at + m.len <= out.pos

\* Each piece that is rewritten as a whole is exactly as long as its patcher
\* or the linker takes it to be (a return sled or a patchable first instruction
\* may be longer), and the sleds, whose first two bytes are replaced in one
\* store, are at even places.
PiecesExact ==
  \A w \in whole :
     /\ w.len >= w.want
     /\ w.kind \notin {"ret", "op"} => w.len = w.want
     /\ w.kind \in {"enter", "ret", "tailcall", "event"} => w.at % 2 = 0

\* An event sled hands its operands over intact exactly if no operand lies in
\* a register that an earlier move has filled (the comment "so nothing is
\* clobbers" overlooks that), and puts every register back in any case.
ArgsExact ==
  last.kind = "sled" =>
    LET dest == last.dest  src == last.src
        moved == Moved(dest, src)
        overtaken == \E i, j \in DOMAIN dest : i < j /\ src[j] = dest[i] /\ src[i] # dest[i]
    IN  /\ (\A i \in DOMAIN dest : moved[dest[i]] = src[i]) <=> ~overtaken
        /\ Restored(dest, src) = Before(dest, src)

\* What an instruction does, written without a look at the forms: the verb and
\* the operands, those a short form leaves out filled in from its width.
Verb(mi) ==
  IF mi.op \in {"eh_return", "cleanupret", "catchret"} THEN "ret"
  ELSE IF mi.op = "tailjmp" THEN "jmp" ELSE IF mi.op = "tailjmp_cc" THEN mi.args[2]
  ELSE IF mi.op = "add_db" THEN "or" ELSE IF mi.op \in {"acquire_mov", "release_mov"} THEN "mov"
  ELSE IF mi.op = "release_add" THEN "add" ELSE IF mi.op = "release_xor" THEN "xor"
  ELSE IF mi.op = "release_inc" THEN "inc" ELSE mi.op
Operands(mi) ==
  CASE mi.form = "acc" -> <<Acc(mi.width), mi.args[1]>>
    [] mi.form \in {"abs_mr", "abs_rm"} -> <<Acc(mi.width), "none", mi.args[1]>>
    [] mi.op = "movsx" /\ mi.form = "short" -> <<Acc(mi.width), Acc(mi.width \div 2)>>
    [] mi.op \in Calls \cup {"jmp"} \cup Conditions -> <<mi.args[1]>>
    [] mi.op = "catchret" -> <<"rax">>
    [] mi.op \in {"eh_return", "cleanupret"} -> <<>>
    [] OTHER -> mi.args

\* Lower() never changes what an instruction does, over both modes, all forms
\* it knows and the registers that almost match, and never makes it longer.
LowerFaithful ==
  last.kind = "lower" =>
    /\ Verb(last.after) = Verb(last.before)
    /\ Operands(last.after) = Operands(last.before)
    /\ Size(last.after) <= Size(last.before)

\* Windows unwinders take a return address at the first byte of an epilog for
\* a frame that is already gone.  The nop that prevents it is left out, though
\* the comment calls the search conservative, exactly behind a pseudo
\* instruction that emits a call as its last byte.
EpilogBlame ==
  \A l \in lands :
     l.at \in epilogs /\ l.by \notin {"block", "hop"} => l.by \in {"statepoint", "patchpoint"}
===============================================================================
