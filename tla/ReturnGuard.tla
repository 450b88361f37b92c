----------------------------- MODULE ReturnGuard -----------------------------
(***************************************************************************)
(* What any shadow stack promises, without a shadow stack: a return of a   *)
(* protected activation goes to the address it was entered with, or the    *)
(* program stops, and it stops for that reason only if the slot was        *)
(* altered.  An activation is [guarded, ra, mem]: whether its exits are    *)
(* checked, the address it was entered with and the word now in its slot.  *)
(***************************************************************************)
EXTENDS Integers, Sequences

CONSTANT Address

VARIABLES acts, out

Act == [guarded : BOOLEAN, ra : Address, mem : Address]

Fresh(g, a) == [guarded |-> g, ra |-> a, mem |-> a]
Newest      == acts[Len(acts)]
Intact(x)   == x.mem = x.ra

GuardInit == acts = << >> /\ out = "run"

\* A function is entered, and may at once stop the program (a full stack).
Push == \E g \in BOOLEAN, a \in Address :
          /\ acts' = Append(acts, Fresh(g, a))
          /\ out' \in {"run", "stuck"}

\* Returns, and tail calls, leave an intact activation.
Pop == /\ acts # << >>
       /\ Intact(Newest)
       /\ out' \in {"run", "stuck"}
       /\ \/ acts' = SubSeq(acts, 1, Len(acts) - 1)
          \/ \E g \in BOOLEAN : acts' = [acts EXCEPT ![Len(acts)].guarded = g]

Overwrite == \E i \in 1 .. Len(acts), a \in Address :
               acts' = [acts EXCEPT ![i].mem = a] /\ out' = out

\* longjmp, an exception or exit() discards the newest activations.
Discard == \E n \in 0 .. Len(acts) : acts' = SubSeq(acts, 1, n) /\ out' = out

\* The check of a guarded activation fails: only if its slot was altered.
Stop == /\ acts # << >>
        /\ Newest.guarded /\ ~Intact(Newest)
        /\ out' = "stopped" /\ acts' = acts

\* Control leaves through an altered slot: only where nothing was guarded.
Divert == /\ acts # << >>
          /\ ~Newest.guarded /\ ~Intact(Newest)
          /\ out' = "diverted" /\ acts' = acts

\* The program ends, or a jump has nowhere to go.
Halt == out' = "stuck" /\ acts' = acts

GuardNext == out = "run" /\ (Push \/ Pop \/ Overwrite \/ Discard \/ Stop \/ Divert \/ Halt)

GuardSpec == GuardInit /\ [][GuardNext]_<<acts, out>>
==============================================================================
