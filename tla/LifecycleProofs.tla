-------------------------- MODULE LifecycleProofs --------------------------
(***************************************************************************)
(* Proofs about ThreadLifecycle, for every number of threads, regions and  *)
(* nested calls: under REG and MEM threads leave each other's shadow       *)
(* stacks alone until one runs instrumented code after its teardown, under *)
(* CON but for a main thread whose shadow stack is not at the offset and   *)
(* the thread whose stack is there, and what can fault is known.           *)
(*                                                                         *)
(* The invariant says, thread by thread, which mappings are the thread's   *)
(* in which phase of its life.  A step of one thread maps a free region or *)
(* unmaps one of its own, so it cannot touch what another relies on.       *)
(***************************************************************************)
EXTENDS ThreadLifecycle, TLAPS

-----------------------------------------------------------------------------
(* The inductive invariant. *)

\* Of a cancelled thread only the stack is ever unmapped.
Cancelled(t) == pc[t] \in {"late", "dead"} /\ left[t] = "cancel"
HasShadow(t) == pc[t] \in {"run", "unmap"} \/ Cancelled(t)
HasClave(t)  == pc[t] \in {"shadow", "unclave"} \/ HasShadow(t)

\* What a thread has been through.
Phase(t) ==
  /\ pc[t] \in {"none", "clave"} => gs[t] = None
  /\ pc[t] \in {"none", "clave", "shadow"} => base[t] = None /\ live[t] = 0
  /\ pc[t] \in {"none", "clave", "shadow", "run"} => left[t] = "none" /\ floor[t] = 0
  /\ pc[t] \in {"unmap", "unclave"} => left[t] \in {"return", "exit"} /\ floor[t] = live[t]
  /\ floor[t] <= live[t]
  /\ TornDown(t) /\ live[t] > floor[t] => t \in late
  /\ scheme = "REG" /\ HasClave(t) => gs[t] # None
  /\ scheme # "REG" => /\ gs[t] = None /\ pc[t] # "unclave"
                       /\ pc[t] \in {"late", "dead"} => left[t] = "cancel"
  /\ scheme = "MEM" => /\ HasShadow(t) => base[t] = Hardcoded
                       /\ pc[t] = "unmap" => left[t] = "exit"
  /\ scheme = "CON" /\ HasShadow(t) => /\ base[t] # None
                                       /\ t # MainThread => base[t] = Mirror[stack[t]]
  /\ t = MainThread => pc[t] # "none"

\* Which mappings are its own.
Holds(t) ==
  /\ pc[t] \notin {"none", "dead"} => stack[t] # None /\ holder[stack[t]] = <<t, "stack">>
  /\ HasClave(t) /\ gs[t] # None => holder[gs[t]] = <<t, "clave">>
  /\ HasShadow(t) /\ base[t] # None => holder[base[t]] = <<t, "shadow">>

\* Under MEM there is one shadow stack, and the main thread never gives it back.
Alone ==
  scheme = "MEM" =>
    \A t \in Threads \ {MainThread} :
      /\ pc[t] \in {"none", "clave", "shadow"}
      /\ pc[t] # "none" => HasShadow(MainThread)

\* The entries of the live calls of a thread that still has its shadow stack.
Uses(t) == pc[t] \in {"run", "late"} /\ HasShadow(t) /\ base[t] # None
Mine(t) == Uses(t) => \A i \in 1 .. live[t] : entry[base[t]][i] = t

\* The thread stores elsewhere than in its shadow stack.
Strays(t) == t = MainThread /\ Misplaced

\* Its stack is where that thread stores.
Hit(t) == Misplaced /\ stack[t] = Mirror[stack[MainThread]]

\* No other thread has written into its stack.
Alive(t) == pc[t] \notin {"none", "dead"}
Clean(t) == Alive(t) => \A i \in 1 .. MaxDepth : entry[stack[t]][i] = None

\* Nobody has run late code, which under CON nobody ever does, and as long as no
\* thread strays everything is where it belongs.
Intact ==
  /\ scheme = "CON" => late = {}
  /\ late = {} => /\ process.how = "trap" => Strays(process.thread) \/ InTheWay(process.thread)
                  /\ process.how = "astray" => InTheWay(process.thread)
                  /\ ~Misplaced => Confined
                  /\ \A t \in Threads : ~Strays(t) => Mine(t)
                  /\ \A t \in Threads : ~Hit(t) => Clean(t)

\* Where the process may fault.
Faults ==
  process.how = "segv" =>
    \E t \in Threads :
      /\ process.thread = t
      /\ \/ base[t] = None \/ Strays(t)
         \/ t \in late
         \/ pc[t] = "dead" /\ left[t] # "cancel" /\ FiniCode
         \/ pc[t] = "unmap" /\ scheme # "REG" /\ (scheme = "MEM" => left[t] = "exit")

LInv ==
  /\ TypeOK
  /\ \A t \in Threads : Phase(t) /\ Holds(t)
  /\ Alone /\ Intact /\ Faults

LEMMA ConstantFacts ==
  /\ MainThread \in Threads /\ Hardcoded \in Regions /\ None \notin Threads /\ None \notin Regions
  /\ MaxDepth \in Nat /\ Late \subseteq Threads
  /\ \A t \in Threads, k \in Kinds : <<t, k>> # Free /\ <<t, k>> # Other /\ <<t, k>> \in Holders
  /\ Free \in Holders /\ Other \in Holders
BY LifecycleAssumption DEF Holders

LEMMA SchemeFacts == ASSUME TypeOK PROVE scheme \in {"REG", "MEM", "CON"}
BY LifecycleAssumption DEF TypeOK

\* Where a thread with a shadow stack stores, and that it may.
LEMMA TargetFacts ==
  ASSUME LInv, NEW t \in Threads, HasShadow(t), base[t] # None, ~Strays(t)
  PROVE  /\ Target(t) = base[t] /\ base[t] \in Regions /\ holder[base[t]] = <<t, "shadow">>
         /\ Mapped(Target(t)) /\ Whole(Target(t)) /\ Victims(t) = {}
<1>1. Target(t) = base[t]
  <2>1. CASE scheme = "CON"
    <3>1. base[t] = Mirror[stack[t]]
      BY <2>1 DEF LInv, Phase, Strays, Misplaced
    <3> QED
      BY <2>1, <3>1 DEF Target
  <2>2. CASE scheme # "CON"
    BY <2>2, SchemeFacts DEF LInv, Phase, Target
  <2> QED
    BY <2>1, <2>2
<1>2. base[t] \in Regions /\ holder[base[t]] = <<t, "shadow">>
  BY DEF LInv, Holds, TypeOK
<1>3. <<t, "shadow">> # Free /\ <<t, "shadow">> # Other
  BY ConstantFacts DEF Kinds
<1>4. base[t] # None
  OBVIOUS
<1> QED
  BY <1>1, <1>2, <1>3, <1>4 DEF Mapped, Whole, Victims

\* A thread without one reaches nothing.
LEMMA NoTarget ==
  ASSUME LInv, NEW t \in Threads, HasShadow(t), Mapped(Target(t))
  PROVE  base[t] # None
BY SchemeFacts, ConstantFacts DEF LInv, Phase, Target, Mapped

\* exit() faults only in a thread that has no shadow stack, or stores elsewhere.
LEMMA ExitFacts ==
  ASSUME LInv, NEW t \in Threads, CallExit(t)
  PROVE  /\ process' \in [how : {"exit", "segv"}, thread : {t}]
         /\ process'.how = "segv" => FiniCode /\ (base[t] = None \/ ~HasShadow(t) \/ Strays(t))
<1>1. PICK how \in FiniEnds(t) : process' = [how |-> how, thread |-> t]
  BY DEF CallExit, End
<1>2. how \in {"exit", "segv"} /\ (how = "segv" => FiniCode)
  BY <1>1 DEF FiniEnds
<1>3. ASSUME HasShadow(t), base[t] # None, ~Strays(t) PROVE how = "exit"
  <2>1. Mapped(Target(t)) /\ Whole(Target(t))
    BY <1>3, TargetFacts
  <2>2. scheme = "REG" => Mapped(gs[t]) /\ holder[gs[t]] = <<t, "clave">>
    <3>1. <<t, "clave">> # Free
      BY ConstantFacts DEF Kinds
    <3> QED
      BY <1>3, <3>1 DEF LInv, Phase, Holds, HasClave, Mapped
  <2> QED
    BY <1>1, <2>1, <2>2 DEF FiniEnds
<1> QED
  BY <1>1, <1>2, <1>3

LEMMA InvInit == Init => LInv
<1> SUFFICES ASSUME Init PROVE LInv
  OBVIOUS
<1> USE ConstantFacts
<1>1. TypeOK
  <2>1. holder \in [Regions -> Holders] /\ stack \in [Threads -> Regions \cup {None}]
    <3>1. <<MainThread, "stack">> \in Holders
      BY DEF Kinds
    <3> QED
      BY <3>1 DEF Init
  <2>2. entry \in [Regions -> [1 .. MaxDepth -> Threads \cup {None}]]
    BY DEF Init, Empty
  <2> QED
    BY <2>1, <2>2 DEF Init, TypeOK
<1>2. ASSUME NEW t \in Threads PROVE Phase(t) /\ Holds(t)
  BY DEF Init, Phase, Holds, HasShadow, HasClave, Cancelled, TornDown
<1>3. Alone
  BY DEF Init, Alone
<1>4. Intact
  <2>1. \A r \in Regions, i \in 1 .. MaxDepth : entry[r][i] = None
    BY DEF Init, Empty
  <2>2. \A t \in Threads : Clean(t)
    BY <2>1 DEF Init, Clean, Alive
  <2>3. \A t \in Threads : Mine(t)
    BY DEF Init, Mine, Uses
  <2>4. process.how = "run" /\ late = {}
    BY DEF Init
  <2> QED
    BY <2>1, <2>2, <2>3, <2>4 DEF Intact, Confined
<1>5. Faults
  BY DEF Init, Faults
<1> QED
  BY <1>1, <1>2, <1>3, <1>4, <1>5 DEF LInv
-----------------------------------------------------------------------------
(* Steps that leave the entries of live calls alone. *)

\* Nothing of the thread's own changes.
Same(u) ==
  /\ pc'[u] = pc[u] /\ stack'[u] = stack[u] /\ gs'[u] = gs[u] /\ base'[u] = base[u]
  /\ live'[u] = live[u] /\ floor'[u] = floor[u] /\ left'[u] = left[u]

Untouched == holder' = holder /\ entry' = entry

\* What thread t may do to the mappings.
Remaps(t) ==
  \/ Untouched
  \/ \E r \in Regions, h \in Holders : MapFor(r, h) /\ holder[r] \in {Free, Other} \cup ({t} \X Kinds)

\* A region another thread holds stays as it is.
LEMMA Spared ==
  ASSUME TypeOK, NEW t \in Threads, NEW u \in Threads, u # t, Remaps(t),
         NEW r \in Regions, NEW k \in Kinds, holder[r] = <<u, k>>
  PROVE  holder'[r] = holder[r] /\ entry'[r] = entry[r]
<1>1. CASE Untouched
  BY <1>1 DEF Untouched
<1>2. CASE \E q \in Regions, h \in Holders : MapFor(q, h) /\ holder[q] \in {Free, Other} \cup ({t} \X Kinds)
  <2>1. PICK q \in Regions, h \in Holders : MapFor(q, h) /\ holder[q] \in {Free, Other} \cup ({t} \X Kinds)
    BY <1>2
  <2>2. q # r
    BY <2>1, ConstantFacts
  <2> QED
    BY <2>1, <2>2 DEF MapFor, TypeOK
<1> QED
  BY <1>1, <1>2 DEF Remaps

LEMMA OthersKeep ==
  ASSUME LInv, NEW t \in Threads, NEW u \in Threads, u # t, Remaps(t), Same(u),
         late \subseteq late', scheme' = scheme
  PROVE  /\ Phase(u)' /\ Holds(u)' /\ (HasShadow(u)' <=> HasShadow(u)) /\ (Uses(u)' <=> Uses(u))
         /\ Uses(u) => entry'[base[u]] = entry[base[u]]
         /\ Alive(u) => entry'[stack[u]] = entry[stack[u]]
<1>0. \A r \in Regions, k \in Kinds :
        holder[r] = <<u, k>> => holder'[r] = <<u, k>> /\ entry'[r] = entry[r]
  BY Spared DEF LInv
<1>1. (HasShadow(u)' <=> HasShadow(u)) /\ (HasClave(u)' <=> HasClave(u)) /\ (TornDown(u)' <=> TornDown(u))
  BY DEF Same, HasShadow, HasClave, Cancelled, TornDown
<1>2. Uses(u)' <=> Uses(u)
  BY <1>1 DEF Same, Uses
<1>3. Phase(u)'
  BY <1>1 DEF LInv, Phase, Same
<1>4. Holds(u)'
  <2>1. Holds(u) /\ TypeOK
    BY DEF LInv
  <2>2. pc[u] \notin {"none", "dead"} => stack[u] # None /\ holder'[stack[u]] = <<u, "stack">>
    <3>1. pc[u] \notin {"none", "dead"} => /\ stack[u] # None /\ stack[u] \in Regions
                                          /\ holder[stack[u]] = <<u, "stack">>
      BY <2>1 DEF Holds, TypeOK
    <3> QED
      BY <1>0, <3>1 DEF Kinds
  <2>3. HasClave(u) /\ gs[u] # None => holder'[gs[u]] = <<u, "clave">>
    <3>1. HasClave(u) /\ gs[u] # None => gs[u] \in Regions /\ holder[gs[u]] = <<u, "clave">>
      BY <2>1 DEF Holds, TypeOK
    <3> QED
      BY <1>0, <3>1 DEF Kinds
  <2>4. HasShadow(u) /\ base[u] # None => holder'[base[u]] = <<u, "shadow">>
    <3>1. HasShadow(u) /\ base[u] # None => base[u] \in Regions /\ holder[base[u]] = <<u, "shadow">>
      BY <2>1 DEF Holds, TypeOK
    <3> QED
      BY <1>0, <3>1 DEF Kinds
  <2> QED
    BY <1>1, <2>2, <2>3, <2>4 DEF Holds, Same
<1>5. Uses(u) => entry'[base[u]] = entry[base[u]]
  <2>1. Uses(u) => base[u] \in Regions /\ holder[base[u]] = <<u, "shadow">>
    BY DEF LInv, Holds, Uses, TypeOK
  <2> QED
    BY <1>0, <2>1 DEF Kinds
<1>6. Alive(u) => entry'[stack[u]] = entry[stack[u]]
  <2>1. Alive(u) => stack[u] \in Regions /\ holder[stack[u]] = <<u, "stack">>
    BY DEF LInv, Holds, Alive, TypeOK
  <2> QED
    BY <1>0, <2>1 DEF Kinds
<1> QED
  BY <1>1, <1>2, <1>3, <1>4, <1>5, <1>6

\* The thread's stack is what it was, or a new one.
Stays(t) ==
  Alive(t)' => \/ Clean(t)'
               \/ Alive(t) /\ stack'[t] = stack[t] /\ entry'[stack[t]] = entry[stack[t]]

\* What is left to show of a step of thread t that neither pushes nor pops.
Ends(t) ==
  \/ process' = process
  \/ process' \in [how : {"exit", "segv"}, thread : {t}] /\ Faults'

LEMMA StepInv ==
  ASSUME LInv, Up, TypeOK', NEW t \in Threads, Remaps(t), \A u \in Threads \ {t} : Same(u),
         scheme' = scheme, late' = late, live' = live, Ends(t), Phase(t)', Holds(t)',
         Uses(t)' => live[t] = 0 \/ (Uses(t) /\ base'[t] = base[t] /\ entry'[base[t]] = entry[base[t]]),
         scheme = "MEM" => IF t = MainThread THEN HasShadow(t) => HasShadow(t)'
                           ELSE /\ pc'[t] \in {"none", "clave", "shadow"}
                                /\ pc'[t] # "none" => HasShadow(MainThread),
         t = MainThread => stack'[t] = stack[t] /\ base[t] \in {None, base'[t]},
         Stays(t)
  PROVE  LInv'
<1>0. (Misplaced => Misplaced') /\ \A u \in Threads : Strays(u) => Strays(u)'
  <2>1. stack'[MainThread] = stack[MainThread] /\ base[MainThread] \in {None, base'[MainThread]}
    BY ConstantFacts DEF Same
  <2> QED
    BY <2>1 DEF Strays, Misplaced
<1>1. \A u \in Threads : Phase(u)' /\ Holds(u)'
  BY OthersKeep
<1>2. Alone'
  <2> SUFFICES ASSUME scheme = "MEM"
               PROVE  \A u \in Threads \ {MainThread} :
                        /\ pc'[u] \in {"none", "clave", "shadow"}
                        /\ pc'[u] # "none" => HasShadow(MainThread)'
    BY DEF Alone
  <2>1. HasShadow(MainThread) => HasShadow(MainThread)'
    BY OthersKeep, ConstantFacts
  <2>2. \A u \in Threads \ {t} : pc'[u] = pc[u]
    BY DEF Same
  <2> QED
    BY <2>1, <2>2, ConstantFacts DEF LInv, Alone
<1>3. Intact'
  <2> SUFFICES ASSUME late = {}
               PROVE  /\ process'.how \notin {"trap", "astray"}
                      /\ ~Misplaced => Confined'
                      /\ \A u \in Threads : ~Strays(u) => Mine(u)'
                      /\ \A u \in Threads : ~Hit(u)' => Clean(u)'
    BY <1>0 DEF Intact, LInv
  <2>1. process'.how \notin {"trap", "astray"}
    BY DEF Ends, Up
  <2>2. ASSUME ~Misplaced PROVE Confined'
    <3>0. Confined
      BY <2>2 DEF LInv, Intact
    <3>1. CASE Untouched
      BY <3>0, <3>1 DEF Confined, Untouched
    <3>2. ASSUME NEW r \in Regions, NEW h \in Holders, MapFor(r, h) PROVE Confined'
      <4> SUFFICES ASSUME NEW q \in Regions, NEW i \in 1 .. MaxDepth, entry'[q][i] # None
                   PROVE  holder'[q] = <<entry'[q][i], "shadow">>
        BY DEF Confined
      <4>1. q # r
        BY <3>2 DEF MapFor, LInv, TypeOK, Empty
      <4>2. entry'[q] = entry[q] /\ holder'[q] = holder[q]
        BY <3>2, <4>1 DEF MapFor, LInv, TypeOK
      <4> QED
        BY <3>0, <4>2 DEF Confined
    <3> QED
      BY <3>1, <3>2 DEF Remaps
  <2>3. ASSUME NEW u \in Threads, ~Strays(u) PROVE Mine(u)'
    <3>0. Mine(u)
      BY <2>3 DEF LInv, Intact
    <3>1. CASE u = t
      <4> SUFFICES ASSUME Uses(t)', NEW i \in 1 .. live[t] PROVE entry'[base'[t]][i] = t
        BY <3>1 DEF Mine
      <4>1. live[t] # 0
        OBVIOUS
      <4> QED
        BY <3>0, <3>1, <4>1 DEF Mine
    <3>2. CASE u # t
      BY <3>0, <3>2, OthersKeep DEF Same, Mine
    <3> QED
      BY <3>1, <3>2
  <2>4. ASSUME NEW u \in Threads, ~Hit(u)' PROVE Clean(u)'
    <3>0. stack'[u] = stack[u] => ~Hit(u)
      <4>1. stack'[MainThread] = stack[MainThread]
        BY ConstantFacts DEF Same
      <4> QED
        BY <1>0, <2>4, <4>1 DEF Hit
    <3>1. stack'[u] = stack[u] => Clean(u)
      BY <3>0 DEF LInv, Intact
    <3>2. CASE u = t
      BY <3>1, <3>2 DEF Stays, Clean
    <3>3. CASE u # t
      <4>1. stack'[u] = stack[u] /\ (Alive(u)' <=> Alive(u))
        BY <3>3 DEF Same, Alive
      <4> QED
        BY <3>1, <3>3, <4>1, OthersKeep DEF Clean
    <3> QED
      BY <3>2, <3>3
  <2> QED
    BY <2>1, <2>2, <2>3, <2>4
<1>4. Faults'
  BY DEF Ends, Up, Faults
<1> QED
  BY <1>1, <1>2, <1>3, <1>4 DEF LInv
-----------------------------------------------------------------------------
(* The steps, one by one. *)

\* A step that only ends the process.
LEMMA EndInv ==
  ASSUME LInv, Up, NEW t \in Threads,
         UNCHANGED <<scheme, pc, holder, entry, stack, gs, base, live, floor, left, late>>,
         process' \in [how : {"exit", "segv"}, thread : {t}], Faults'
  PROVE  LInv'
<1>1. TypeOK'
  BY DEF LInv, TypeOK
<1>2. Remaps(t) /\ Untouched /\ \A u \in Threads \ {t} : Same(u)
  BY DEF Remaps, Untouched, Same
<1>3. Phase(t)' /\ Holds(t)' /\ (Uses(t)' => Uses(t)) /\ (HasShadow(t)' <=> HasShadow(t))
  BY DEF LInv, Phase, Holds, HasClave, HasShadow, Cancelled, TornDown, Uses
<1>4. scheme = "MEM" /\ t # MainThread => /\ pc[t] \in {"none", "clave", "shadow"}
                                          /\ pc[t] # "none" => HasShadow(MainThread)
  BY DEF LInv, Alone
<1>5. Stays(t)
  BY DEF Stays, Alive
<1> QED
  BY <1>1, <1>2, <1>3, <1>4, <1>5, StepInv DEF Ends

LEMMA CreateInv ==
  ASSUME LInv, NEW p \in Threads, NEW t \in Threads, Create(p, t), scheme' = scheme
  PROVE  LInv'
<1> USE ConstantFacts
<1>1. PICK s \in FreeRegions : MapFor(s, <<t, "stack">>) /\ stack' = [stack EXCEPT ![t] = s]
  BY DEF Create
<1>2. /\ Up /\ pc[p] = "run" /\ pc[t] = "none" /\ pc' = [pc EXCEPT ![t] = "clave"]
      /\ UNCHANGED <<gs, base, live, floor, left, late, process>>
  BY DEF Create
<1>3. s \in Regions /\ holder[s] = Free /\ <<t, "stack">> \in Holders
  BY <1>1 DEF FreeRegions, Kinds
<1>4. TypeOK'
  BY <1>1, <1>2, <1>3 DEF LInv, TypeOK, MapFor, Empty
<1>5. Remaps(t) /\ \A u \in Threads \ {t} : Same(u)
  BY <1>1, <1>2, <1>3 DEF Remaps, Same, LInv, TypeOK
<1>6. pc'[t] = "clave" /\ stack'[t] = s /\ holder'[s] = <<t, "stack">>
  BY <1>1, <1>2, <1>3 DEF LInv, TypeOK, MapFor
<1>7. Phase(t)'
  BY <1>2, <1>6 DEF LInv, Phase, HasClave, HasShadow, Cancelled, TornDown
<1>8. Holds(t)' /\ ~Uses(t)'
  BY <1>3, <1>6 DEF Holds, HasClave, HasShadow, Cancelled, Uses
<1>9. t # MainThread /\ (scheme = "MEM" => HasShadow(MainThread))
  BY <1>2 DEF LInv, Phase, Alone, HasShadow
<1>10. Stays(t)
  <2>1. \A i \in 1 .. MaxDepth : entry'[s][i] = None
    BY <1>1, <1>3 DEF LInv, TypeOK, MapFor, Empty
  <2> QED
    BY <1>6, <2>1 DEF Stays, Clean
<1> QED
  BY <1>2, <1>4, <1>5, <1>6, <1>7, <1>8, <1>9, <1>10, StepInv DEF Ends

LEMMA MapClaveInv ==
  ASSUME LInv, NEW t \in Threads, MapClave(t), scheme' = scheme
  PROVE  LInv'
<1> USE ConstantFacts
<1>1. Up /\ pc[t] = "clave" /\ UNCHANGED <<stack, live, floor, left, late>>
  BY DEF MapClave
<1>2. CASE scheme # "REG" /\ pc' = [pc EXCEPT ![t] = "shadow"] /\ UNCHANGED <<holder, entry, gs, base, process>>
  <2>1. TypeOK' /\ pc'[t] = "shadow"
    BY <1>1, <1>2 DEF LInv, TypeOK
  <2>2. Remaps(t) /\ \A u \in Threads \ {t} : Same(u)
    BY <1>1, <1>2 DEF Remaps, Untouched, Same, LInv, TypeOK
  <2>3. Phase(t)' /\ Holds(t)' /\ ~Uses(t)'
    BY <1>1, <1>2, <2>1 DEF LInv, Phase, Holds, HasClave, HasShadow, Cancelled, TornDown, Uses
  <2>4. scheme = "MEM" /\ t # MainThread => HasShadow(MainThread)
    BY <1>1 DEF LInv, Alone
  <2>5. ~HasShadow(t)
    BY <1>1 DEF HasShadow, Cancelled
  <2>6. Stays(t)
    BY <1>1, <1>2 DEF Stays, Alive
  <2> QED
    BY <1>1, <1>2, <2>1, <2>2, <2>3, <2>4, <2>5, <2>6, StepInv DEF Ends
<1>3. CASE /\ scheme = "REG"
           /\ \E r \in FreeRegions : /\ MapFor(r, <<t, "clave">>)
                                     /\ gs' = [gs EXCEPT ![t] = r]
                                     /\ pc' = [pc EXCEPT ![t] = "shadow"]
           /\ UNCHANGED <<base, process>>
  <2>1. PICK r \in FreeRegions : /\ MapFor(r, <<t, "clave">>) /\ gs' = [gs EXCEPT ![t] = r]
                                 /\ pc' = [pc EXCEPT ![t] = "shadow"]
    BY <1>3
  <2>2. r \in Regions /\ holder[r] = Free /\ <<t, "clave">> \in Holders
    BY DEF FreeRegions, Kinds
  <2>3. TypeOK'
    BY <1>1, <1>3, <2>1, <2>2 DEF LInv, TypeOK, MapFor, Empty
  <2>4. Remaps(t) /\ \A u \in Threads \ {t} : Same(u)
    BY <1>1, <1>3, <2>1, <2>2 DEF Remaps, Same, LInv, TypeOK
  <2>5. pc'[t] = "shadow" /\ gs'[t] = r /\ holder'[r] = <<t, "clave">>
    BY <2>1, <2>2 DEF LInv, TypeOK, MapFor
  <2>6. holder'[stack[t]] = <<t, "stack">> /\ stack[t] # None /\ entry'[stack[t]] = entry[stack[t]]
    <3>1. stack[t] \in Regions /\ holder[stack[t]] = <<t, "stack">> /\ <<t, "stack">> # Free
      BY <1>1 DEF LInv, Holds, TypeOK, Kinds
    <3> QED
      BY <2>1, <2>2, <3>1 DEF MapFor, LInv, TypeOK
  <2>7. Phase(t)'
    BY <1>1, <1>3, <2>2, <2>5 DEF LInv, Phase, HasClave, HasShadow, Cancelled, TornDown
  <2>8. Holds(t)' /\ ~Uses(t)'
    BY <1>1, <2>5, <2>6 DEF Holds, HasClave, HasShadow, Cancelled, Uses
  <2>9. Stays(t)
    BY <1>1, <2>6 DEF Stays, Alive
  <2> QED
    BY <1>1, <1>3, <2>3, <2>4, <2>7, <2>8, <2>9, StepInv DEF Ends
<1>4. CASE CallExit(t) /\ UNCHANGED <<pc, holder, entry, gs, base>>
  <2>1. /\ process' \in [how : {"exit", "segv"}, thread : {t}]
        /\ process'.how = "segv" => base[t] = None
    BY <1>1, <1>4, ExitFacts DEF LInv, Phase
  <2>2. Faults'
    BY <1>4, <2>1 DEF Faults
  <2> QED
    BY <1>1, <1>4, <2>1, <2>2, EndInv
<1> QED
  BY <1>2, <1>3, <1>4 DEF MapClave

\* The shadow stack arrives, or under REG does not.
LEMMA MapShadowInv ==
  ASSUME LInv, NEW t \in Threads, MapShadow(t), scheme' = scheme
  PROVE  LInv'
<1> USE ConstantFacts
<1>1. Up /\ pc[t] = "shadow" /\ UNCHANGED <<stack, gs, live, floor, left, late>>
  BY DEF MapShadow
<1>2. base[t] = None /\ live[t] = 0 /\ stack[t] \in Regions /\ holder[stack[t]] = <<t, "stack">>
  <2>1. base[t] = None /\ live[t] = 0
    BY <1>1 DEF LInv, Phase
  <2>2. stack[t] # None /\ holder[stack[t]] = <<t, "stack">>
    BY <1>1 DEF LInv, Holds
  <2> QED
    BY <2>1, <2>2 DEF LInv, TypeOK
<1>3. CASE CallExit(t) /\ UNCHANGED <<pc, holder, entry, base>>
  <2>1. process' \in [how : {"exit", "segv"}, thread : {t}] /\ Faults'
    BY <1>2, <1>3, ExitFacts DEF Faults
  <2> QED
    BY <1>1, <1>3, <2>1, EndInv
<1>4. ASSUME NEW r \in MmapAt(Hint(t)), ~(Insists(t) /\ r # Hint(t)), MapFor(r, <<t, "shadow">>),
             base' = [base EXCEPT ![t] = r], pc' = [pc EXCEPT ![t] = "run"], process' = process
      PROVE  LInv'
  <2>1. r \in Regions /\ holder[r] = Free /\ <<t, "shadow">> \in Holders
    BY <1>4 DEF MmapAt, FreeRegions, Kinds
  <2>2. /\ scheme = "MEM" => r = Hardcoded
        /\ scheme = "CON" /\ t # MainThread => r = Mirror[stack[t]]
    BY <1>4 DEF Insists, Hint
  <2>3. scheme = "MEM" => t = MainThread
    <3>1. ASSUME scheme = "MEM", t # MainThread PROVE FALSE
      <4>1. HasShadow(MainThread)
        BY <1>1, <3>1 DEF LInv, Alone
      <4>2. base[MainThread] = Hardcoded /\ holder[Hardcoded] = <<MainThread, "shadow">>
        BY <3>1, <4>1 DEF LInv, Phase, Holds
      <4> QED
        BY <2>1, <2>2, <3>1, <4>2 DEF Kinds
    <3> QED
      BY <3>1
  <2>4. TypeOK'
    BY <1>1, <1>4, <2>1 DEF LInv, TypeOK, MapFor, Empty
  <2>5. Remaps(t) /\ \A u \in Threads \ {t} : Same(u)
    BY <1>1, <1>4, <2>1 DEF Remaps, Same, LInv, TypeOK
  <2>6. pc'[t] = "run" /\ base'[t] = r /\ holder'[r] = <<t, "shadow">>
    BY <1>4, <2>1 DEF LInv, TypeOK, MapFor
  <2>7. holder'[stack[t]] = <<t, "stack">> /\ entry'[stack[t]] = entry[stack[t]]
    BY <1>2, <1>4, <2>1, <<t, "stack">> # Free DEF MapFor, LInv, TypeOK, Kinds
  <2>8. gs[t] # None => gs[t] \in Regions /\ holder'[gs[t]] = <<t, "clave">>
    <3>1. gs[t] # None => gs[t] \in Regions /\ holder[gs[t]] = <<t, "clave">>
      BY <1>1 DEF LInv, Holds, HasClave, TypeOK
    <3> QED
      BY <1>4, <2>1, <3>1 DEF MapFor, LInv, TypeOK, Kinds
  <2>9. Phase(t)'
    <3>1. HasShadow(t)' /\ ~TornDown(t)' /\ HasClave(t)
      BY <1>1, <2>6 DEF HasClave, HasShadow, TornDown
    <3>2. r # None
      BY <2>1
    <3>3. Phase(t)
      BY DEF LInv
    <3> QED
      BY <1>1, <1>2, <2>2, <2>6, <3>1, <3>2, <3>3 DEF Phase
  <2>10. Holds(t)' /\ HasShadow(t)'
    BY <1>1, <1>2, <2>6, <2>7, <2>8 DEF Holds, HasClave, HasShadow, Cancelled
  <2>11. Stays(t)
    BY <1>1, <2>7 DEF Stays, Alive
  <2> QED
    BY <1>1, <1>2, <1>4, <2>3, <2>4, <2>5, <2>6, <2>9, <2>10, <2>11, StepInv DEF Ends
<1>5. CASE /\ scheme = "REG" /\ pc' = [pc EXCEPT ![t] = "run"]
           /\ UNCHANGED <<holder, entry, base, process>>
  <2>1. TypeOK' /\ pc'[t] = "run"
    BY <1>1, <1>5 DEF LInv, TypeOK
  <2>2. Remaps(t) /\ \A u \in Threads \ {t} : Same(u)
    BY <1>1, <1>5 DEF Remaps, Untouched, Same, LInv, TypeOK
  <2>3. Phase(t)' /\ Holds(t)' /\ ~Uses(t)'
    BY <1>1, <1>2, <1>5, <2>1 DEF LInv, Phase, Holds, HasClave, HasShadow, Cancelled, TornDown, Uses
  <2>4. Stays(t)
    BY <1>1, <1>5 DEF Stays, Alive
  <2> QED
    BY <1>1, <1>5, <2>1, <2>2, <2>3, <2>4, StepInv DEF Ends
<1> QED
  BY <1>3, <1>4, <1>5, SchemeFacts DEF MapShadow, LInv

\* The thread leaves: its mappings are untouched so far.
LEMMA LeaveInv ==
  ASSUME LInv, NEW t \in Threads, Return(t) \/ PthreadExit(t) \/ Cancel(t), scheme' = scheme
  PROVE  LInv'
<1> USE ConstantFacts
<1>1. /\ Up /\ pc[t] = "run"
      /\ UNCHANGED <<holder, entry, stack, gs, base, live, late, process>>
      /\ floor' = [floor EXCEPT ![t] = live[t]]
      /\ \/ pc' = [pc EXCEPT ![t] = "unmap"] /\ left' = [left EXCEPT ![t] = "return"] /\ t # MainThread
         \/ pc' = [pc EXCEPT ![t] = "unmap"] /\ left' = [left EXCEPT ![t] = "exit"]
         \/ pc' = [pc EXCEPT ![t] = "late"] /\ left' = [left EXCEPT ![t] = "cancel"]
  BY DEF Return, PthreadExit, Cancel, Over
<1>2. TypeOK'
  <2>1. /\ pc' \in [Threads -> {"none", "clave", "shadow", "run", "unmap", "unclave", "late", "dead"}]
        /\ left' \in [Threads -> {"none", "return", "exit", "cancel"}]
    <3>1. \E a \in {"unmap", "late"}, b \in {"return", "exit", "cancel"} :
             pc' = [pc EXCEPT ![t] = a] /\ left' = [left EXCEPT ![t] = b]
      BY <1>1
    <3> QED
      BY <3>1 DEF LInv, TypeOK
  <2>2. floor' \in [Threads -> 0 .. MaxDepth]
    BY <1>1 DEF LInv, TypeOK
  <2> QED
    BY <1>1, <2>1, <2>2 DEF LInv, TypeOK
<1>3. Remaps(t) /\ Untouched /\ \A u \in Threads \ {t} : Same(u)
  BY <1>1 DEF Remaps, Untouched, Same, LInv, TypeOK
<1>4. scheme = "MEM" => t = MainThread
  BY <1>1 DEF LInv, Alone
<1>5. /\ floor'[t] = live[t] /\ live[t] \in Nat
      /\ \/ pc'[t] = "unmap" /\ left'[t] \in {"return", "exit"} /\ (scheme = "MEM" => left'[t] = "exit")
         \/ pc'[t] = "late" /\ left'[t] = "cancel"
  BY <1>1, <1>4 DEF LInv, TypeOK
<1>6. HasShadow(t) /\ HasShadow(t)' /\ HasClave(t)
  BY <1>1, <1>5 DEF HasShadow, HasClave, Cancelled
<1>7. Phase(t)'
  BY <1>1, <1>5, <1>6 DEF LInv, Phase, TornDown
<1>8. Holds(t)'
  BY <1>1, <1>6 DEF LInv, Holds
<1>9. (Uses(t)' => Uses(t) /\ base' = base) /\ Stays(t)
  BY <1>1, <1>6 DEF Uses, Stays, Alive
<1> QED
  BY <1>1, <1>2, <1>3, <1>4, <1>5, <1>6, <1>7, <1>8, <1>9, StepInv DEF Ends

\* The thread unmaps a region r of its own, or one it never had.
LEMMA UnmapOwn ==
  ASSUME LInv, NEW t \in Threads, NEW r \in Regions, Unmap(r), holder[r] \in {t} \X Kinds
  PROVE  /\ Remaps(t) /\ MapFor(r, Free)
         /\ holder' \in [Regions -> Holders]
         /\ entry' \in [Regions -> [1 .. MaxDepth -> Threads \cup {None}]]
         /\ \A q \in Regions : holder[q] # holder[r] => holder'[q] = holder[q] /\ entry'[q] = entry[q]
<1>1. MapFor(r, Free) /\ Free \in Holders
  BY ConstantFacts DEF Unmap, MapFor
<1>2. Remaps(t)
  BY <1>1 DEF Remaps
<1>3. /\ holder' \in [Regions -> Holders]
      /\ entry' \in [Regions -> [1 .. MaxDepth -> Threads \cup {None}]]
  BY <1>1 DEF MapFor, Empty, LInv, TypeOK
<1>4. \A q \in Regions : holder[q] # holder[r] => holder'[q] = holder[q] /\ entry'[q] = entry[q]
  BY <1>1 DEF MapFor, LInv, TypeOK
<1> QED
  BY <1>1, <1>2, <1>3, <1>4

LEMMA UnmapShadowInv ==
  ASSUME LInv, NEW t \in Threads, UnmapShadow(t), scheme' = scheme
  PROVE  LInv'
<1> USE ConstantFacts
<1>1. Up /\ pc[t] = "unmap" /\ UNCHANGED <<stack, gs, base, live, floor, left, late>>
  BY DEF UnmapShadow
<1>2. HasShadow(t) /\ HasClave(t) /\ Phase(t) /\ Holds(t)
  BY <1>1 DEF LInv, HasShadow, HasClave
<1>3. CASE gs[t] = None
  <2>1. process' = [how |-> "segv", thread |-> t] /\ UNCHANGED <<pc, holder, entry>>
    BY <1>3 DEF UnmapShadow, End
  <2>2. Faults'
    BY <1>1, <1>2, <1>3, <2>1, SchemeFacts DEF Faults, Phase, LInv
  <2> QED
    BY <1>1, <2>1, <2>2, EndInv
<1>4. CASE gs[t] # None /\ base[t] = None /\ left[t] = "exit"
  <2>1. CallExit(t) /\ UNCHANGED <<pc, holder, entry>>
    BY <1>4 DEF UnmapShadow
  <2>2. process' \in [how : {"exit", "segv"}, thread : {t}] /\ Faults'
    BY <1>1, <1>4, <2>1, ExitFacts DEF Faults
  <2> QED
    BY <1>1, <2>1, <2>2, EndInv
<1>5. CASE gs[t] # None /\ ~(base[t] = None /\ left[t] = "exit")
  <2>1. /\ pc' = [pc EXCEPT ![t] = "unclave"] /\ process' = process
        /\ IF base[t] = None THEN UNCHANGED <<holder, entry>> ELSE Unmap(base[t])
    BY <1>5 DEF UnmapShadow
  <2>2. scheme = "REG"
    BY <1>2, <1>5, SchemeFacts DEF Phase, LInv
  <2>3. /\ Remaps(t) /\ holder' \in [Regions -> Holders]
        /\ entry' \in [Regions -> [1 .. MaxDepth -> Threads \cup {None}]]
        /\ \A q \in Regions : holder[q] # <<t, "shadow">> => holder'[q] = holder[q] /\ entry'[q] = entry[q]
    <3>1. CASE base[t] = None
      BY <2>1, <3>1 DEF Remaps, Untouched, LInv, TypeOK
    <3>2. CASE base[t] # None
      <4>1. base[t] \in Regions /\ holder[base[t]] = <<t, "shadow">>
        BY <1>2, <3>2 DEF Holds, LInv, TypeOK
      <4>2. holder[base[t]] \in {t} \X Kinds
        BY <4>1 DEF Kinds
      <4> QED
        BY <2>1, <3>2, <4>1, <4>2, UnmapOwn
    <3> QED
      BY <3>1, <3>2
  <2>4. TypeOK' /\ pc'[t] = "unclave"
    BY <1>1, <2>1, <2>3 DEF LInv, TypeOK
  <2>5. \A u \in Threads \ {t} : Same(u)
    BY <1>1, <2>1 DEF Same, LInv, TypeOK
  <2>6. Phase(t)'
    BY <1>1, <1>2, <1>5, <2>2, <2>4 DEF Phase, HasClave, HasShadow, Cancelled, TornDown
  <2>7. holder'[stack[t]] = <<t, "stack">> /\ stack[t] # None /\ entry'[stack[t]] = entry[stack[t]]
    <3>1. stack[t] \in Regions /\ stack[t] # None /\ holder[stack[t]] = <<t, "stack">>
      BY <1>1, <1>2 DEF Holds, LInv, TypeOK
    <3> QED
      BY <2>3, <3>1
  <2>8. holder'[gs[t]] = <<t, "clave">>
    <3>1. gs[t] \in Regions /\ holder[gs[t]] = <<t, "clave">>
      BY <1>2, <1>5 DEF Holds, LInv, TypeOK
    <3> QED
      BY <2>3, <3>1
  <2>9. Holds(t)' /\ ~Uses(t)'
    BY <1>1, <2>4, <2>7, <2>8 DEF Holds, HasShadow, Cancelled, Uses
  <2>10. Stays(t)
    BY <1>1, <2>7 DEF Stays, Alive
  <2> QED
    BY <1>1, <2>1, <2>2, <2>3, <2>4, <2>5, <2>6, <2>9, <2>10, StepInv DEF Ends
<1> QED
  BY <1>3, <1>4, <1>5

LEMMA UnmapClaveInv ==
  ASSUME LInv, NEW t \in Threads, UnmapClave(t), scheme' = scheme
  PROVE  LInv'
<1> USE ConstantFacts
<1>1. /\ Up /\ pc[t] = "unclave" /\ Unmap(gs[t]) /\ pc' = [pc EXCEPT ![t] = "late"]
      /\ UNCHANGED <<stack, gs, base, live, floor, left, late, process>>
  BY DEF UnmapClave
<1>2. Phase(t) /\ Holds(t) /\ scheme = "REG" /\ HasClave(t)
  BY <1>1, SchemeFacts DEF LInv, Phase, HasClave
<1>3. gs[t] \in Regions /\ holder[gs[t]] = <<t, "clave">>
  <2>1. gs[t] # None /\ holder[gs[t]] = <<t, "clave">>
    BY <1>2 DEF Phase, Holds
  <2> QED
    BY <2>1 DEF LInv, TypeOK
<1>4. /\ Remaps(t) /\ holder' \in [Regions -> Holders]
      /\ entry' \in [Regions -> [1 .. MaxDepth -> Threads \cup {None}]]
      /\ \A q \in Regions : holder[q] # <<t, "clave">> => holder'[q] = holder[q] /\ entry'[q] = entry[q]
  <2>1. holder[gs[t]] \in {t} \X Kinds
    BY <1>3 DEF Kinds
  <2> QED
    BY <1>1, <1>3, <2>1, UnmapOwn
<1>5. TypeOK' /\ pc'[t] = "late"
  BY <1>1, <1>4 DEF LInv, TypeOK
<1>6. \A u \in Threads \ {t} : Same(u)
  BY <1>1 DEF Same, LInv, TypeOK
<1>7. left'[t] \in {"return", "exit"} /\ floor'[t] = live'[t] /\ live'[t] \in Int
  BY <1>1, <1>2 DEF Phase, LInv, TypeOK
<1>8. Holds(t)' /\ ~Uses(t)' /\ Stays(t)
  <2>1. stack[t] \in Regions /\ stack[t] # None /\ holder[stack[t]] = <<t, "stack">>
    BY <1>1, <1>2 DEF Holds, LInv, TypeOK
  <2>2. holder'[stack[t]] = <<t, "stack">> /\ entry'[stack[t]] = entry[stack[t]]
    BY <1>4, <2>1
  <2>3. Stays(t)
    BY <1>1, <2>2 DEF Stays, Alive
  <2> QED
    BY <1>1, <1>5, <1>7, <2>1, <2>2, <2>3 DEF Holds, HasClave, HasShadow, Cancelled, Uses
<1>9. ~HasClave(t)' /\ ~HasShadow(t)'
  BY <1>5, <1>7 DEF HasClave, HasShadow, Cancelled
<1>10. Phase(t)'
  BY <1>2, <1>5, <1>7, <1>9 DEF Phase
<1> QED
  BY <1>1, <1>2, <1>4, <1>5, <1>6, <1>8, <1>10, StepInv DEF Ends

\* libc is done with the thread; the last one calls exit().
LEMMA DieInv ==
  ASSUME LInv, NEW t \in Threads, Die(t), scheme' = scheme
  PROVE  LInv'
<1> USE ConstantFacts
<1>1. /\ Up /\ pc[t] = "late" /\ pc' = [pc EXCEPT ![t] = "dead"]
      /\ UNCHANGED <<stack, gs, base, live, floor, left, late>>
  BY DEF Die
<1>2. Phase(t) /\ Holds(t) /\ pc'[t] = "dead"
  BY <1>1 DEF LInv, TypeOK
<1>3. \A u \in Threads \ {t} : Same(u)
  BY <1>1 DEF Same, LInv, TypeOK
<1>4. (HasShadow(t)' <=> HasShadow(t)) /\ (HasClave(t)' <=> HasClave(t)) /\ ~TornDown(t)' /\ ~Uses(t)'
  BY <1>1, <1>2 DEF HasShadow, HasClave, Cancelled, TornDown, Uses
<1>5. Phase(t)'
  BY <1>1, <1>2, <1>4 DEF Phase
<1>6. (scheme = "MEM" => t = MainThread) /\ Stays(t)
  BY <1>1, <1>2 DEF LInv, Alone, Stays, Alive
<1>7. CASE CallExit(t) /\ UNCHANGED <<holder, entry>>
  <2>1. process' \in [how : {"exit", "segv"}, thread : {t}] /\ Faults'
    BY <1>1, <1>2, <1>7, ExitFacts DEF Faults, HasShadow, Cancelled, Strays, Misplaced
  <2>2. TypeOK'
    BY <1>1, <1>7, <2>1 DEF LInv, TypeOK
  <2>3. Remaps(t)
    BY <1>7 DEF Remaps, Untouched
  <2>4. Holds(t)'
    BY <1>1, <1>2, <1>4, <1>7 DEF Holds
  <2> QED
    BY <1>1, <1>2, <1>3, <1>4, <1>5, <1>6, <2>1, <2>2, <2>3, <2>4, StepInv DEF Ends
<1>8. CASE /\ IF t = MainThread THEN UNCHANGED <<holder, entry>> ELSE Unmap(stack[t])
           /\ process' = process
  <2>1. stack[t] \in Regions /\ holder[stack[t]] = <<t, "stack">> /\ holder[stack[t]] \in {t} \X Kinds
    <3>1. stack[t] # None /\ holder[stack[t]] = <<t, "stack">>
      BY <1>1, <1>2 DEF Holds
    <3> QED
      BY <3>1 DEF LInv, TypeOK, Kinds
  <2>2. /\ Remaps(t) /\ holder' \in [Regions -> Holders]
        /\ entry' \in [Regions -> [1 .. MaxDepth -> Threads \cup {None}]]
        /\ \A q \in Regions : holder[q] # <<t, "stack">> => holder'[q] = holder[q]
    <3>1. CASE t = MainThread
      BY <1>8, <3>1 DEF Remaps, Untouched, LInv, TypeOK
    <3>2. CASE t # MainThread
      BY <1>8, <2>1, <3>2, UnmapOwn
    <3> QED
      BY <3>1, <3>2
  <2>3. TypeOK'
    BY <1>1, <1>8, <2>2 DEF LInv, TypeOK
  <2>4. Holds(t)'
    <3>1. HasClave(t) /\ gs[t] # None => holder'[gs[t]] = <<t, "clave">>
      <4>1. HasClave(t) /\ gs[t] # None => gs[t] \in Regions /\ holder[gs[t]] = <<t, "clave">>
        BY <1>2 DEF Holds, LInv, TypeOK
      <4> QED
        BY <2>2, <4>1
    <3>2. HasShadow(t) /\ base[t] # None => holder'[base[t]] = <<t, "shadow">>
      <4>1. HasShadow(t) /\ base[t] # None => base[t] \in Regions /\ holder[base[t]] = <<t, "shadow">>
        BY <1>2 DEF Holds, LInv, TypeOK
      <4> QED
        BY <2>2, <4>1
    <3> QED
      BY <1>1, <1>2, <1>4, <3>1, <3>2 DEF Holds
  <2> QED
    BY <1>1, <1>2, <1>3, <1>4, <1>5, <1>6, <1>8, <2>2, <2>3, <2>4, StepInv DEF Ends
<1> QED
  BY <1>7, <1>8 DEF Die

LEMMA ExitInv ==
  ASSUME LInv, NEW t \in Threads, Exit(t), scheme' = scheme
  PROVE  LInv'
<1>1. /\ Up /\ pc[t] = "run" /\ CallExit(t)
      /\ UNCHANGED <<pc, holder, entry, stack, gs, base, live, floor, left, late>>
  BY DEF Exit
<1>2. process' \in [how : {"exit", "segv"}, thread : {t}] /\ Faults'
  BY <1>1, ExitFacts DEF Faults, HasShadow, Strays, Misplaced
<1> QED
  BY <1>1, <1>2, EndInv

LEMMA OtherMapInv ==
  ASSUME LInv, OtherMap \/ OtherUnmap, scheme' = scheme
  PROVE  LInv'
<1>0. PICK t \in Threads : t = MainThread
  BY ConstantFacts
<1>1. PICK r \in Regions, h \in {Free, Other} : MapFor(r, h) /\ holder[r] \in {Free, Other}
  BY DEF OtherMap, OtherUnmap, FreeRegions, Unmap, MapFor
<1>2. Up /\ UNCHANGED <<pc, stack, gs, base, live, floor, left, late, process>>
  BY DEF OtherMap, OtherUnmap
<1>3. h \in Holders
  BY <1>1, ConstantFacts
<1>4. TypeOK'
  BY <1>1, <1>2, <1>3 DEF LInv, TypeOK, MapFor, Empty
<1>5. Remaps(t) /\ \A u \in Threads : Same(u)
  BY <1>1, <1>2, <1>3 DEF Remaps, Same, MapFor
<1>6. ASSUME NEW q \in Regions, NEW k \in Kinds, holder[q] = <<t, k>>
      PROVE  holder'[q] = holder[q] /\ entry'[q] = entry[q]
  <2>1. q # r
    BY <1>1, <1>6, ConstantFacts
  <2> QED
    BY <1>1, <2>1 DEF MapFor, LInv, TypeOK
<1>7. Phase(t)' /\ (HasShadow(t)' <=> HasShadow(t)) /\ (HasClave(t)' <=> HasClave(t)) /\ (Uses(t)' => Uses(t))
  <2>1. (HasShadow(t)' <=> HasShadow(t)) /\ (HasClave(t)' <=> HasClave(t)) /\ (TornDown(t)' <=> TornDown(t))
    BY <1>2 DEF HasShadow, HasClave, Cancelled, TornDown
  <2>2. Uses(t)' => Uses(t)
    BY <1>2, <2>1 DEF Uses
  <2>3. Phase(t)'
    BY <1>2, <2>1 DEF Phase, LInv
  <2> QED
    BY <2>1, <2>2, <2>3
<1>8. Holds(t)'
  <2>1. pc[t] \notin {"none", "dead"} => stack[t] # None /\ holder'[stack[t]] = <<t, "stack">>
    <3>1. pc[t] \notin {"none", "dead"} => /\ stack[t] # None /\ stack[t] \in Regions
                                          /\ holder[stack[t]] = <<t, "stack">>
      BY DEF Holds, LInv, TypeOK
    <3> QED
      BY <1>6, <3>1 DEF Kinds
  <2>2. HasClave(t) /\ gs[t] # None => holder'[gs[t]] = <<t, "clave">>
    <3>1. HasClave(t) /\ gs[t] # None => gs[t] \in Regions /\ holder[gs[t]] = <<t, "clave">>
      BY DEF Holds, LInv, TypeOK
    <3> QED
      BY <1>6, <3>1 DEF Kinds
  <2>3. HasShadow(t) /\ base[t] # None => holder'[base[t]] = <<t, "shadow">>
    <3>1. HasShadow(t) /\ base[t] # None => base[t] \in Regions /\ holder[base[t]] = <<t, "shadow">>
      BY DEF Holds, LInv, TypeOK
    <3> QED
      BY <1>6, <3>1 DEF Kinds
  <2> QED
    BY <1>2, <1>7, <2>1, <2>2, <2>3 DEF Holds
<1>9. Uses(t)' => Uses(t) /\ base'[t] = base[t] /\ entry'[base[t]] = entry[base[t]]
  <2>1. Uses(t) => base[t] \in Regions /\ holder[base[t]] = <<t, "shadow">>
    BY DEF Uses, Holds, LInv, TypeOK
  <2> QED
    BY <1>2, <1>6, <1>7, <2>1 DEF Kinds
<1>10. Stays(t)
  <2>1. Alive(t) => stack[t] \in Regions /\ holder[stack[t]] = <<t, "stack">>
    BY DEF Alive, Holds, LInv, TypeOK
  <2> QED
    BY <1>2, <1>6, <2>1 DEF Stays, Alive, Kinds
<1>11. scheme = "MEM" => t = MainThread
  BY <1>0
<1> QED
  BY <1>2, <1>4, <1>5, <1>7, <1>8, <1>9, <1>10, <1>11, StepInv DEF Ends

-----------------------------------------------------------------------------
(* Instrumented calls. *)

\* What a push or a pop of thread t leaves as it is.
Calls(t) ==
  /\ UNCHANGED <<scheme, pc, holder, stack, gs, base, floor, left>>
  /\ \A u \in Threads \ {t} : live'[u] = live[u]
  /\ late \subseteq late' /\ (~TornDown(t) => late' = late) /\ floor[t] <= live'[t]
  /\ TornDown(t) /\ live'[t] > floor[t] => t \in late'

LEMMA CallKeeps ==
  ASSUME LInv, NEW t \in Threads, MayCall(t), Calls(t)
  PROVE  /\ \A u \in Threads : Phase(u)' /\ Holds(u)' /\ (Uses(u)' <=> Uses(u))
         /\ Alone' /\ (scheme = "CON" => late' = {})
         /\ (Misplaced' <=> Misplaced) /\ \A u \in Threads : Strays(u)' <=> Strays(u)
         /\ \A u \in Threads : (Hit(u)' <=> Hit(u)) /\ (InTheWay(u)' <=> InTheWay(u)) /\ (Alive(u)' <=> Alive(u))
<1>1. ASSUME NEW u \in Threads PROVE Phase(u)' /\ Holds(u)' /\ (Uses(u)' <=> Uses(u))
  <2>1. /\ (HasShadow(u)' <=> HasShadow(u)) /\ (HasClave(u)' <=> HasClave(u))
        /\ (TornDown(u)' <=> TornDown(u)) /\ (Uses(u)' <=> Uses(u))
    BY DEF Calls, HasShadow, HasClave, Cancelled, TornDown, Uses
  <2>2. Holds(u)'
    BY <2>1 DEF LInv, Holds, Calls
  <2>3. Phase(u)'
    <3>1. CASE u = t
      BY <2>1, <3>1 DEF LInv, Phase, Calls, MayCall
    <3>2. CASE u # t
      BY <2>1, <3>2 DEF LInv, Phase, Calls
    <3> QED
      BY <3>1, <3>2
  <2> QED
    BY <2>1, <2>2, <2>3
<1>2. Alone'
  BY DEF LInv, Alone, Calls, HasShadow, Cancelled
<1>3. scheme = "CON" => late' = {}
  BY DEF LInv, Intact, Phase, TornDown, Calls
<1>4. (Misplaced' <=> Misplaced) /\ \A u \in Threads : Strays(u)' <=> Strays(u)
  BY DEF Strays, Misplaced, Calls
<1>5. \A u \in Threads : (Hit(u)' <=> Hit(u)) /\ (InTheWay(u)' <=> InTheWay(u)) /\ (Alive(u)' <=> Alive(u))
  BY <1>4 DEF Hit, InTheWay, Alive, Calls
<1> QED
  BY <1>1, <1>2, <1>3, <1>4, <1>5

\* A thread that may call and has no shadow stack of its own any more has torn it down.
LEMMA CallerFacts ==
  ASSUME LInv, NEW t \in Threads, MayCall(t)
  PROVE  /\ HasShadow(t) <=> ~TornDown(t)
         /\ HasShadow(t) => /\ Mapped(Target(t)) => base[t] # None
                            /\ base[t] # None => Uses(t) /\ (~Strays(t) => Whole(Target(t)))
         /\ Alive(t) /\ stack[t] \in Regions /\ holder[stack[t]] = <<t, "stack">>
         /\ Target(t) \in Regions \cup {None}
<1>1. HasShadow(t) <=> ~TornDown(t)
  BY DEF MayCall, HasShadow, TornDown, Cancelled
<1>2. ASSUME HasShadow(t), base[t] # None PROVE Uses(t) /\ (~Strays(t) => Whole(Target(t)))
  BY <1>2, TargetFacts DEF MayCall, Uses
<1>3. Alive(t) /\ stack[t] \in Regions /\ holder[stack[t]] = <<t, "stack">>
  BY DEF LInv, Holds, TypeOK, MayCall, Alive
<1>4. Target(t) \in Regions \cup {None}
  BY <1>3, SchemeFacts, LifecycleAssumption DEF Target, LInv, TypeOK
<1> QED
  BY <1>1, <1>2, <1>3, <1>4, NoTarget

\* A thread whose epilog finds another address than its prolog left strays, or
\* its stack was hit.
LEMMA UnequalFacts ==
  ASSUME LInv, late = {}, NEW t \in Threads, MayCall(t), Mapped(Target(t)), live[t] > floor[t],
         FALSE \in Equal(t)
  PROVE  Strays(t) \/ InTheWay(t)
<1> SUFFICES ASSUME ~Strays(t) PROVE InTheWay(t)
  OBVIOUS
<1>1. ~TornDown(t) \/ t \in late
  BY DEF LInv, Phase
<1>2. Uses(t) /\ Target(t) = base[t] /\ Victims(t) = {} /\ Whole(Target(t))
  BY <1>1, CallerFacts, TargetFacts
<1>3. entry[base[t]][live[t]] # Address(t, live[t])
  BY <1>2 DEF Equal, Whole
<1>4. live[t] \in 1 .. live[t] /\ live[t] \in 1 .. MaxDepth
  BY ConstantFacts DEF LInv, Phase, TypeOK
<1>5. entry[base[t]][live[t]] = t
  BY <1>2, <1>4 DEF LInv, Intact, Mine
<1>6. ~Clean(t) /\ Alive(t) /\ holder[stack[t]] = <<t, "stack">>
  BY <1>3, <1>4, <1>5, CallerFacts DEF Clean, Address
<1>7. Hit(t)
  BY <1>6 DEF LInv, Intact
<1> QED
  BY <1>6, <1>7 DEF Hit, InTheWay

\* A call that ends the process.
LEMMA StopInv ==
  ASSUME LInv, Up, NEW t \in Threads, MayCall(t), Calls(t), TypeOK', UNCHANGED <<entry, live>>, Faults',
         late' = {} => /\ process'.how = "trap" => Strays(process'.thread) \/ InTheWay(process'.thread)
                       /\ process'.how = "astray" => InTheWay(process'.thread),
         process'.thread \in Threads
  PROVE  LInv'
<1>1. Intact'
  <2> SUFFICES ASSUME late' = {}
               PROVE  /\ ~Misplaced => Confined'
                      /\ \A u \in Threads : ~Strays(u) => Mine(u)'
                      /\ \A u \in Threads : ~Hit(u) => Clean(u)'
    BY CallKeeps DEF Intact, Calls
  <2>1. late = {}
    BY DEF Calls
  <2>2. ~Misplaced => Confined'
    BY <2>1 DEF LInv, Intact, Confined, Calls
  <2>3. \A u \in Threads : ~Strays(u) => Mine(u)'
    BY <2>1, CallKeeps DEF LInv, Intact, Mine, Calls
  <2>4. \A u \in Threads : ~Hit(u) => Clean(u)'
    BY <2>1, CallKeeps DEF LInv, Intact, Clean, Calls
  <2> QED
    BY <2>2, <2>3, <2>4
<1> QED
  BY <1>1, CallKeeps DEF LInv

LEMMA SegvInv ==
  ASSUME LInv, Up, NEW t \in Threads, MayCall(t), ~Whole(Target(t)), Calls(t), TypeOK',
         UNCHANGED <<entry, live>>, process' = [how |-> "segv", thread |-> t],
         TornDown(t) => t \in late'
  PROVE  LInv'
<1>1. base[t] = None \/ Strays(t) \/ t \in late'
  BY CallerFacts
<1>2. Faults'
  BY <1>1, CallKeeps DEF Faults, Calls
<1> QED
  BY <1>2, StopInv

\* The two words a call writes.
LEMMA PushType ==
  ASSUME LInv, NEW t \in Threads, NEW i \in 0 .. MaxDepth, entry' = Stored(t, i)
  PROVE  entry' \in [Regions -> [1 .. MaxDepth -> Threads \cup {None}]]
<1>1. entry \in [Regions -> [1 .. MaxDepth -> Threads \cup {None}]]
  BY DEF LInv, TypeOK
<1>2. ASSUME NEW r \in Regions
      PROVE  [j \in 1 .. MaxDepth |->
                IF r = Target(t) /\ j = i THEN t
                ELSE IF r = stack[t] /\ j = live[t] + 1 THEN None ELSE entry[r][j]]
             \in [1 .. MaxDepth -> Threads \cup {None}]
  BY <1>1
<1> QED
  BY <1>2 DEF Stored

LEMMA PushWrites ==
  ASSUME LInv, NEW t \in Threads, MayCall(t), Mapped(Target(t)), Target(t) # stack[t],
         live[t] + 1 \in 1 .. MaxDepth, NEW i \in 0 .. MaxDepth,
         entry' = Stored(t, i)
  PROVE  /\ Target(t) \in Regions /\ stack[t] \in Regions
         /\ \A q \in Regions : q # Target(t) /\ q # stack[t] => entry'[q] = entry[q]
         /\ \A j \in 1 .. MaxDepth :
              /\ entry'[Target(t)][j] = IF j = i THEN t ELSE entry[Target(t)][j]
              /\ entry'[stack[t]][j] = IF j = live[t] + 1 THEN None ELSE entry[stack[t]][j]
<1>1. Target(t) \in Regions /\ stack[t] \in Regions
  BY CallerFacts DEF Mapped
<1>2. entry \in [Regions -> [1 .. MaxDepth -> Threads \cup {None}]]
  BY DEF LInv, TypeOK
<1>3. \A q \in Regions, j \in 1 .. MaxDepth :
        entry'[q][j] = IF q = Target(t) /\ j = i THEN t
                       ELSE IF q = stack[t] /\ j = live[t] + 1 THEN None ELSE entry[q][j]
  BY DEF Stored
<1>4. ASSUME NEW q \in Regions, q # Target(t), q # stack[t] PROVE entry'[q] = entry[q]
  <2>1. entry'[q] = [j \in 1 .. MaxDepth |-> entry[q][j]]
    BY <1>4 DEF Stored
  <2>2. entry[q] = [j \in 1 .. MaxDepth |-> entry[q][j]]
    BY <1>2
  <2> QED
    BY <2>1, <2>2
<1> QED
  BY <1>1, <1>3, <1>4

LEMMA PushInv ==
  ASSUME LInv, NEW t \in Threads, Push(t), scheme' = scheme
  PROVE  LInv'
<1> USE ConstantFacts
<1>1. /\ Up /\ MayCall(t) /\ live[t] < MaxDepth /\ UNCHANGED <<pc, holder, stack, gs, base, floor, left>>
      /\ late' = IF TornDown(t) THEN late \cup {t} ELSE late
  BY DEF Push
<1>2. late' \subseteq Late /\ late \subseteq late' /\ (TornDown(t) => t \in late')
  BY <1>1 DEF LInv, TypeOK, MayCall, TornDown
<1>3. live[t] \in 0 .. MaxDepth /\ floor[t] \in 0 .. MaxDepth /\ floor[t] <= live[t]
  BY DEF LInv, Phase, TypeOK
<1>4. live[t] + 1 \in 1 .. MaxDepth
  BY <1>1, <1>3
<1>5. ASSUME late' = {}
      PROVE  /\ late = {} /\ HasShadow(t)
             /\ Mapped(Target(t)) => Uses(t) /\ base[t] # None
  BY <1>1, <1>5, CallerFacts
<1>6. CASE ~Whole(Target(t)) /\ End("segv", t) /\ UNCHANGED <<entry, live>>
  <2>1. TypeOK'
    BY <1>1, <1>2, <1>6 DEF LInv, TypeOK, End
  <2>2. Calls(t)
    BY <1>1, <1>2, <1>3, <1>6 DEF Calls
  <2> QED
    BY <1>1, <1>2, <1>6, <2>1, <2>2, SegvInv DEF End
<1>7. CASE Mapped(Target(t)) /\ (\E u \in Victims(t) : End("astray", u)) /\ UNCHANGED <<entry, live>>
  <2>1. PICK u \in Victims(t) : process' = [how |-> "astray", thread |-> u]
    BY <1>7 DEF End
  <2>2. u \in Threads /\ u # t /\ holder[Target(t)] = <<u, "stack">>
    BY DEF Victims
  <2>3. TypeOK'
    BY <1>1, <1>2, <1>7, <2>1, <2>2 DEF LInv, TypeOK
  <2>4. Calls(t)
    BY <1>1, <1>2, <1>3, <1>7 DEF Calls
  <2>5. late' = {} => InTheWay(u)
    <3> SUFFICES ASSUME late' = {} PROVE InTheWay(u)
      OBVIOUS
    <3>1. Strays(t)
      BY <1>5, <1>7, TargetFacts
    <3> QED
      BY <2>2, <3>1 DEF Strays, Misplaced, InTheWay, Target
  <2>6. Faults'
    BY <2>1 DEF Faults
  <2> QED
    BY <1>1, <1>7, <2>1, <2>2, <2>3, <2>4, <2>5, <2>6, StopInv
<1>8. CASE /\ Mapped(Target(t))
           /\ \E i \in IF Victims(t) = {} THEN {live[t] + 1} ELSE 0 .. MaxDepth :
                entry' = Stored(t, i)
           /\ live' = [live EXCEPT ![t] = @ + 1]
           /\ UNCHANGED process
  <2>1. PICK i \in 0 .. MaxDepth :
           /\ Victims(t) = {} => i = live[t] + 1
           /\ entry' = Stored(t, i)
    BY <1>4, <1>8
  <2>2. TypeOK'
    <3>1. live' \in [Threads -> 0 .. MaxDepth]
      BY <1>4, <1>8 DEF LInv, TypeOK
    <3>2. entry' \in [Regions -> [1 .. MaxDepth -> Threads \cup {None}]]
      BY <1>8, <2>1, PushType
    <3> QED
      BY <1>1, <1>2, <1>8, <3>1, <3>2 DEF LInv, TypeOK
  <2>3. live'[t] = live[t] + 1 /\ \A u \in Threads \ {t} : live'[u] = live[u]
    BY <1>8 DEF LInv, TypeOK
  <2>4. Calls(t)
    BY <1>1, <1>2, <1>3, <2>3 DEF Calls
  <2>5. Faults'
    BY <1>1, <1>8 DEF Up, Faults
  <2>6. Intact'
    <3> SUFFICES ASSUME late' = {}
                 PROVE  /\ ~Misplaced => Confined'
                        /\ \A u \in Threads : ~Strays(u) => Mine(u)'
                        /\ \A u \in Threads : ~Hit(u) => Clean(u)'
      BY <1>1, <1>8, <2>4, CallKeeps DEF Intact, Up
    <3>1. late = {} /\ Uses(t) /\ HasShadow(t) /\ base[t] # None
      BY <1>5, <1>8
    <3>2. Alive(t) /\ stack[t] \in Regions /\ holder[stack[t]] = <<t, "stack">>
      BY <1>1, CallerFacts
    <3>3. Strays(t) => t = MainThread /\ scheme = "CON" /\ Target(t) = Mirror[stack[t]]
      BY DEF Strays, Misplaced, Target
    <3>4. ~Strays(t) => /\ Target(t) = base[t] /\ base[t] \in Regions /\ holder[base[t]] = <<t, "shadow">>
                        /\ i = live[t] + 1
      BY <2>1, <3>1, TargetFacts
    <3>5. Target(t) # stack[t]
      BY <3>2, <3>3, <3>4, LifecycleAssumption
    <3>6. /\ Target(t) \in Regions
          /\ \A q \in Regions : q # Target(t) /\ q # stack[t] => entry'[q] = entry[q]
          /\ \A j \in 1 .. MaxDepth :
               /\ entry'[Target(t)][j] = IF j = i THEN t ELSE entry[Target(t)][j]
               /\ entry'[stack[t]][j] = IF j = live[t] + 1 THEN None ELSE entry[stack[t]][j]
      BY <1>1, <1>4, <1>8, <2>1, <3>5, PushWrites
    <3>7. (~Misplaced => Confined) /\ \A u \in Threads : (~Strays(u) => Mine(u)) /\ (~Hit(u) => Clean(u))
      BY <3>1 DEF LInv, Intact
    <3>8. ~Misplaced => Confined'
      <4> SUFFICES ASSUME ~Misplaced, NEW q \in Regions, NEW j \in 1 .. MaxDepth, entry'[q][j] # None
                   PROVE  holder[q] = <<entry'[q][j], "shadow">>
        BY <1>1 DEF Confined
      <4>1. ~Strays(t)
        BY DEF Strays
      <4>2. CASE q = base[t] /\ j = i
        BY <3>4, <3>6, <4>1, <4>2
      <4>3. CASE ~(q = base[t] /\ j = i)
        <5>1. entry'[q][j] = entry[q][j]
          BY <3>4, <3>6, <4>1, <4>3
        <5> QED
          BY <3>7, <5>1 DEF Confined
      <4> QED
        BY <4>2, <4>3
    <3>9. ASSUME NEW u \in Threads, ~Strays(u) PROVE Mine(u)'
      <4> SUFFICES ASSUME Uses(u) PROVE \A j \in 1 .. live'[u] : entry'[base[u]][j] = u
        BY <1>1, <2>4, CallKeeps DEF Mine
      <4>1. HasShadow(u) /\ Target(u) = base[u] /\ base[u] \in Regions /\ holder[base[u]] = <<u, "shadow">>
        BY <3>9, TargetFacts DEF Uses
      <4>2. base[u] # stack[t]
        BY <3>2, <4>1
      <4>3. CASE u = t
        <5>1. 1 .. live'[t] \subseteq 1 .. MaxDepth /\ \A j \in 1 .. live'[t] : j # live[t] + 1 => j \in 1 .. live[t]
          BY <1>3, <1>4, <2>3
        <5> QED
          BY <3>1, <3>4, <3>6, <3>7, <3>9, <4>3, <5>1 DEF Mine
      <4>4. CASE u # t
        <5>1. base[u] # Target(t)
          <6>1. CASE Strays(t)
            <7>1. /\ stack[u] \in Regions /\ holder[stack[u]] = <<u, "stack">>
              BY DEF LInv, Holds, TypeOK, Uses
            <7>2. stack[u] # stack[t]
              BY <3>2, <4>4, <7>1
            <7>3. base[u] = Mirror[stack[u]]
              BY <3>3, <4>1, <4>4, <6>1 DEF LInv, Phase
            <7> QED
              BY <3>2, <3>3, <6>1, <7>1, <7>2, <7>3, LifecycleAssumption
          <6>2. CASE ~Strays(t)
            BY <3>4, <4>1, <4>4, <6>2
          <6> QED
            BY <6>1, <6>2
        <5>2. entry'[base[u]] = entry[base[u]] /\ live'[u] = live[u]
          BY <2>3, <3>6, <4>1, <4>2, <4>4, <5>1
        <5> QED
          BY <3>7, <3>9, <5>2 DEF Mine
      <4> QED
        BY <4>3, <4>4
    <3>10. ASSUME NEW u \in Threads, ~Hit(u) PROVE Clean(u)'
      <4> SUFFICES ASSUME Alive(u), NEW j \in 1 .. MaxDepth PROVE entry'[stack[u]][j] = None
        BY <1>1, <2>4, CallKeeps DEF Clean
      <4>1. stack[u] \in Regions /\ holder[stack[u]] = <<u, "stack">> /\ entry[stack[u]][j] = None
        BY <3>7, <3>10 DEF LInv, Holds, TypeOK, Alive, Clean
      <4>2. stack[u] # Target(t)
        <5>1. CASE Strays(t)
          BY <3>3, <3>10, <5>1 DEF Hit, Strays
        <5>2. CASE ~Strays(t)
          BY <3>4, <4>1, <5>2
        <5> QED
          BY <5>1, <5>2
      <4> QED
        BY <3>6, <4>1, <4>2
    <3> QED
      BY <3>8, <3>9, <3>10
  <2> QED
    BY <1>1, <2>2, <2>4, <2>5, <2>6, CallKeeps DEF LInv
<1> QED
  BY <1>6, <1>7, <1>8 DEF Push

LEMMA PopInv ==
  ASSUME LInv, NEW t \in Threads, Pop(t), scheme' = scheme
  PROVE  LInv'
<1> USE ConstantFacts
<1>1. /\ Up /\ MayCall(t) /\ live[t] > floor[t]
      /\ UNCHANGED <<pc, holder, entry, stack, gs, base, floor, left, late>>
  BY DEF Pop
<1>2. live[t] \in 0 .. MaxDepth /\ floor[t] \in 0 .. MaxDepth /\ (TornDown(t) => t \in late)
  BY <1>1 DEF LInv, Phase, TypeOK
<1>3. CASE ~Whole(Target(t)) /\ End("segv", t) /\ UNCHANGED live
  <2>1. TypeOK'
    BY <1>1, <1>3 DEF LInv, TypeOK, End
  <2>2. Calls(t)
    BY <1>1, <1>2, <1>3 DEF Calls
  <2> QED
    BY <1>1, <1>2, <1>3, <2>1, <2>2, SegvInv DEF End
<1>4. CASE live' = [live EXCEPT ![t] = @ - 1] /\ process' = process
  <2>1. live'[t] = live[t] - 1 /\ \A u \in Threads \ {t} : live'[u] = live[u]
    BY <1>4 DEF LInv, TypeOK
  <2>2. TypeOK'
    <3>1. live' \in [Threads -> 0 .. MaxDepth]
      BY <1>1, <1>2, <1>4 DEF LInv, TypeOK
    <3> QED
      BY <1>1, <1>4, <3>1 DEF LInv, TypeOK
  <2>3. Calls(t)
    BY <1>1, <1>2, <2>1 DEF Calls
  <2>4. Intact'
    <3> SUFFICES ASSUME late = {}
                 PROVE  /\ ~Misplaced => Confined'
                        /\ \A u \in Threads : ~Strays(u) => Mine(u)'
                        /\ \A u \in Threads : ~Hit(u) => Clean(u)'
      BY <1>1, <1>4, <2>3, CallKeeps DEF Intact, Up
    <3>1. ~Misplaced => Confined'
      BY <1>1 DEF LInv, Intact, Confined
    <3>2. ASSUME NEW u \in Threads, ~Strays(u) PROVE Mine(u)'
      <4>1. 1 .. live'[u] \subseteq 1 .. live[u]
        BY <1>2, <2>1
      <4>2. Mine(u) /\ (Uses(u)' <=> Uses(u))
        BY <1>1, <2>3, <3>2, CallKeeps DEF LInv, Intact
      <4> QED
        BY <1>1, <4>1, <4>2 DEF Mine
    <3>3. \A u \in Threads : ~Hit(u) => Clean(u)'
      BY <1>1, <2>3, CallKeeps DEF LInv, Intact, Clean
    <3> QED
      BY <3>1, <3>2, <3>3
  <2>5. Faults'
    BY <1>1, <1>4 DEF Up, Faults
  <2> QED
    BY <1>1, <2>2, <2>3, <2>4, <2>5, CallKeeps DEF LInv
<1>5. CASE Mapped(Target(t)) /\ FALSE \in Equal(t) /\ End("trap", t) /\ UNCHANGED live
  <2>1. process' = [how |-> "trap", thread |-> t]
    BY <1>5 DEF End
  <2>2. late = {} => Strays(t) \/ InTheWay(t)
    BY <1>1, <1>5, UnequalFacts
  <2>3. TypeOK'
    BY <1>1, <1>5, <2>1 DEF LInv, TypeOK
  <2>4. Calls(t)
    BY <1>1, <1>2, <1>5 DEF Calls
  <2>5. Faults'
    BY <2>1 DEF Faults
  <2> QED
    BY <1>1, <1>5, <2>1, <2>2, <2>3, <2>4, <2>5, StopInv
<1>6. Equal(t) \subseteq BOOLEAN
  BY DEF Equal
<1> QED
  BY <1>3, <1>4, <1>5, <1>6 DEF Pop
-----------------------------------------------------------------------------
(* The theorems. *)

LEMMA InvNext == LInv /\ [Next]_vars => LInv'
<1> SUFFICES ASSUME LInv, [Next]_vars PROVE LInv'
  OBVIOUS
<1>1. CASE UNCHANGED vars
  <2> USE <1>1 DEF vars
  <2>1. TypeOK' /\ Alone' /\ Faults'
    BY DEF LInv, TypeOK, Alone, HasShadow, Cancelled, Faults, Strays, Misplaced
  <2>2. Intact'
    BY DEF LInv, Intact, Confined, Mine, Uses, HasShadow, Cancelled, Strays, Misplaced, Hit, InTheWay, Clean, Alive
  <2>3. \A t \in Threads : Phase(t)' /\ Holds(t)'
    BY DEF LInv, Phase, Holds, HasClave, HasShadow, Cancelled, TornDown
  <2> QED
    BY <2>1, <2>2, <2>3 DEF LInv
<1>2. CASE Next
  <2>1. scheme' = scheme
    BY <1>2 DEF Next
  <2>2. ASSUME NEW p \in Threads, NEW t \in Threads, Create(p, t) PROVE LInv'
    BY <2>1, <2>2, CreateInv
  <2>3. ASSUME NEW t \in Threads, MapClave(t) \/ MapShadow(t) \/ UnmapShadow(t) \/ UnmapClave(t)
        PROVE  LInv'
    BY <2>1, <2>3, MapClaveInv, MapShadowInv, UnmapShadowInv, UnmapClaveInv
  <2>4. ASSUME NEW t \in Threads, Push(t) \/ Pop(t) PROVE LInv'
    BY <2>1, <2>4, PushInv, PopInv
  <2>5. ASSUME NEW t \in Threads, Return(t) \/ PthreadExit(t) \/ Cancel(t) PROVE LInv'
    BY <2>1, <2>5, LeaveInv
  <2>6. ASSUME NEW t \in Threads, Die(t) \/ Exit(t) PROVE LInv'
    BY <2>1, <2>6, DieInv, ExitInv
  <2>7. ASSUME OtherMap \/ OtherUnmap PROVE LInv'
    BY <2>1, <2>7, OtherMapInv
  <2> QED
    BY <1>2, <2>2, <2>3, <2>4, <2>5, <2>6, <2>7 DEF Next
<1> QED
  BY <1>1, <1>2

\* The invariant holds of every process, under every scheme, however many
\* threads it starts, wherever mmap() places their mappings.
THEOREM Invariance == Spec => []LInv
<1>1. Init => LInv
  BY InvInit
<1>2. LInv /\ [Next]_vars => LInv'
  BY InvNext
<1> QED
  BY <1>1, <1>2, PTL DEF Spec

\* What the invariant says of the entries the next epilogs will read.
LEMMA MineKept ==
  ASSUME LInv, late = {}, NEW t \in Threads, ~Strays(t)
  PROVE  Kept(t)
<1> SUFFICES ASSUME pc[t] = "run", base[t] # None
             PROVE  \A i \in 1 .. live[t] : entry[Target(t)][i] = t
  BY DEF Kept
<1>1. HasShadow(t) /\ Uses(t)
  BY DEF HasShadow, Uses
<1>2. Target(t) = base[t]
  BY <1>1, TargetFacts
<1>3. Mine(t)
  BY DEF LInv, Intact
<1> QED
  BY <1>1, <1>2, <1>3 DEF Mine

\* What it says of the return addresses they will read.
LEMMA CleanReturns ==
  ASSUME LInv, late = {}, NEW t \in Threads, ~InTheWay(t)
  PROVE  Returns(t)
<1> SUFFICES ASSUME pc[t] = "run", NEW i \in 1 .. live[t] PROVE entry[stack[t]][i] = None
  BY DEF Returns, Address
<1>1. Alive(t) /\ holder[stack[t]] = <<t, "stack">>
  BY DEF LInv, Holds, Alive
<1>2. ~Hit(t)
  BY <1>1 DEF Hit, InTheWay
<1>3. i \in 1 .. MaxDepth
  BY ConstantFacts DEF LInv, TypeOK
<1> QED
  BY <1>1, <1>2, <1>3 DEF LInv, Intact, Clean

\* Threads do not disturb each other's shadow stacks (pthread_create.c): under
\* REG and MEM an entry goes astray, is overwritten or stops the program, or a
\* return address is overwritten, only after some thread ran instrumented code
\* past its teardown.
THEOREM LateBlameHolds == Spec => []LateBlame
<1>1. LInv => LateBlame
  <2> SUFFICES ASSUME LInv, scheme # "CON", late = {}
               PROVE  /\ process.how \notin {"trap", "astray"} /\ Confined
                      /\ \A t \in Threads : Kept(t) /\ Returns(t)
    BY DEF LateBlame
  <2>1. ~Misplaced /\ \A t \in Threads : ~Strays(t) /\ ~InTheWay(t)
    BY DEF Misplaced, Strays, InTheWay
  <2>2. process.how \notin {"trap", "astray"} /\ Confined
    BY <2>1 DEF LInv, Intact, Strays, InTheWay
  <2> QED
    BY <2>1, <2>2, MineKept, CleanReturns
<1> QED
  BY <1>1, Invariance, PTL

\* Under REG and MEM the process faults only where FaultBlame says.
THEOREM FaultBlameHolds == Spec => []FaultBlame
<1>1. LInv => FaultBlame
  BY SchemeFacts DEF LInv, FaultBlame, Faults, Strays, Misplaced
<1> QED
  BY <1>1, Invariance, PTL

\* Under CON nothing is lost, altered or stopped as long as the main thread's
\* shadow stack is at the offset.  shadow_stack.c does not look where mmap() put
\* it: when it is elsewhere, the main thread can lose its entries, write elsewhere
\* and be stopped, and so can the thread whose stack is at the offset, whose
\* return addresses the main thread may overwrite; no other thread notices.
THEOREM MirrorBlameHolds == Spec => []MirrorBlame
<1>1. LInv => MirrorBlame
  <2> SUFFICES ASSUME LInv, scheme = "CON" PROVE MirrorBlame
    BY DEF MirrorBlame
  <2>1. late = {}
    BY DEF LInv, Intact
  <2>2. /\ ~Confined => Misplaced
        /\ process.how = "trap" => (process.thread = MainThread /\ Misplaced) \/ InTheWay(process.thread)
        /\ process.how = "astray" => InTheWay(process.thread)
    BY <2>1 DEF LInv, Intact, Strays
  <2>3. ASSUME NEW t \in Threads, t = MainThread => ~Misplaced PROVE Kept(t)
    BY <2>1, <2>3, MineKept DEF Strays
  <2>5. \A t \in Threads : ~InTheWay(t) => Returns(t)
    BY <2>1, CleanReturns
  <2>4. process.how = "segv" =>
          LET t == process.thread
          IN base[t] = None \/ pc[t] = "unmap" \/ (t = MainThread /\ Misplaced)
    <3> SUFFICES ASSUME process.how = "segv", NEW t \in Threads, process.thread = t,
                        base[t] # None, ~Strays(t)
                 PROVE  pc[t] = "unmap"
      BY DEF LInv, Faults, Strays
    <3>1. (pc[t] = "dead" /\ left[t] # "cancel") \/ pc[t] = "unmap"
      BY <2>1 DEF LInv, Faults
    <3> QED
      BY <3>1 DEF LInv, Phase
  <2> QED
    BY <2>2, <2>3, <2>4, <2>5 DEF MirrorBlame
<1> QED
  BY <1>1, Invariance, PTL
-----------------------------------------------------------------------------
(* What a thread gives back: the part of Reclaimed that is a safety property. *)

\* A thread has at most one shadow stack and one clave, when it may have them.
Owned(t) ==
  \A r \in Regions :
    /\ holder[r] = <<t, "clave">> => HasClave(t) /\ gs[t] = r
    /\ holder[r] = <<t, "shadow">> => HasShadow(t) /\ base[t] = r

OInv == LInv /\ \A t \in Threads : Owned(t)

\* What a step of thread t does to the mappings, seen from another thread.
Rewrites(t) ==
  \/ holder' = holder
  \/ \E r \in Regions, h \in {Free, Other} \cup ({t} \X Kinds) : holder' = [holder EXCEPT ![r] = h]

LEMMA OthersOwn ==
  ASSUME TypeOK, NEW t \in Threads, NEW u \in Threads, u # t, Owned(u), Same(u), Rewrites(t)
  PROVE  Owned(u)'
<1>1. (HasShadow(u)' <=> HasShadow(u)) /\ (HasClave(u)' <=> HasClave(u))
  BY DEF Same, HasShadow, HasClave, Cancelled
<1>2. ASSUME NEW q \in Regions, NEW k \in Kinds, holder'[q] = <<u, k>> PROVE holder[q] = <<u, k>>
  <2>1. ASSUME NEW r \in Regions, NEW h \in {Free, Other} \cup ({t} \X Kinds),
               holder' = [holder EXCEPT ![r] = h]
        PROVE  holder[q] = <<u, k>>
    <3>1. h # <<u, k>>
      BY ConstantFacts
    <3> QED
      BY <1>2, <2>1, <3>1 DEF TypeOK
  <2> QED
    BY <1>2, <2>1 DEF Rewrites
<1>3. "clave" \in Kinds /\ "shadow" \in Kinds
  BY DEF Kinds
<1> QED
  BY <1>1, <1>2, <1>3 DEF Owned, Same

\* What is left to show of a step of thread t.
LEMMA OwnStep ==
  ASSUME OInv, NEW t \in Threads, Rewrites(t), \A u \in Threads \ {t} : Same(u), Owned(t)'
  PROVE  \A u \in Threads : Owned(u)'
BY OthersOwn DEF OInv, LInv

LEMMA OwnedInit == Init => \A t \in Threads : Owned(t)
<1> SUFFICES ASSUME Init, NEW t \in Threads, NEW r \in Regions
             PROVE  holder[r] # <<t, "clave">> /\ holder[r] # <<t, "shadow">>
  BY DEF Owned
<1>1. holder[r] \in {<<MainThread, "stack">>, Free, Other}
  BY DEF Init
<1>2. /\ <<t, "clave">> # Free /\ <<t, "clave">> # Other
      /\ <<t, "shadow">> # Free /\ <<t, "shadow">> # Other
  BY ConstantFacts DEF Kinds
<1> QED
  BY <1>1, <1>2

\* Steps that map: the new region is the only one of its kind.
LEMMA OwnedMap ==
  ASSUME OInv, NEW t \in Threads, NEW p \in Threads, Create(p, t) \/ MapClave(t) \/ MapShadow(t)
  PROVE  \A u \in Threads : Owned(u)'
<1> USE ConstantFacts
<1>0. TypeOK /\ Owned(t) /\ Phase(t)
  BY DEF OInv, LInv
<1>1. CASE Create(p, t)
  <2>1. PICK s \in FreeRegions : MapFor(s, <<t, "stack">>) /\ stack' = [stack EXCEPT ![t] = s]
    BY <1>1 DEF Create
  <2>2. /\ pc[t] = "none" /\ pc' = [pc EXCEPT ![t] = "clave"]
        /\ UNCHANGED <<gs, base, live, floor, left>>
    BY <1>1 DEF Create
  <2>3. s \in Regions /\ holder' = [holder EXCEPT ![s] = <<t, "stack">>] /\ "stack" \in Kinds
    BY <2>1 DEF FreeRegions, MapFor, Kinds
  <2>4. Rewrites(t) /\ \A u \in Threads \ {t} : Same(u)
    BY <1>0, <2>1, <2>2, <2>3 DEF Rewrites, Same, TypeOK
  <2>5. ~HasClave(t) /\ ~HasShadow(t)
    BY <2>2 DEF HasClave, HasShadow, Cancelled
  <2>6. Owned(t)'
    BY <1>0, <2>3, <2>5 DEF Owned, TypeOK
  <2> QED
    BY <2>4, <2>6, OwnStep
<1>2. CASE MapClave(t)
  <2>1. pc[t] = "clave" /\ UNCHANGED <<stack, live, floor, left>>
    BY <1>2 DEF MapClave
  <2>2. ~HasClave(t) /\ ~HasShadow(t)
    BY <2>1 DEF HasClave, HasShadow, Cancelled
  <2>3. CASE holder' = holder /\ UNCHANGED <<gs, base>> /\ pc' \in {pc, [pc EXCEPT ![t] = "shadow"]}
    BY <1>0, <2>1, <2>2, <2>3, OwnStep DEF Rewrites, Same, TypeOK, Owned
  <2>4. ASSUME NEW r \in FreeRegions, MapFor(r, <<t, "clave">>), gs' = [gs EXCEPT ![t] = r],
               pc' = [pc EXCEPT ![t] = "shadow"], base' = base
        PROVE  \A u \in Threads : Owned(u)'
    <3>1. r \in Regions /\ holder' = [holder EXCEPT ![r] = <<t, "clave">>] /\ "clave" \in Kinds
      BY <2>4 DEF FreeRegions, MapFor, Kinds
    <3>2. Rewrites(t) /\ \A u \in Threads \ {t} : Same(u)
      BY <1>0, <2>1, <2>4, <3>1 DEF Rewrites, Same, TypeOK
    <3>3. HasClave(t)' /\ gs'[t] = r
      BY <1>0, <2>4 DEF HasClave, TypeOK
    <3>4. Owned(t)'
      BY <1>0, <2>2, <3>1, <3>3 DEF Owned, TypeOK
    <3> QED
      BY <3>2, <3>4, OwnStep
  <2> QED
    BY <1>2, <2>3, <2>4 DEF MapClave
<1>3. CASE MapShadow(t)
  <2>1. pc[t] = "shadow" /\ UNCHANGED <<stack, gs, live, floor, left>>
    BY <1>3 DEF MapShadow
  <2>2. HasClave(t) /\ ~HasShadow(t)
    BY <2>1 DEF HasClave, HasShadow, Cancelled
  <2>3. CASE holder' = holder /\ base' = base /\ pc' \in {pc, [pc EXCEPT ![t] = "run"]}
    <3>1. HasClave(t)' /\ \A u \in Threads \ {t} : Same(u)
      BY <1>0, <2>1, <2>3 DEF HasClave, HasShadow, Same, TypeOK
    <3>2. Owned(t)'
      BY <1>0, <2>1, <2>2, <2>3, <3>1 DEF Owned
    <3> QED
      BY <2>3, <3>1, <3>2, OwnStep DEF Rewrites
  <2>4. ASSUME NEW r \in MmapAt(Hint(t)), MapFor(r, <<t, "shadow">>),
               base' = [base EXCEPT ![t] = r], pc' = [pc EXCEPT ![t] = "run"]
        PROVE  \A u \in Threads : Owned(u)'
    <3>1. r \in Regions /\ holder' = [holder EXCEPT ![r] = <<t, "shadow">>] /\ "shadow" \in Kinds
      BY <2>4 DEF MmapAt, FreeRegions, MapFor, Kinds
    <3>2. Rewrites(t) /\ \A u \in Threads \ {t} : Same(u)
      BY <1>0, <2>1, <2>4, <3>1 DEF Rewrites, Same, TypeOK
    <3>3. HasShadow(t)' /\ HasClave(t)' /\ base'[t] = r
      BY <1>0, <2>4 DEF HasClave, HasShadow, TypeOK
    <3>4. Owned(t)'
      BY <1>0, <2>1, <2>2, <3>1, <3>3 DEF Owned, TypeOK
    <3> QED
      BY <3>2, <3>4, OwnStep
  <2> QED
    BY <1>3, <2>3, <2>4 DEF MapShadow
<1> QED
  BY <1>1, <1>2, <1>3

\* Steps that unmap: what the thread may no longer have is gone.
LEMMA OwnedUnmap ==
  ASSUME OInv, NEW t \in Threads, UnmapShadow(t) \/ UnmapClave(t) \/ Die(t)
  PROVE  \A u \in Threads : Owned(u)'
<1> USE ConstantFacts
<1>0. TypeOK /\ Owned(t) /\ Phase(t) /\ Holds(t)
  BY DEF OInv, LInv
<1>1. CASE UnmapShadow(t)
  <2>1. pc[t] = "unmap" /\ UNCHANGED <<stack, gs, base, live, floor, left>>
    BY <1>1 DEF UnmapShadow
  <2>2. CASE pc' = pc /\ holder' = holder
    BY <1>0, <2>1, <2>2, OwnStep DEF Rewrites, Same, Owned, HasClave, HasShadow, Cancelled
  <2>3. CASE /\ pc' = [pc EXCEPT ![t] = "unclave"]
             /\ IF base[t] = None THEN holder' = holder ELSE holder' = [holder EXCEPT ![base[t]] = Free]
    <3>1. HasClave(t) /\ HasClave(t)'
      BY <1>0, <2>1, <2>3 DEF HasClave, HasShadow, TypeOK
    <3>2. Rewrites(t) /\ \A u \in Threads \ {t} : Same(u)
      BY <1>0, <2>1, <2>3 DEF Rewrites, Same, TypeOK
    <3>3. \A r \in Regions : holder'[r] # <<t, "shadow">> /\ (holder'[r] = <<t, "clave">> => gs[t] = r)
      BY <1>0, <2>3 DEF Owned, TypeOK, Kinds
    <3>4. Owned(t)'
      BY <2>1, <3>1, <3>3 DEF Owned
    <3> QED
      BY <3>2, <3>4, OwnStep
  <2> QED
    BY <1>1, <2>2, <2>3 DEF UnmapShadow, Unmap
<1>2. CASE UnmapClave(t)
  <2>1. /\ pc[t] = "unclave" /\ pc' = [pc EXCEPT ![t] = "late"]
        /\ holder' = [holder EXCEPT ![gs[t]] = Free]
        /\ UNCHANGED <<stack, gs, base, live, floor, left>>
    BY <1>2 DEF UnmapClave, Unmap
  <2>2. ~HasShadow(t) /\ HasClave(t)
    BY <2>1 DEF HasShadow, HasClave, Cancelled
  <2>3. gs[t] \in Regions
    BY <1>0, <2>1, <2>2, SchemeFacts DEF Phase, TypeOK
  <2>4. Rewrites(t) /\ \A u \in Threads \ {t} : Same(u)
    BY <1>0, <2>1, <2>3 DEF Rewrites, Same, TypeOK
  <2>5. \A r \in Regions : holder'[r] \notin {<<t, "shadow">>, <<t, "clave">>}
    BY <1>0, <2>1, <2>2, <2>3 DEF Owned, TypeOK, Kinds
  <2>6. Owned(t)'
    BY <2>5 DEF Owned
  <2> QED
    BY <2>4, <2>6, OwnStep
<1>3. CASE Die(t)
  <2>1. /\ pc[t] = "late" /\ pc' = [pc EXCEPT ![t] = "dead"]
        /\ UNCHANGED <<stack, gs, base, live, floor, left>>
        /\ (holder' = holder \/ holder' = [holder EXCEPT ![stack[t]] = Free])
    BY <1>3 DEF Die, Unmap
  <2>2. (HasShadow(t)' <=> HasShadow(t)) /\ (HasClave(t)' <=> HasClave(t))
    BY <1>0, <2>1 DEF HasShadow, HasClave, Cancelled, TypeOK
  <2>3. stack[t] \in Regions
    BY <1>0, <2>1 DEF Holds, TypeOK
  <2>4. Rewrites(t) /\ \A u \in Threads \ {t} : Same(u)
    BY <1>0, <2>1, <2>3 DEF Rewrites, Same, TypeOK
  <2>5. \A r \in Regions : holder'[r] \in {holder[r], Free}
    BY <1>0, <2>1, <2>3 DEF TypeOK
  <2>6. Owned(t)'
    BY <1>0, <2>1, <2>2, <2>5 DEF Owned, Kinds
  <2> QED
    BY <2>4, <2>6, OwnStep
<1> QED
  BY <1>1, <1>2, <1>3

\* Steps that leave the mappings alone, but for one of the program's own.
LEMMA OwnedRest ==
  ASSUME OInv, NEW t \in Threads,
         Push(t) \/ Pop(t) \/ Return(t) \/ PthreadExit(t) \/ Cancel(t) \/ Exit(t) \/ OtherMap \/ OtherUnmap
  PROVE  \A u \in Threads : Owned(u)'
<1>0. TypeOK /\ \A u \in Threads : Owned(u)
  BY DEF OInv, LInv
<1>1. UNCHANGED <<gs, base>> /\ \A u \in Threads : (HasShadow(u)' <=> HasShadow(u)) /\ (HasClave(u)' <=> HasClave(u))
  <2>1. CASE Push(t) \/ Pop(t) \/ Exit(t) \/ OtherMap \/ OtherUnmap
    BY <2>1 DEF Push, Pop, Exit, OtherMap, OtherUnmap, HasShadow, HasClave, Cancelled
  <2>2. CASE Return(t) \/ PthreadExit(t) \/ Cancel(t)
    <3>1. PICK p \in {"unmap", "late"}, how \in {"return", "exit", "cancel"} :
             /\ pc' = [pc EXCEPT ![t] = p] /\ left' = [left EXCEPT ![t] = how]
             /\ pc[t] = "run" /\ (p = "late" => how = "cancel")
      BY <2>2 DEF Return, PthreadExit, Cancel, Over
    <3>2. UNCHANGED <<gs, base>>
      BY <2>2 DEF Return, PthreadExit, Cancel
    <3> QED
      BY <1>0, <3>1, <3>2 DEF HasShadow, HasClave, Cancelled, TypeOK
  <2> QED
    BY <2>1, <2>2
<1>2. \A r \in Regions : holder'[r] \in {holder[r], Other, Free}
  BY <1>0 DEF Push, Pop, Return, PthreadExit, Cancel, Exit, OtherMap, OtherUnmap, Unmap, MapFor, TypeOK, FreeRegions
<1> QED
  BY <1>0, <1>1, <1>2, ConstantFacts DEF Owned, Kinds

LEMMA OwnedNext == OInv /\ [Next]_vars => \A t \in Threads : Owned(t)'
<1> SUFFICES ASSUME OInv, [Next]_vars PROVE \A t \in Threads : Owned(t)'
  OBVIOUS
<1>1. CASE UNCHANGED vars
  BY <1>1 DEF vars, OInv, Owned, HasShadow, HasClave, Cancelled
<1>2. CASE Next
  <2>1. CASE \E p, t \in Threads : Create(p, t)
    BY <2>1, OwnedMap
  <2>2. ASSUME NEW t \in Threads, MapClave(t) \/ MapShadow(t) PROVE \A u \in Threads : Owned(u)'
    BY <2>2, OwnedMap
  <2>3. ASSUME NEW t \in Threads, UnmapShadow(t) \/ UnmapClave(t) \/ Die(t)
        PROVE  \A u \in Threads : Owned(u)'
    BY <2>3, OwnedUnmap
  <2>4. ASSUME NEW t \in Threads, Push(t) \/ Pop(t) \/ Return(t) \/ PthreadExit(t) \/ Cancel(t) \/ Exit(t)
        PROVE  \A u \in Threads : Owned(u)'
    BY <2>4, OwnedRest
  <2>5. CASE OtherMap \/ OtherUnmap
    BY <2>5, OwnedRest, ConstantFacts
  <2> QED
    BY <1>2, <2>1, <2>2, <2>3, <2>4, <2>5 DEF Next
<1> QED
  BY <1>1, <1>2

\* A thread past the two munmap()s of pthread_exit() or thread_init() has neither
\* a shadow stack nor a clave any more.
GivenBack ==
  \A t \in Threads :
    pc[t] \in {"late", "dead"} /\ left[t] \in {"return", "exit"} =>
      \A r \in Regions : holder[r] \notin {t} \X {"clave", "shadow"}

\* The two munmap()s of pthread_create.c leave nothing behind: what Reclaimed says
\* a thread that leaves will come to, it has come to once it is past them, under
\* every scheme, whatever the other threads map and unmap meanwhile.
THEOREM GivenBackHolds == Spec => []GivenBack
<1>1. Init => OInv
  BY InvInit, OwnedInit DEF OInv
<1>2. OInv /\ [Next]_vars => OInv'
  BY InvNext, OwnedNext DEF OInv
<1>3. OInv => GivenBack
  <2> SUFFICES ASSUME OInv, NEW t \in Threads, pc[t] \in {"late", "dead"}, left[t] \in {"return", "exit"},
                      NEW r \in Regions
               PROVE  holder[r] \notin {t} \X {"clave", "shadow"}
    BY DEF GivenBack
  <2>1. ~HasClave(t) /\ ~HasShadow(t)
    BY DEF HasClave, HasShadow, Cancelled
  <2>2. holder[r] # <<t, "clave">> /\ holder[r] # <<t, "shadow">>
    BY <2>1 DEF OInv, Owned
  <2> QED
    BY <2>2
<1> QED
  BY <1>1, <1>2, <1>3, PTL DEF Spec
-----------------------------------------------------------------------------
(* What a step may never do to another thread. *)

\* Shadow stack and clave of thread u are unmapped only by u when it leaves, and
\* the shadow stack and the return addresses in its stack are written only by a
\* call or a return of u.
OnlyOwner(u, r) ==
  /\ \A k \in {"clave", "shadow"} :
       holder[r] = <<u, k>> /\ holder'[r] # holder[r] => pc[u] \in {"unmap", "unclave"} /\ pc'[u] # pc[u]
  /\ holder[r] \in {u} \X {"stack", "shadow"} /\ entry'[r] # entry[r] =>
       pc'[u] # pc[u] \/ live'[u] # live[u] \/ late' # {} \/ Misplaced

LEMMA OwnerMap ==
  ASSUME LInv, NEW q \in FreeRegions, NEW h, MapFor(q, h)
  PROVE  \A u \in Threads, r \in Regions : OnlyOwner(u, r)
<1> SUFFICES ASSUME NEW u \in Threads, NEW r \in Regions, NEW k \in Kinds,
                    holder[r] = <<u, k>>
             PROVE  holder'[r] = holder[r] /\ entry'[r] = entry[r]
  BY DEF OnlyOwner, Kinds
<1>1. holder[q] = Free /\ <<u, k>> # Free
  BY ConstantFacts DEF FreeRegions, Kinds
<1> QED
  BY <1>1 DEF LInv, TypeOK, MapFor

LEMMA OwnerUnmap ==
  ASSUME LInv, NEW t \in Threads, UnmapShadow(t) \/ UnmapClave(t) \/ Die(t)
  PROVE  \A u \in Threads, r \in Regions : OnlyOwner(u, r)
<1>0. TypeOK /\ Phase(t) /\ Holds(t)
  BY DEF LInv
<1>1. CASE UNCHANGED <<holder, entry>>
  BY <1>1 DEF OnlyOwner
<1>2. ASSUME NEW q \in Regions, NEW k \in Kinds, holder[q] = <<t, k>>, Unmap(q), pc'[t] # pc[t],
             k # "stack" => pc[t] \in {"unmap", "unclave"}
      PROVE  \A u \in Threads, r \in Regions : OnlyOwner(u, r)
  BY <1>0, <1>2 DEF OnlyOwner, Unmap, TypeOK
<1>3. CASE UnmapShadow(t) /\ Unmap(base[t]) /\ base[t] # None /\ pc' = [pc EXCEPT ![t] = "unclave"]
  <2>1. pc[t] = "unmap" /\ pc'[t] = "unclave"
    BY <1>0, <1>3 DEF UnmapShadow, TypeOK
  <2>2. base[t] \in Regions /\ holder[base[t]] = <<t, "shadow">>
    BY <1>0, <1>3, <2>1 DEF Holds, HasShadow, TypeOK
  <2> QED
    BY <1>2, <1>3, <2>1, <2>2 DEF Kinds
<1>4. CASE UnmapClave(t)
  <2>1. pc[t] = "unclave" /\ pc'[t] = "late" /\ Unmap(gs[t])
    BY <1>0, <1>4 DEF UnmapClave, TypeOK
  <2>2. gs[t] \in Regions /\ holder[gs[t]] = <<t, "clave">>
    BY <1>0, <2>1, SchemeFacts DEF Phase, Holds, HasClave, TypeOK
  <2> QED
    BY <1>2, <2>1, <2>2 DEF Kinds
<1>5. CASE Die(t) /\ Unmap(stack[t])
  <2>1. pc[t] = "late" /\ pc'[t] = "dead"
    BY <1>0, <1>5 DEF Die, TypeOK
  <2>2. stack[t] \in Regions /\ holder[stack[t]] = <<t, "stack">>
    BY <1>0, <2>1 DEF Holds, TypeOK
  <2> QED
    BY <1>2, <1>5, <2>1, <2>2 DEF Kinds
<1> QED
  BY <1>1, <1>3, <1>4, <1>5 DEF UnmapShadow, Die

LEMMA OwnerPush ==
  ASSUME LInv, NEW t \in Threads, Push(t)
  PROVE  \A u \in Threads, r \in Regions : OnlyOwner(u, r)
<1> SUFFICES ASSUME NEW u \in Threads, NEW r \in Regions, holder[r] \in {u} \X {"stack", "shadow"},
                    entry'[r] # entry[r], late' = {}, ~Misplaced
             PROVE  live'[u] # live[u]
  BY DEF OnlyOwner, Push
<1>1. /\ MayCall(t) /\ Mapped(Target(t)) /\ ~TornDown(t) /\ live[t] < MaxDepth
      /\ live' = [live EXCEPT ![t] = @ + 1]
      /\ \E i \in IF Victims(t) = {} THEN {live[t] + 1} ELSE 0 .. MaxDepth :
           entry' = Stored(t, i)
  BY DEF Push
<1>2. HasShadow(t) /\ base[t] # None /\ ~Strays(t)
  BY <1>1, CallerFacts DEF Strays
<1>3. Target(t) = base[t] /\ base[t] \in Regions /\ holder[base[t]] = <<t, "shadow">>
  BY <1>2, TargetFacts
<1>4. stack[t] \in Regions /\ holder[stack[t]] = <<t, "stack">>
  BY <1>1, CallerFacts
<1>5. r \in {base[t], stack[t]}
  <2> SUFFICES ASSUME r # base[t], r # stack[t] PROVE FALSE
    OBVIOUS
  <2>1. PICK i \in IF Victims(t) = {} THEN {live[t] + 1} ELSE 0 .. MaxDepth : entry' = Stored(t, i)
    BY <1>1
  <2>2. entry'[r] = [j \in 1 .. MaxDepth |-> entry[r][j]]
    BY <1>3, <2>1 DEF Stored
  <2>3. entry[r] = [j \in 1 .. MaxDepth |-> entry[r][j]]
    BY DEF LInv, TypeOK
  <2> QED
    BY <2>2, <2>3
<1>6. u = t
  BY <1>3, <1>4, <1>5
<1>7. live[t] \in Int
  BY DEF LInv, TypeOK
<1> QED
  BY <1>1, <1>6, <1>7 DEF LInv, TypeOK

\* The interposed functions of pthread_create.c unmap the caller's own shadow
\* stack and clave and never another thread's, and prologs write into no other
\* thread's shadow stack or stack, but for those that LateBlame and MirrorBlame name.
THEOREM OnlyOwnerHolds == Spec => [][\A u \in Threads, r \in Regions : OnlyOwner(u, r)]_vars
<1>1. ASSUME LInv, Next PROVE \A u \in Threads, r \in Regions : OnlyOwner(u, r)
  <2>1. CASE UNCHANGED <<holder, entry>>
    BY <2>1 DEF OnlyOwner
  <2>2. CASE \E q \in FreeRegions, h \in Holders : MapFor(q, h)
    BY <1>1, <2>2, OwnerMap
  <2>3. ASSUME NEW p \in Threads, NEW t \in Threads, Create(p, t) PROVE \E q \in FreeRegions, h \in Holders : MapFor(q, h)
    BY <2>3, ConstantFacts DEF Create, Kinds
  <2>4. ASSUME NEW t \in Threads, MapClave(t) \/ MapShadow(t)
        PROVE  UNCHANGED <<holder, entry>> \/ \E q \in FreeRegions, h \in Holders : MapFor(q, h)
    <3>1. MmapAt(Hint(t)) \subseteq FreeRegions
      BY DEF MmapAt
    <3>2. <<t, "clave">> \in Holders /\ <<t, "shadow">> \in Holders
      BY ConstantFacts DEF Kinds
    <3> QED
      BY <2>4, <3>1, <3>2 DEF MapClave, MapShadow
  <2>5. ASSUME NEW t \in Threads, Pop(t) \/ Return(t) \/ PthreadExit(t) \/ Cancel(t) \/ Exit(t)
        PROVE  UNCHANGED <<holder, entry>>
    BY <2>5 DEF Pop, Return, PthreadExit, Cancel, Exit
  <2>6. OtherMap => \E q \in FreeRegions, h \in Holders : MapFor(q, h)
    BY ConstantFacts DEF OtherMap
  <2>9. ASSUME OtherUnmap PROVE \A u \in Threads, r \in Regions : OnlyOwner(u, r)
    <3> SUFFICES ASSUME NEW u \in Threads, NEW r \in Regions, NEW k \in Kinds, holder[r] = <<u, k>>
                 PROVE  holder'[r] = holder[r] /\ entry'[r] = entry[r]
      BY DEF OnlyOwner, Kinds
    <3>1. <<u, k>> # Other
      BY ConstantFacts
    <3> QED
      BY <1>1, <2>9, <3>1 DEF OtherUnmap, Unmap, LInv, TypeOK
  <2>7. ASSUME NEW t \in Threads, Push(t) PROVE \A u \in Threads, r \in Regions : OnlyOwner(u, r)
    BY <1>1, <2>7, OwnerPush
  <2>8. ASSUME NEW t \in Threads, UnmapShadow(t) \/ UnmapClave(t) \/ Die(t)
        PROVE  \A u \in Threads, r \in Regions : OnlyOwner(u, r)
    BY <1>1, <2>8, OwnerUnmap
  <2> QED
    BY <1>1, <2>1, <2>2, <2>3, <2>4, <2>5, <2>6, <2>7, <2>8, <2>9 DEF Next
<1>2. LInv /\ [Next]_vars => [\A u \in Threads, r \in Regions : OnlyOwner(u, r)]_vars
  BY <1>1
<1> QED
  BY <1>2, Invariance, PTL DEF Spec
=============================================================================
