-------------------------- MODULE ThreadLifecycle --------------------------
(***************************************************************************)
(* The runtime over the life of a process: the constructor init_all() for  *)
(* the main thread, the interposed pthread_create() and pthread_exit(),    *)
(* and thread_init() around every other thread.  Threads share one address *)
(* space: a region unmapped by one may be the next one's.                  *)
(*                                                                         *)
(* An instrumented call is two steps here, a push and a pop of an entry    *)
(* that carries the name of the thread that wrote it, its copy of the      *)
(* return address.  The return address itself is in the thread's stack,    *)
(* where another thread's entry may take its place.                        *)
(***************************************************************************)
EXTENDS Integers, FiniteSets

CONSTANTS
  Schemes,    \* the schemes to look at, of "REG", "MEM" and "CON"
  Threads, MainThread,
  Regions,    \* addresses at which mmap may place a mapping
  Hardcoded,  \* the region SHADOW_STACK_PTR
  Mirror,     \* the region at SHADOW_STACK_OFFSET from a stack region
  Late,       \* threads with instrumented code that runs after their start
              \* routine: destructors of thread-specific data, cleanup handlers
  FiniCode,   \* the program has an instrumented .fini_array
  Failing,    \* mmap may fail
  MaxDepth,   \* bound: instrumented calls nested in one thread
  None, Free, Other   \* no thread or region; an unmapped region; one with mappings of the
                      \* program's own, which need not fill it

Kinds == {"stack", "clave", "shadow"}
Holders == {Free, Other} \cup (Threads \X Kinds)

ASSUME LifecycleAssumption ==
  /\ Schemes \subseteq {"REG", "MEM", "CON"}
  /\ MainThread \in Threads /\ Late \subseteq Threads
  /\ Hardcoded \in Regions /\ Mirror \in [Regions -> Regions]
  /\ \A r, q \in Regions : Mirror[r] = Mirror[q] => r = q   \* the offset is a constant,
  /\ \A r \in Regions : Mirror[r] # r                       \* and not 0
  /\ FiniCode \in BOOLEAN /\ Failing \in BOOLEAN
  /\ MaxDepth \in Nat
  /\ None \notin Threads \cup Regions
  /\ Free # Other /\ {Free, Other} \cap (Threads \X Kinds) = {}

VARIABLES
  scheme,  \* the scheme the process is built with
  pc,      \* where each thread is in the runtime
  holder,  \* what each region is mapped for
  entry,   \* the entries in each region: the thread that wrote them; in a stack,
           \* None is the return address of the stack's own thread
  stack,   \* each thread's stack
  gs,      \* each thread's gs base, or None
  base,    \* the shadow stack a thread's clave points to, or None
  live,    \* instrumented calls each thread is in
  floor,   \* instrumented calls it was in when it ended; their epilogs never run
  left,    \* history: how a thread ended: "return", "exit", "cancel" or "none"
  late,    \* history: threads that ran instrumented code after their teardown
  process  \* "run", or how the process ended, and in which thread

vars == <<scheme, pc, holder, entry, stack, gs, base, live, floor, left, late, process>>

Empty == [i \in 1 .. MaxDepth |-> None]
Up    == process.how = "run"
End(how, t) == process' = [how |-> how, thread |-> t]

Init ==
  /\ scheme \in Schemes
  /\ pc = [t \in Threads |-> IF t = MainThread THEN "clave" ELSE "none"]
  /\ \E s \in Regions, taken \in SUBSET Regions :
       /\ s \notin taken \cup {Hardcoded}
       /\ holder = [r \in Regions |-> IF r = s THEN <<MainThread, "stack">>
                                      ELSE IF r \in taken THEN Other ELSE Free]
       /\ stack = [t \in Threads |-> IF t = MainThread THEN s ELSE None]
  /\ entry = [r \in Regions |-> Empty]
  /\ gs = [t \in Threads |-> None]
  /\ base = [t \in Threads |-> None]
  /\ live = [t \in Threads |-> 0]
  /\ floor = [t \in Threads |-> 0]
  /\ left = [t \in Threads |-> "none"]
  /\ late = {}
  /\ process = [how |-> "run", thread |-> None]

-----------------------------------------------------------------------------
(* The kernel's part. *)

FreeRegions == {r \in Regions : holder[r] = Free}

\* mmap() without MAP_FIXED: at the hint if it is free, else anywhere.
MmapAt(hint) == IF hint \in FreeRegions THEN {hint} ELSE FreeRegions
MapFor(r, h)  == holder' = [holder EXCEPT ![r] = h] /\ entry' = [entry EXCEPT ![r] = Empty]
\* munmap() drops whatever is there.
Unmap(r)      == /\ holder' = [holder EXCEPT ![r] = Free]
                 /\ entry' = [entry EXCEPT ![r] = Empty]

-----------------------------------------------------------------------------
(* The shadow stack seen by instrumented code. *)

\* Mutant: thread_init() does not load r15, which keeps its creator's value.
TargetCreators(t) == base[MainThread]
\* Where a prolog of the thread stores: r15, the fixed address, or the mirror.
Target(t) == CASE scheme = "REG" -> base[t]
               [] scheme = "MEM" -> Hardcoded
               [] scheme = "CON" -> Mirror[stack[t]]

Mapped(r) == r # None /\ holder[r] # Free
Whole(r)  == Mapped(r) /\ holder[r] # Other

\* The threads on whose stack the thread's prologs store.
Victims(t) == {u \in Threads \ {t} : holder[Target(t)] = <<u, "stack">>}

\* exit(): the functions of .fini_array run in the thread that calls it.
\* Under REG they reload r15 from the clave, or from what is there by now.
FiniEnds(t) ==
  CASE ~FiniCode -> {"exit"}
    [] FiniCode /\ scheme = "REG" /\ ~Mapped(gs[t]) -> {"segv"}
    [] FiniCode /\ scheme = "REG" /\ Mapped(gs[t]) /\ holder[gs[t]] # <<t, "clave">> -> {"segv", "exit"}
    [] OTHER -> {how \in {"exit", "segv"} : IF how = "exit" THEN Mapped(Target(t)) ELSE ~Whole(Target(t))}
CallExit(t) == \E how \in FiniEnds(t) : End(how, t)

-----------------------------------------------------------------------------
(* Starting a thread. *)

\* real_pthread_create() gives the thread a stack and starts it in
\* thread_init(); when it cannot, the wrapper frees the call and says so.
Create(p, t) ==
  /\ Up /\ pc[p] = "run" /\ pc[t] = "none"
  /\ \E s \in FreeRegions :
       /\ MapFor(s, <<t, "stack">>)
       /\ stack' = [stack EXCEPT ![t] = s]
  /\ pc' = [pc EXCEPT ![t] = "clave"]
  /\ UNCHANGED <<gs, base, live, floor, left, late, process>>

\* init_shadow_stack_reg(): the page gs will point to.
MapClave(t) ==
  /\ Up /\ pc[t] = "clave"
  /\ IF scheme # "REG"
       THEN pc' = [pc EXCEPT ![t] = "shadow"] /\ UNCHANGED <<holder, entry, gs, base, process>>
       ELSE \/ \E r \in FreeRegions :
                 /\ MapFor(r, <<t, "clave">>)
                 /\ gs' = [gs EXCEPT ![t] = r]
                 /\ pc' = [pc EXCEPT ![t] = "shadow"]
                 /\ UNCHANGED <<base, process>>
            \/ /\ Failing \/ FreeRegions = {}
               /\ CallExit(t)
               /\ UNCHANGED <<pc, holder, entry, gs, base>>
  /\ UNCHANGED <<stack, live, floor, left, late>>

\* The region a scheme asks for, and whether it insists on getting it: the
\* main thread of CON does not.
Hint(t)   == CASE scheme = "MEM" -> Hardcoded
               [] scheme = "CON" -> Mirror[stack[t]]
               [] OTHER -> None
\* Mutant: threads take any address, too.
InsistsMEM(t) == scheme = "MEM"
Insists(t) == scheme = "MEM" \/ (scheme = "CON" /\ t # MainThread)

\* The shadow stack itself.  Under REG the result of mmap() is not looked at.
MapShadow(t) ==
  /\ Up /\ pc[t] = "shadow"
  /\ \/ \E r \in MmapAt(Hint(t)) :
          IF Insists(t) /\ r # Hint(t)
            THEN CallExit(t) /\ UNCHANGED <<pc, holder, entry, base>>
            ELSE /\ MapFor(r, <<t, "shadow">>)
                 /\ base' = [base EXCEPT ![t] = r]
                 /\ pc' = [pc EXCEPT ![t] = "run"]
                 /\ UNCHANGED process
     \/ /\ Failing \/ FreeRegions = {}
        /\ IF scheme = "REG"
             THEN pc' = [pc EXCEPT ![t] = "run"] /\ UNCHANGED process
             ELSE CallExit(t) /\ UNCHANGED pc
        /\ UNCHANGED <<holder, entry, base>>
  /\ UNCHANGED <<stack, gs, live, floor, left, late>>

-----------------------------------------------------------------------------
(* Instrumented calls. *)

MayCall(t) == pc[t] = "run" \/ (t \in Late /\ pc[t] = "late")

TornDown(t) == pc[t] = "late" /\ left[t] # "cancel"

\* The return address of a call the thread is in, by the name of its writer.
Address(t, i) == IF entry[stack[t]][i] = None THEN t ELSE entry[stack[t]][i]

\* The words after the call's store to the stack and the prolog's to its target.
Stored(t, i) ==
  [r \in Regions |-> [j \in 1 .. MaxDepth |->
     IF r = Target(t) /\ j = i THEN t
     ELSE IF r = stack[t] /\ j = live[t] + 1 THEN None ELSE entry[r][j]]]

\* The call leaves its return address in the thread's stack, the prolog a copy
\* at its target.  A copy in somebody else's stack may take the place of any word
\* there: of a return address the thread will compare, of a local variable, or of
\* one it returns to unchecked, in a function without an epilog or because it has
\* just made the comparison.
Push(t) ==
  /\ Up /\ MayCall(t)
  /\ live[t] < MaxDepth
  /\ \/ /\ Mapped(Target(t))
        /\ \E i \in IF Victims(t) = {} THEN {live[t] + 1} ELSE 0 .. MaxDepth : entry' = Stored(t, i)
        /\ live' = [live EXCEPT ![t] = @ + 1]
        /\ UNCHANGED process
     \/ /\ Mapped(Target(t))
        /\ \E u \in Victims(t) : End("astray", u)
        /\ UNCHANGED <<entry, live>>
     \/ /\ ~Whole(Target(t))
        /\ End("segv", t)
        /\ UNCHANGED <<entry, live>>
  /\ late' = IF TornDown(t) THEN late \cup {t} ELSE late
  /\ UNCHANGED <<pc, holder, stack, gs, base, floor, left>>

\* What the comparison may say: what the program has done meanwhile to a mapping
\* or a stack of its own is not known.
Equal(t) ==
  IF holder[Target(t)] = Other \/ Victims(t) # {} THEN BOOLEAN
  ELSE {entry[Target(t)][live[t]] = Address(t, live[t])}

Pop(t) ==
  /\ Up /\ MayCall(t)
  /\ live[t] > floor[t]
  /\ \/ /\ Mapped(Target(t))
        /\ \E equal \in Equal(t) :
             IF equal THEN live' = [live EXCEPT ![t] = @ - 1] /\ UNCHANGED process
                      ELSE End("trap", t) /\ UNCHANGED live
     \/ /\ ~Whole(Target(t))
        /\ End("segv", t)
        /\ UNCHANGED live
  /\ UNCHANGED <<pc, holder, entry, stack, gs, base, floor, left, late>>

-----------------------------------------------------------------------------
(* Ending a thread. *)

\* What is left of the start routine's calls when the thread is over.
Over(t, how) ==
  /\ left' = [left EXCEPT ![t] = how]
  /\ floor' = [floor EXCEPT ![t] = live[t]]

\* The start routine returns into thread_init().
Return(t) ==
  /\ Up /\ pc[t] = "run" /\ t # MainThread /\ live[t] = 0
  /\ pc' = [pc EXCEPT ![t] = "unmap"]
  /\ Over(t, "return")
  /\ UNCHANGED <<holder, entry, stack, gs, base, live, late, process>>

\* pthread_exit(), called at any depth; the epilogs of its callers never run.
PthreadExit(t) ==
  /\ Up /\ pc[t] = "run"
  /\ pc' = [pc EXCEPT ![t] = "unmap"]
  /\ Over(t, "exit")
  /\ UNCHANGED <<holder, entry, stack, gs, base, live, late, process>>

\* pthread_cancel() is not interposed: the thread goes straight to libc's exit.
Cancel(t) ==
  /\ Up /\ pc[t] = "run"
  /\ pc' = [pc EXCEPT ![t] = "late"]
  /\ Over(t, "cancel")
  /\ UNCHANGED <<holder, entry, stack, gs, base, live, late, process>>

\* munmap(gs:8, stack size).  Without a gs base this reads address 8; of a
\* shadow stack that mmap() refused only pthread_exit() checks the result.
UnmapShadow(t) ==
  /\ Up /\ pc[t] = "unmap"
  /\ CASE gs[t] = None -> End("segv", t) /\ UNCHANGED <<pc, holder, entry>>
       [] gs[t] # None /\ base[t] = None /\ left[t] = "exit" ->
            CallExit(t) /\ UNCHANGED <<pc, holder, entry>>
       [] OTHER -> /\ IF base[t] = None THEN UNCHANGED <<holder, entry>> ELSE Unmap(base[t])
                   /\ pc' = [pc EXCEPT ![t] = "unclave"]
                   /\ UNCHANGED process
  /\ UNCHANGED <<stack, gs, base, live, floor, left, late>>

\* Mutant: the page is left mapped.
UnmapClaveNot(t) ==
  /\ Up /\ pc[t] = "unclave"
  /\ pc' = [pc EXCEPT ![t] = "late"]
  /\ UNCHANGED <<holder, entry, stack, gs, base, live, floor, left, late, process>>
\* munmap(gs:32, one page).
UnmapClave(t) ==
  /\ Up /\ pc[t] = "unclave"
  /\ Unmap(gs[t])
  /\ pc' = [pc EXCEPT ![t] = "late"]
  /\ UNCHANGED <<stack, gs, base, live, floor, left, late, process>>

\* libc frees the stack of a thread that ended; the last one calls exit().
Die(t) ==
  /\ Up /\ pc[t] = "late"
  /\ pc' = [pc EXCEPT ![t] = "dead"]
  /\ IF \A u \in Threads \ {t} : pc[u] \in {"none", "dead"}
       THEN CallExit(t) /\ UNCHANGED <<holder, entry>>
       ELSE /\ IF t = MainThread THEN UNCHANGED <<holder, entry>> ELSE Unmap(stack[t])
            /\ UNCHANGED process
  /\ UNCHANGED <<stack, gs, base, live, floor, left, late>>

\* exit() in a running thread, or the return of main.
Exit(t) ==
  /\ Up /\ pc[t] = "run"
  /\ CallExit(t)
  /\ UNCHANGED <<pc, holder, entry, stack, gs, base, live, floor, left, late>>

\* The program maps something of its own in a region, and unmaps it.
OtherMap ==
  /\ Up
  /\ \E r \in FreeRegions : MapFor(r, Other)
  /\ UNCHANGED <<pc, stack, gs, base, live, floor, left, late, process>>
OtherUnmap ==
  /\ Up
  /\ \E r \in Regions : holder[r] = Other /\ Unmap(r)
  /\ UNCHANGED <<pc, stack, gs, base, live, floor, left, late, process>>

Next ==
  /\ \/ \E p, t \in Threads : Create(p, t)
     \/ \E t \in Threads : \/ MapClave(t) \/ MapShadow(t) \/ Push(t) \/ Pop(t) \/ Return(t)
                           \/ PthreadExit(t) \/ Cancel(t) \/ UnmapShadow(t) \/ UnmapClave(t) \/ Die(t) \/ Exit(t)
     \/ OtherMap \/ OtherUnmap
  /\ UNCHANGED scheme

Spec == Init /\ [][Next]_vars

\* The runtime's own code takes no lock and waits for nobody: a thread the
\* kernel schedules gets through it.  Nothing is assumed of the program's code.
Runtime(t) == /\ MapClave(t) \/ MapShadow(t) \/ UnmapShadow(t) \/ UnmapClave(t)
              /\ UNCHANGED scheme
FairSpec == Spec /\ \A t \in Threads : WF_vars(Runtime(t))

-----------------------------------------------------------------------------
(* Properties. *)

TypeOK ==
  /\ scheme \in Schemes
  /\ pc \in [Threads -> {"none", "clave", "shadow", "run", "unmap", "unclave", "late", "dead"}]
  /\ holder \in [Regions -> Holders]
  /\ entry \in [Regions -> [1 .. MaxDepth -> Threads \cup {None}]]
  /\ stack \in [Threads -> Regions \cup {None}]
  /\ gs \in [Threads -> Regions \cup {None}]
  /\ base \in [Threads -> Regions \cup {None}]
  /\ live \in [Threads -> 0 .. MaxDepth]
  /\ floor \in [Threads -> 0 .. MaxDepth]
  /\ left \in [Threads -> {"none", "return", "exit", "cancel"}]
  /\ late \subseteq Late
  /\ process \in [how : {"run", "exit", "segv", "trap", "astray"}, thread : Threads \cup {None}]

\* An entry lies in the shadow stack of the thread that wrote it, in no other
\* mapping of the process.
Confined == \A r \in Regions, i \in 1 .. MaxDepth :
              entry[r][i] # None => holder[r] = <<entry[r][i], "shadow">>

\* The entries of a thread's live calls are its own, whatever the others map,
\* unmap or call; and so are the return addresses they are compared with.
Kept(t) == Up /\ pc[t] = "run" /\ base[t] # None =>
             \A i \in 1 .. live[t] : entry[Target(t)][i] = t
Returns(t) == Up /\ pc[t] = "run" => \A i \in 1 .. live[t] : Address(t, i) = t

\* Under REG and MEM, whatever the threads map, unmap and call, an entry goes
\* astray, is overwritten or makes an epilog stop the program, or a return address
\* is overwritten, only once some thread has run instrumented code after unmapping
\* its shadow stack.
LateBlame ==
  scheme # "CON" =>
    (process.how \in {"trap", "astray"} \/ ~Confined \/ ~(\A t \in Threads : Kept(t) /\ Returns(t)) => late # {})

\* Under REG and MEM the process faults only in a thread whose shadow stack
\* mmap() refused, in late code, when the last thread runs .fini_array after its
\* teardown, or, under MEM, in a pthread_exit(), which looks for a gs base
\* nobody set.
FaultBlame ==
  scheme # "CON" /\ process.how = "segv" =>
    LET t == process.thread
    IN \/ base[t] = None
       \/ t \in late
       \/ pc[t] = "dead" /\ left[t] # "cancel" /\ FiniCode
       \/ pc[t] = "unmap" /\ left[t] = "exit" /\ scheme = "MEM"

\* Under CON the main thread takes any address mmap() gives it, while its
\* prologs go on storing at the offset.
Misplaced == scheme = "CON" /\ base[MainThread] \notin {None, Mirror[stack[MainThread]]}

\* The thread whose stack is there.
InTheWay(t) == Misplaced /\ holder[Mirror[stack[MainThread]]] = <<t, "stack">>

\* Under CON all depends on the main thread's shadow stack being where its prologs
\* store.  If it is, nothing is lost, altered or stopped.  If it is not, the main
\* thread writes into whatever is there: it may be stopped itself, and a thread
\* whose stack it hits may be stopped or return to a wrong address.  The return
\* addresses of all other threads, and the entries of every thread but the main
\* one, are their own even then.  The process faults for want of a shadow stack,
\* in that main thread, or in a thread that leaves, which looks for a gs base
\* nobody set.
MirrorBlame ==
  scheme = "CON" =>
    /\ ~Confined => Misplaced
    /\ process.how = "trap" => (process.thread = MainThread /\ Misplaced) \/ InTheWay(process.thread)
    /\ process.how = "astray" => InTheWay(process.thread)
    /\ \A t \in Threads : (t = MainThread => ~Misplaced) => Kept(t)
    /\ \A t \in Threads : ~InTheWay(t) => Returns(t)
    /\ process.how = "segv" =>
         LET t == process.thread
         IN base[t] = None \/ pc[t] = "unmap" \/ (t = MainThread /\ Misplaced)

\* "retrieve shadow stack location" (pthread_create.c): a thread that leaves
\* finds its shadow stack at gs:8 and unmaps it.
FindsStack == process.how = "segv" => pc[process.thread] # "unmap"

\* A thread that leaves through the interposed functions gives its shadow stack
\* and its clave back, whatever the other threads do, unless the process ends:
\* nothing in pthread_create.c sends it past one of the two munmap()s.
Reclaimed == \A t \in Threads :
  left[t] \in {"return", "exit"} ~>
    (~Up \/ \A r \in Regions : holder[r] \notin {t} \X {"clave", "shadow"})
=============================================================================
