---------------------------- MODULE StacksProofs ----------------------------
(***************************************************************************)
(* The theorems about undisciplined programs carried to the two programs   *)
(* of MCStacks, for every size of the stack and every set of return        *)
(* addresses.                                                              *)
(***************************************************************************)
EXTENDS MCStacks, TLAPS

JumpsProofs   == INSTANCE MinimalStackProofs WITH Scheme <- "SEG", Calls <- Within
ForeignProofs == INSTANCE MinimalStackProofs WITH Scheme <- "REG", Calls <- Within \cup Callbacks

\* The functions and the calls of both programs.
LEMMA SmallProgram ==
  /\ {Crt, Main, Raise} \subseteq Fns /\ Crt # Main
  /\ InitFns \subseteq Fns /\ FiniFns \subseteq Fns
  /\ Ctors \subseteq Fns /\ Unsafe \subseteq Fns
  /\ Clobbers \subseteq Fns \ Unsafe
  /\ Crt \notin Unsafe \cup SetJmps \cup Handlers
  /\ Within \cup Callbacks \subseteq Fns \X (Fns \ {Crt}) /\ TailCalls \subseteq Fns \X (Fns \ {Crt})
  /\ \A f \in Fns : <<Crt, f>> \notin Within \cup Callbacks \cup TailCalls
  /\ Crt \notin InitFns \cup FiniFns
  /\ Frame \in [Fns -> Nat]
  /\ \A f \in Fns : Frame[f] >= 1
  /\ StackWords > Frame[Crt]
<1>1. Within \cup Callbacks \subseteq Fns \X (Fns \ {Crt}) /\ TailCalls \subseteq Fns \X (Fns \ {Crt})
  BY StacksAssumption DEF Within, Callbacks, TailCalls, Fns
<1>2. \A f \in Fns : <<Crt, f>> \notin Within \cup Callbacks \cup TailCalls
  BY StacksAssumption DEF Within, Callbacks, TailCalls
<1>3. /\ Frame \in [Fns -> Nat] /\ \A f \in Fns : Frame[f] >= 1
      /\ StackWords > Frame[Crt]
  BY StacksAssumption DEF Frame, Fns
<1>4. /\ {Crt, Main, Raise} \subseteq Fns /\ Crt # Main
      /\ InitFns \subseteq Fns /\ FiniFns \subseteq Fns
      /\ Ctors \subseteq Fns /\ Unsafe \subseteq Fns
      /\ Clobbers \subseteq Fns \ Unsafe
      /\ Crt \notin Unsafe \cup SetJmps \cup Handlers
      /\ Crt \notin InitFns \cup FiniFns
  BY StacksAssumption DEF Fns, InitFns, FiniFns, Ctors, Unsafe, Clobbers, SetJmps, Handlers
<1> QED  BY <1>1, <1>2, <1>3, <1>4

\* The program of the non-local jumps is one that MinimalStack's theorems are about.
LEMMA JumpsProgram ==
  /\ "SEG" \in JumpsProofs!Schemes
  /\ StackWords \in Nat /\ StackWords % 2 = 0 /\ StackWords > 2
  /\ Null \notin Sites /\ Header \notin Sites /\ Header # Null
  /\ {Crt, Main, Raise} \subseteq Fns /\ Crt # Main
  /\ InitFns \subseteq Fns /\ FiniFns \subseteq Fns
  /\ Ctors \subseteq Fns /\ Unsafe \subseteq Fns
  /\ Clobbers \subseteq Fns \ Unsafe
  /\ Crt \notin Unsafe \cup SetJmps \cup Handlers
  /\ Within \subseteq Fns \X (Fns \ {Crt}) /\ TailCalls \subseteq Fns \X (Fns \ {Crt})
  /\ \A f \in Fns : <<Crt, f>> \notin Within \cup TailCalls
  /\ Crt \notin InitFns \cup FiniFns
  /\ Frame \in [Fns -> Nat]
  /\ \A f \in Fns : Frame[f] >= 1
  /\ StackWords > Frame[Crt]
<1>1. "SEG" \in JumpsProofs!Schemes
  BY DEF JumpsProofs!Schemes
<1> QED  BY <1>1, StacksAssumption, SmallProgram

\* The two instances of MinimalStack say the same.
LEMMA JumpsSame ==
  /\ (JumpsProofs!Init <=> Jumps!Init) /\ (JumpsProofs!Next <=> Jumps!Next)
  /\ JumpsProofs!vars = Jumps!vars
  /\ (JumpsProofs!LiveEntriesKept <=> Jumps!LiveEntriesKept)
BY DEF JumpsProofs!LoadsR15, Jumps!LoadsR15, JumpsProofs!Prolog, Jumps!Prolog,
       JumpsProofs!Epilog, Jumps!Epilog, JumpsProofs!ShadowLen, Jumps!ShadowLen,
       JumpsProofs!FirstEntry, Jumps!FirstEntry, JumpsProofs!Wild, Jumps!Wild,
       JumpsProofs!Index, Jumps!Index, JumpsProofs!NoEnv, Jumps!NoEnv, JumpsProofs!vars,
       Jumps!vars, JumpsProofs!Depth, Jumps!Depth, JumpsProofs!Top, Jumps!Top, JumpsProofs!Rsp,
       Jumps!Rsp, JumpsProofs!CrtFrame, Jumps!CrtFrame, JumpsProofs!Init, Jumps!Init,
       JumpsProofs!Enter, Jumps!Enter, JumpsProofs!Checked, Jumps!Checked, JumpsProofs!Popped,
       Jumps!Popped, JumpsProofs!KeepEnv, Jumps!KeepEnv, JumpsProofs!CrtMayCall,
       Jumps!CrtMayCall, JumpsProofs!Fits, Jumps!Fits, JumpsProofs!Call, Jumps!Call,
       JumpsProofs!Return, Jumps!Return, JumpsProofs!Escape, Jumps!Escape,
       JumpsProofs!EpilogTrap, Jumps!EpilogTrap, JumpsProofs!TailCall, Jumps!TailCall,
       JumpsProofs!Exit, Jumps!Exit, JumpsProofs!Finish, Jumps!Finish, JumpsProofs!StrayStore,
       Jumps!StrayStore, JumpsProofs!SetJmp, Jumps!SetJmp, JumpsProofs!Stops, Jumps!Stops,
       JumpsProofs!WalkEnd, Jumps!WalkEnd, JumpsProofs!WalkFails, Jumps!WalkFails,
       JumpsProofs!LongJmp, Jumps!LongJmp, JumpsProofs!Unwind, Jumps!Unwind, JumpsProofs!Next,
       Jumps!Next, JumpsProofs!NextBase, Jumps!NextBase, JumpsProofs!PtrAt, Jumps!PtrAt,
       JumpsProofs!LiveEntriesKept, Jumps!LiveEntriesKept

\* The first of the two programs never becomes the other.
LEMMA JumpsRun == Spec => ([](program = "jumps") /\ Jumps!Spec) \/ [](program = "foreign")
<1>1. Init => (program = "jumps" /\ Jumps!Init) \/ program = "foreign"
  BY DEF Init
<1>2. program = "jumps" /\ [Next]_vars => (program = "jumps")' /\ [Jumps!Next]_(Jumps!vars)
  BY DEF Next, vars, Jumps!vars
<1>3. program = "foreign" /\ [Next]_vars => (program = "foreign")'
  BY DEF Next, vars
<1> QED  BY <1>1, <1>2, <1>3, PTL DEF Spec, Jumps!Spec

\* LiveEntriesKept (MCStacks): the jumps of the SEG program cost no live entry,
\* whatever the size of its stack.
THEOREM LiveEntriesKeptHolds == Spec => []LiveEntriesKept
<1>1. JumpsProofs!Spec => []JumpsProofs!LiveEntriesKept
  <2>1. "SEG" # "REG"
    OBVIOUS
  <2> QED  BY <2>1, JumpsProgram, JumpsProofs!LiveEntriesKeptHolds
<1>2. Jumps!Spec => []Jumps!LiveEntriesKept
  <2>1. [Jumps!Next]_(Jumps!vars) => [JumpsProofs!Next]_(JumpsProofs!vars)
    BY JumpsSame DEF Jumps!vars, JumpsProofs!vars
  <2>2. (Jumps!Init => JumpsProofs!Init) /\ (JumpsProofs!LiveEntriesKept => Jumps!LiveEntriesKept)
    BY JumpsSame
  <2> QED  BY <1>1, <2>1, <2>2, PTL DEF JumpsProofs!Spec, Jumps!Spec
<1>3. /\ program = "jumps" /\ Jumps!LiveEntriesKept => LiveEntriesKept
      /\ program = "foreign" => LiveEntriesKept
  BY DEF LiveEntriesKept
<1> QED  BY <1>2, <1>3, JumpsRun, PTL

\* The program of the callbacks is one that MinimalStack's theorems are about.
LEMMA ForeignProgram ==
  /\ "REG" \in ForeignProofs!Schemes
  /\ StackWords \in Nat /\ StackWords % 2 = 0 /\ StackWords > 2
  /\ Null \notin Sites /\ Header \notin Sites /\ Header # Null
  /\ {Crt, Main, Raise} \subseteq Fns /\ Crt # Main
  /\ InitFns \subseteq Fns /\ FiniFns \subseteq Fns
  /\ Ctors \subseteq Fns /\ Unsafe \subseteq Fns
  /\ Clobbers \subseteq Fns \ Unsafe
  /\ Crt \notin Unsafe \cup SetJmps \cup Handlers
  /\ (Within \cup Callbacks) \subseteq Fns \X (Fns \ {Crt}) /\ TailCalls \subseteq Fns \X (Fns \ {Crt})
  /\ \A f \in Fns : <<Crt, f>> \notin (Within \cup Callbacks) \cup TailCalls
  /\ Crt \notin InitFns \cup FiniFns
  /\ Frame \in [Fns -> Nat]
  /\ \A f \in Fns : Frame[f] >= 1
  /\ StackWords > Frame[Crt]
<1>1. "REG" \in ForeignProofs!Schemes
  BY DEF ForeignProofs!Schemes
<1> QED  BY <1>1, StacksAssumption, SmallProgram

\* The two instances of MinimalStack say the same.
LEMMA ForeignSame ==
  /\ (ForeignProofs!Init <=> Foreign!Init) /\ (ForeignProofs!Next <=> Foreign!Next)
  /\ ForeignProofs!vars = Foreign!vars
  /\ (ForeignProofs!WildBlame <=> Foreign!WildBlame)
BY DEF ForeignProofs!LoadsR15, Foreign!LoadsR15, ForeignProofs!Prolog, Foreign!Prolog,
       ForeignProofs!Epilog, Foreign!Epilog, ForeignProofs!ShadowLen, Foreign!ShadowLen,
       ForeignProofs!FirstEntry, Foreign!FirstEntry, ForeignProofs!Wild, Foreign!Wild,
       ForeignProofs!Index, Foreign!Index, ForeignProofs!NoEnv, Foreign!NoEnv,
       ForeignProofs!vars, Foreign!vars, ForeignProofs!Depth, Foreign!Depth, ForeignProofs!Top,
       Foreign!Top, ForeignProofs!Rsp, Foreign!Rsp, ForeignProofs!CrtFrame, Foreign!CrtFrame,
       ForeignProofs!Init, Foreign!Init, ForeignProofs!Enter, Foreign!Enter,
       ForeignProofs!Checked, Foreign!Checked, ForeignProofs!Popped, Foreign!Popped,
       ForeignProofs!KeepEnv, Foreign!KeepEnv, ForeignProofs!CrtMayCall, Foreign!CrtMayCall,
       ForeignProofs!Fits, Foreign!Fits, ForeignProofs!Call, Foreign!Call,
       ForeignProofs!Return, Foreign!Return, ForeignProofs!Escape, Foreign!Escape,
       ForeignProofs!EpilogTrap, Foreign!EpilogTrap, ForeignProofs!TailCall, Foreign!TailCall,
       ForeignProofs!Exit, Foreign!Exit, ForeignProofs!Finish, Foreign!Finish,
       ForeignProofs!StrayStore, Foreign!StrayStore, ForeignProofs!SetJmp, Foreign!SetJmp,
       ForeignProofs!Stops, Foreign!Stops, ForeignProofs!WalkEnd, Foreign!WalkEnd,
       ForeignProofs!WalkFails, Foreign!WalkFails, ForeignProofs!LongJmp, Foreign!LongJmp,
       ForeignProofs!Unwind, Foreign!Unwind, ForeignProofs!Next, Foreign!Next,
       ForeignProofs!NextBase, Foreign!NextBase, ForeignProofs!PtrAt, Foreign!PtrAt,
       ForeignProofs!WildBlame, Foreign!WildBlame

\* Nor does the second.
LEMMA ForeignRun == Spec => ([](program = "foreign") /\ Foreign!Spec) \/ [](program = "jumps")
<1>1. Init => (program = "foreign" /\ Foreign!Init) \/ program = "jumps"
  BY DEF Init
<1>2. program = "foreign" /\ [Next]_vars => (program = "foreign")' /\ [Foreign!Next]_(Foreign!vars)
  BY DEF Next, vars, Foreign!vars
<1>3. program = "jumps" /\ [Next]_vars => (program = "jumps")'
  BY DEF Next, vars
<1> QED  BY <1>1, <1>2, <1>3, PTL DEF Spec, Foreign!Spec

\* WildBlame (MCStacks): in the REG program with callbacks a prolog stores through
\* a foreign r15 only below foreign code that was itself called.
THEOREM WildBlameHolds == Spec => []WildBlame
<1>1. ForeignProofs!Spec => []ForeignProofs!WildBlame
  <2>1. "REG" = "REG" /\ \A f \in InitFns \cup FiniFns \cup {Main} : ForeignProofs!LoadsR15(f)
    BY DEF ForeignProofs!LoadsR15, InitFns, FiniFns, Ctors
  <2> QED  BY <2>1, ForeignProgram, ForeignProofs!WildBlameHolds
<1>2. Foreign!Spec => []Foreign!WildBlame
  <2>1. [Foreign!Next]_(Foreign!vars) => [ForeignProofs!Next]_(ForeignProofs!vars)
    BY ForeignSame DEF Foreign!vars, ForeignProofs!vars
  <2>2. (Foreign!Init => ForeignProofs!Init) /\ (ForeignProofs!WildBlame => Foreign!WildBlame)
    BY ForeignSame
  <2> QED  BY <1>1, <2>1, <2>2, PTL DEF ForeignProofs!Spec, Foreign!Spec
<1>3. /\ program = "foreign" /\ Foreign!WildBlame => WildBlame
      /\ program = "jumps" => WildBlame
  BY DEF WildBlame
<1> QED  BY <1>2, <1>3, ForeignRun, PTL
=============================================================================
