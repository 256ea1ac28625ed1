------------------------- MODULE TasksUnmaskedProofs -------------------------
(***************************************************************************)
(* Theorems about TasksUnmasked, for every set of tasks and every choice   *)
(* of the calls that are made with interrupts enabled.  These calls break  *)
(* the lists, and then an assertion fails or a switch goes astray; up to   *)
(* there, interrupt levels and kernel stacks are right whatever the links  *)
(* say, because a switch enters a context that a switch has left or        *)
(* task_start has set up, or else it goes astray at once.                  *)
(***************************************************************************)
EXTENDS TasksUnmasked, TasksProofs

UnmaskedFrame == Frame \cup StartFrame \cup SwitchingFrame \cup SplhighFrame

(* The frames of the calls that an interrupt can come in, and the frame of  *)
(* splhigh when it has masked interrupts and nobody knows yet.              *)
Masking == [at |-> "splhigh", pc |-> "curspl"]
Interruptible ==
  {<<>>} \cup {<<c>> : c \in StartFrame \cup SwitchingFrame \cup (SplhighFrame \ {Masking})}

Push(f, s) == <<f>> \o s

(* The stacks of a task whose own code is at interrupt level l.  A trap     *)
(* comes in the task's own code or in a call, and at level 0 only.          *)
Trapped(k) == Push(Interrupt(0), k)
Preempted(k) == Push(Suspended("TS_READY", TrapLevel), Trapped(k))
IsContext(s, l) ==
  \/ s = <<>> \/ s = <<Startup>>
  \/ \E into \in Lists : s = <<Suspended(into, l)>>
  \/ l = 0 /\ s = <<Masking>>
  \/ l = 0 /\ \E k \in Interruptible : s = k \/ s = Trapped(k) \/ s = Preempted(k)

ContextsUnmasked == \A t \in Task : IsContext(stack[t], level[t])

(* A task that waits for the processor, if it is ready for it, waits in     *)
(* mi_switch or in its first instruction.                                   *)
Waits(s) == s = <<>> \/ s = <<Startup>> \/ Head(s).at = "mi_switch"
Waiting == \A t \in Task \ {curtask} : Waits(stack[t])

(* The tasks that u has begun to start have not run, and nobody else starts *)
(* them.                                                                    *)
Starts(s) == {f.task : f \in {g \in ToSet(s) : g.at = "task_start"}}
StartsApart ==
  /\ \A u \in Task : \A t \in Starts(stack[u]) : t \in Task \ {curtask} /\ stack[t] = <<>>
  /\ \A u, v \in Task : u # v => Starts(stack[u]) \cap Starts(stack[v]) = {}

(* The levels of the running task, by what it executes. *)
RunningLevels ==
  LET s == stack[curtask]
  IN /\ s = <<>> => /\ curspl = level[curtask] /\ spl[curtask] = level[curtask]
                    /\ daif <=> level[curtask] = 1
     /\ s # <<>> /\ s \in Interruptible => curspl = 0 /\ spl[curtask] = 0 /\ ~daif
     /\ s \notin Interruptible => daif

StacksInv == ContextsUnmasked /\ Waiting /\ NewLevels /\ StartsApart

UnmaskedInv == TypeOKUnmasked /\ (halt = "no" => StacksInv /\ RunningLevels)

-----------------------------------------------------------------------------
(* A frame on top of a stack. *)
LEMMA PushProperties ==
  ASSUME NEW S, NEW f \in S, NEW s \in Seq(S)
  PROVE  /\ Push(f, s) \in Seq(S) /\ Push(f, s) # <<>>
         /\ Head(Push(f, s)) = f /\ Tail(Push(f, s)) = s
         /\ ToSet(Push(f, s)) = {f} \cup ToSet(s)
<1>1. /\ Push(f, s) \in Seq(S) /\ Len(Push(f, s)) = Len(s) + 1 /\ Push(f, s)[1] = f
      /\ \A i \in 1 .. Len(s) : Push(f, s)[i + 1] = s[i]
      /\ Len(s) \in Nat
  <2>1. <<f>> \in Seq(S) /\ Len(<<f>>) = 1 /\ <<f>>[1] = f
    OBVIOUS
  <2> QED  BY <2>1, ConcatProperties DEF Push
<1>2. Push(f, s) # <<>> /\ Head(Push(f, s)) = f
  BY <1>1
<1>3. Tail(Push(f, s)) = s
  <2>1. Tail(Push(f, s)) \in Seq(S) /\ Len(Tail(Push(f, s))) = Len(s)
    BY <1>1, <1>2, HeadTailProperties
  <2>2. \A i \in 1 .. Len(s) : Tail(Push(f, s))[i] = s[i]
    BY <1>1, <1>2, HeadTailProperties
  <2> QED  BY <2>1, <2>2, SeqEqual
<1>4. ToSet(Push(f, s)) = {f} \cup ToSet(s)
  <2>1. ASSUME NEW i \in 1 .. Len(s) + 1 PROVE Push(f, s)[i] \in {f} \cup ToSet(s)
    <3>1. i = 1 \/ (i - 1 \in 1 .. Len(s) /\ (i - 1) + 1 = i)
      BY <1>1
    <3>2. \A j \in 1 .. Len(s) : s[j] \in ToSet(s)
      BY DEF ToSet
    <3> QED  BY <1>1, <3>1, <3>2
  <2>2. ASSUME NEW i \in 1 .. Len(s) PROVE s[i] \in ToSet(Push(f, s))
    <3>1. i + 1 \in 1 .. Len(Push(f, s))
      BY <1>1
    <3> QED  BY <1>1, <3>1 DEF ToSet
  <2>3. f \in ToSet(Push(f, s))
    <3>1. 1 \in 1 .. Len(Push(f, s))
      BY <1>1
    <3> QED  BY <1>1, <3>1 DEF ToSet
  <2>4. ASSUME NEW x \in ToSet(Push(f, s)) PROVE x \in {f} \cup ToSet(s)
    <3>1. PICK i \in 1 .. Len(s) + 1 : x = Push(f, s)[i]
      BY <1>1, <2>4 DEF ToSet
    <3> QED  BY <2>1, <3>1
  <2>5. ASSUME NEW x \in ToSet(s) PROVE x \in ToSet(Push(f, s))
    <3>1. PICK i \in 1 .. Len(s) : x = s[i]
      BY <1>1, <2>5 DEF ToSet
    <3> QED  BY <2>2, <3>1
  <2> QED  BY <2>3, <2>4, <2>5
<1> QED  BY <1>1, <1>2, <1>3, <1>4

(* The top of a stack, and the stack with another one. *)
LEMMA TopProperties ==
  ASSUME NEW S, NEW s \in Seq(S), s # <<>>
  PROVE  /\ Head(s) \in S /\ Head(s) = s[1] /\ Tail(s) \in Seq(S) /\ s = Push(Head(s), Tail(s))
         /\ \A x \in S : [s EXCEPT ![1] = x] = Push(x, Tail(s))
<1>1. /\ Head(s) \in S /\ Head(s) = s[1] /\ Tail(s) \in Seq(S) /\ Len(Tail(s)) = Len(s) - 1
      /\ \A i \in 1 .. Len(Tail(s)) : Tail(s)[i] = s[i + 1]
      /\ Len(s) \in Nat \ {0} /\ DOMAIN s = 1 .. Len(s)
  BY HeadTailProperties, EmptySeq
<1>2. ASSUME NEW x \in S, NEW r \in Seq(S), Len(r) = Len(s), r[1] = x,
             \A i \in 2 .. Len(s) : r[i] = s[i]
      PROVE  r = Push(x, Tail(s))
  <2>1. <<x>> \in Seq(S) /\ Len(<<x>>) = 1 /\ <<x>>[1] = x
    OBVIOUS
  <2>2. /\ Push(x, Tail(s)) \in Seq(S) /\ Len(Push(x, Tail(s))) = Len(s)
        /\ \A i \in 1 .. Len(s) :
             Push(x, Tail(s))[i] = IF i <= 1 THEN x ELSE Tail(s)[i - 1]
    BY <1>1, <2>1, ConcatProperties DEF Push
  <2>3. ASSUME NEW i \in 1 .. Len(s) PROVE r[i] = Push(x, Tail(s))[i]
    <3>1. CASE i = 1
      BY <1>2, <2>2, <3>1
    <3>2. CASE i # 1
      <4>1. i \in 2 .. Len(s) /\ i - 1 \in 1 .. Len(Tail(s)) /\ (i - 1) + 1 = i /\ ~(i <= 1)
        BY <1>1, <3>2
      <4>2. Tail(s)[i - 1] = s[i]
        BY <1>1, <4>1
      <4> QED  BY <1>2, <2>2, <4>1, <4>2
    <3> QED  BY <3>1, <3>2
  <2> QED  BY <1>1, <1>2, <2>2, <2>3, SeqEqual
<1>3. s = Push(Head(s), Tail(s))
  BY <1>1, <1>2
<1>4. ASSUME NEW x \in S PROVE [s EXCEPT ![1] = x] = Push(x, Tail(s))
  <2> DEFINE r == [s EXCEPT ![1] = x]
  <2>1. DOMAIN r = 1 .. Len(s) /\ \A i \in 1 .. Len(s) : r[i] = IF i = 1 THEN x ELSE s[i]
    BY <1>1
  <2>2. \A i \in 1 .. Len(s) : s[i] \in S
    BY <1>1
  <2>3. r \in [1 .. Len(s) -> S]
    BY <2>1, <2>2
  <2>4. r \in Seq(S) /\ Len(r) = Len(s)
    <3>1. r \in Seq(S)
      BY <1>1, <2>3, SeqDef
    <3> QED  BY <1>1, <2>1, <3>1, LenProperties
  <2>5. r[1] = x /\ \A i \in 2 .. Len(s) : r[i] = s[i]
    BY <1>1, <2>1
  <2> HIDE DEF r
  <2>6. r = Push(x, Tail(s))
    BY <1>2, <2>4, <2>5
  <2> QED  BY <2>6 DEF r
<1> QED  BY <1>1, <1>3, <1>4

-----------------------------------------------------------------------------
(***************************************************************************)
(* The types.                                                              *)
(***************************************************************************)
(* The frame that the running task executes. *)
LEMMA CallTypes ==
  ASSUME TypeOKUnmasked, stack[curtask] # <<>>
  PROVE  /\ Call \in UnmaskedFrame /\ Tail(stack[curtask]) \in Seq(UnmaskedFrame)
         /\ stack[curtask] = Push(Call, Tail(stack[curtask]))
         /\ Pop(curtask) = [stack EXCEPT ![curtask] = Tail(stack[curtask])]
         /\ Call.at = "task_start" => Call \in StartFrame
         /\ Call.at = "switching" => Call \in SwitchingFrame
         /\ Call.at = "splhigh" => Call \in SplhighFrame
         /\ Call.at = "aarch64_trapentry" => Call \in TrapFrame
         /\ Call.at = "mi_switch" => Call \in SwitchFrame
         /\ Call.at = "mi_task_startup" => Call = Startup
<1>1. stack[curtask] \in Seq(UnmaskedFrame)
  BY DEF TypeOKUnmasked, UnmaskedFrame
<1>2. /\ Call \in UnmaskedFrame /\ Tail(stack[curtask]) \in Seq(UnmaskedFrame)
      /\ stack[curtask] = Push(Call, Tail(stack[curtask]))
  BY <1>1, TopProperties DEF Call, Top
<1>3. \A f \in UnmaskedFrame :
        /\ f.at = "task_start" => f \in StartFrame
        /\ f.at = "switching" => f \in SwitchingFrame
        /\ f.at = "splhigh" => f \in SplhighFrame
        /\ f.at = "aarch64_trapentry" => f \in TrapFrame
        /\ f.at = "mi_switch" => f \in SwitchFrame
        /\ f.at = "mi_task_startup" => f = Startup
  BY DEF UnmaskedFrame, Frame, StartFrame, SwitchingFrame, SplhighFrame, TrapFrame, SwitchFrame,
    Startup
<1> QED  BY <1>2, <1>3 DEF Pop

(* The stacks when the running task changes the frame it executes. *)
LEMMA GotoProperties ==
  ASSUME TypeOKUnmasked, stack[curtask] # <<>>, NEW f \in UnmaskedFrame
  PROVE  /\ [stack EXCEPT ![curtask][1] = f] =
               [stack EXCEPT ![curtask] = Push(f, Tail(stack[curtask]))]
         /\ [stack EXCEPT ![curtask][1] = f] \in [Task -> Seq(UnmaskedFrame)]
<1>1. stack[curtask] \in Seq(UnmaskedFrame)
  BY DEF TypeOKUnmasked, UnmaskedFrame
<1>2. [stack[curtask] EXCEPT ![1] = f] = Push(f, Tail(stack[curtask]))
  BY <1>1, TopProperties
<1>3. Push(f, Tail(stack[curtask])) \in Seq(UnmaskedFrame)
  BY <1>1, TopProperties, PushProperties
<1>4. [stack EXCEPT ![curtask][1] = f] =
        [stack EXCEPT ![curtask] = [stack[curtask] EXCEPT ![1] = f]]
  OBVIOUS
<1> QED  BY <1>2, <1>3, <1>4 DEF TypeOKUnmasked, UnmaskedFrame

LEMMA GotoTop ==
  ASSUME TypeOKUnmasked, stack[curtask] # <<>>, NEW pc
  PROVE  /\ Goto(pc) = [stack EXCEPT ![curtask][1] = [Call EXCEPT !.pc = pc]]
         /\ [stack EXCEPT ![curtask][1] = [@ EXCEPT !.pc = "unlink", !.next = Scheduler(links)]] =
              [stack EXCEPT ![curtask][1] = [Call EXCEPT !.pc = "unlink", !.next = Scheduler(links)]]
<1>1. Call = stack[curtask][1]
  BY TopProperties DEF TypeOKUnmasked, Call, Top
<1> QED  BY <1>1 DEF Goto

LEMMA EnterProperties ==
  ASSUME TypeOKUnmasked, NEW f \in UnmaskedFrame
  PROVE  /\ Enter(f) = [stack EXCEPT ![curtask] = Push(f, stack[curtask])]
         /\ Enter(f) \in [Task -> Seq(UnmaskedFrame)]
<1>1. Push(f, stack[curtask]) \in Seq(UnmaskedFrame)
  BY PushProperties DEF TypeOKUnmasked, UnmaskedFrame
<1> QED  BY <1>1 DEF Enter, Push, TypeOKUnmasked, UnmaskedFrame

(* The type of the state after a switch. *)
LEMMA SwitchTypeUnmasked ==
  ASSUME TypeOKUnmasked, NEW into \in Lists, NEW l \in Level, NEW below \in Seq(UnmaskedFrame),
         MiSwitch(into, l, below)
  PROVE  /\ links' \in Links /\ curtask' \in Task
         /\ curspl' \in Level /\ daif' \in BOOLEAN /\ spl' \in [Task -> Level]
         /\ stack' \in [Task -> Seq(UnmaskedFrame)]
         /\ halt' \in {"no", "panic", "wild"}
<1>1. Successor \in Task
  BY DEF Successor, Scheduler, TypeOKUnmasked, Links, Pointer, Lists
<1>2. Descheduled(into) \in Links
  BY LinksType DEF Descheduled, TypeOKUnmasked
<1>3. links' \in Links /\ curtask' \in Task
  BY <1>1, <1>2, LinksType DEF MiSwitch
<1>4. curspl' \in Level /\ daif' \in BOOLEAN /\ spl' \in [Task -> Level]
  BY DEF MiSwitch, Splhigh, TypeOKUnmasked, Level
<1>5. stack' \in [Task -> Seq(UnmaskedFrame)]
  <2>1. Suspended(into, l) \in UnmaskedFrame
    BY DEF Suspended, UnmaskedFrame, Frame, SwitchFrame
  <2>2. <<Suspended(into, l)>> \o below \o stack[curtask] \in Seq(UnmaskedFrame)
    BY <2>1, ConcatProperties DEF TypeOKUnmasked, UnmaskedFrame
  <2> QED  BY <2>2 DEF MiSwitch, TypeOKUnmasked, UnmaskedFrame
<1>6. halt' \in {"no", "panic", "wild"}
  BY DEF MiSwitch, TypeOKUnmasked
<1> QED  BY <1>3, <1>4, <1>5, <1>6

LEMMA UnmaskedTypeInit == Init => TypeOKUnmasked
<1> SUFFICES ASSUME Init PROVE TypeOKUnmasked
  OBVIOUS
<1>1. stack \in [Task -> Seq(UnmaskedFrame)]
  BY DEF Init
<1> QED  BY <1>1, TypeInit DEF TypeOKUnmasked, TypeOK, UnmaskedFrame

LEMMA UnmaskedTypeStep == TypeOKUnmasked /\ [NextUnmasked]_vars => TypeOKUnmasked'
<1> SUFFICES ASSUME TypeOKUnmasked, [NextUnmasked]_vars PROVE TypeOKUnmasked'
  OBVIOUS
<1> DEFINE Stacks == [Task -> Seq(UnmaskedFrame)]
<1>1. /\ links \in Links /\ curtask \in Task /\ stack \in Stacks /\ level \in [Task -> Level]
      /\ curspl \in Level /\ spl \in [Task -> Level] /\ daif \in BOOLEAN
  BY DEF TypeOKUnmasked, UnmaskedFrame
<1>2. ASSUME stack' \in Stacks, links' \in Links, UNCHANGED <<curtask, state, pending, halt>>,
             curspl' \in Level, daif' \in BOOLEAN, spl' \in [Task -> Level],
             level' \in [Task -> Level]
      PROVE  TypeOKUnmasked'
  BY <1>2 DEF TypeOKUnmasked, UnmaskedFrame
<1>3. ASSUME NEW s \in Level, SetLevelMasked(s) PROVE TypeOKUnmasked'
  BY <1>1, <1>2, <1>3 DEF SetLevelMasked, SetLevel, Splx, Splhigh, Spl0, Level
<1>4. ASSUME NEW t \in Task, TaskNew(t) PROVE TypeOKUnmasked'
  BY <1>4 DEF TaskNew, TypeOKUnmasked
<1>5. ASSUME NEW t \in Task, TaskStartMasked(t) PROVE TypeOKUnmasked'
  <2>1. links' \in Links
    BY <1>1, <1>5, LinksType DEF TaskStartMasked, TaskStart, Lists
  <2>2. stack' \in Stacks
    <3>1. <<Startup>> \in Seq(UnmaskedFrame)
      BY DEF UnmaskedFrame, Frame
    <3> QED  BY <1>1, <1>5, <3>1 DEF TaskStartMasked, TaskStart
  <2> QED  BY <1>5, <2>1, <2>2 DEF TaskStartMasked, TaskStart, TypeOKUnmasked, UnmaskedFrame
<1>6. ASSUME NEW into \in Lists, NEW l \in Level, NEW below \in Seq(UnmaskedFrame),
             MiSwitch(into, l, below), UNCHANGED <<state, level>>, pending' \in BOOLEAN
      PROVE  TypeOKUnmasked'
  BY <1>6, SwitchTypeUnmasked DEF TypeOKUnmasked, UnmaskedFrame
<1>7. CASE TaskYield \/ TaskExit
  <2>1. <<>> \in Seq(UnmaskedFrame) /\ pending \in BOOLEAN
    BY DEF TypeOKUnmasked
  <2> QED  BY <1>1, <1>6, <1>7, <2>1 DEF TaskYield, TaskExit, Lists
<1>8. CASE TimerIrq
  <2>1. <<Interrupt(spl[curtask])>> \in Seq(UnmaskedFrame)
    BY <1>1 DEF UnmaskedFrame, Frame, TrapFrame, Interrupt
  <2>2. TrapLevel \in Level /\ "TS_READY" \in Lists
    BY DEF TrapLevel, Level, Lists
  <2> QED  BY <1>6, <1>8, <2>1, <2>2 DEF TimerIrq
<1>9. ASSUME stack[curtask] # <<>> PROVE Pop(curtask) \in Stacks
  BY <1>1, <1>9, CallTypes
<1>10. CASE MiTaskStartup
  BY <1>1, <1>2, <1>9, <1>10 DEF MiTaskStartup, In, Spl0, Level
<1>11. CASE SwitchReturn
  <2>1. /\ stack' \in Stacks /\ UNCHANGED <<links, curtask, state, level, pending>>
        /\ halt' \in {"no", "panic", "wild"}
    BY <1>9, <1>11 DEF SwitchReturn, In, TypeOKUnmasked
  <2>2. daif' \in BOOLEAN /\ curspl' \in Level /\ spl' \in [Task -> Level]
    BY <1>1, <1>11 DEF SwitchReturn, Splx, Splhigh, Spl0, Level
  <2> QED  BY <2>1, <2>2 DEF TypeOKUnmasked, UnmaskedFrame
<1>12. CASE TrapReturn
  <2>1. Call.oldspl \in Level
    BY <1>12, CallTypes DEF TrapReturn, In, TrapFrame, Call
  <2> QED  BY <1>1, <1>2, <1>9, <1>12, <2>1 DEF TrapReturn, In, Call
<1>13. CASE TimerExpire
  BY <1>13 DEF TimerExpire, TypeOKUnmasked
<1>14. ASSUME NEW f \in UnmaskedFrame, stack' = Enter(f),
              UNCHANGED <<links, curtask, curspl, daif, spl, state, level, pending, halt>>
       PROVE  TypeOKUnmasked'
  BY <1>14, EnterProperties DEF TypeOKUnmasked, UnmaskedFrame
<1>15. CASE BeginSplhigh
  <2>1. [at |-> "splhigh", pc |-> "daifset"] \in UnmaskedFrame
    BY DEF UnmaskedFrame, SplhighFrame
  <2> QED  BY <1>14, <1>15, <2>1 DEF BeginSplhigh
<1>16. ASSUME NEW t \in Task, BeginStart(t) PROVE TypeOKUnmasked'
  <2>1. [at |-> "task_start", pc |-> "next", task |-> t] \in UnmaskedFrame
    BY DEF UnmaskedFrame, StartFrame
  <2> QED  BY <1>14, <1>16, <2>1 DEF BeginStart
<1>17. ASSUME NEW into \in Lists, BeginSwitch(into) PROVE TypeOKUnmasked'
  <2>1. [at |-> "switching", pc |-> "scheduler", into |-> into, next |-> NULL] \in UnmaskedFrame
    BY DEF UnmaskedFrame, SwitchingFrame, Pointer
  <2> QED  BY <1>14, <1>17, <2>1 DEF BeginSwitch
<1>18. ASSUME NEW pc, stack[curtask] # <<>>, [Call EXCEPT !.pc = pc] \in UnmaskedFrame
       PROVE  Goto(pc) \in Stacks
  BY <1>18, GotoTop, GotoProperties
<1>19. CASE SplhighDaifset
  <2>1. [Call EXCEPT !.pc = "curspl"] \in UnmaskedFrame
    BY <1>19, CallTypes DEF SplhighDaifset, At, In, Call, UnmaskedFrame, SplhighFrame
  <2> QED  BY <1>1, <1>2, <1>18, <1>19, <2>1 DEF SplhighDaifset, At, In
<1>20. CASE SplhighCurspl
  BY <1>1, <1>2, <1>9, <1>20 DEF SplhighCurspl, At, In, Level
<1>21. CASE StartNext \/ StartPrev \/ StartHead
  <2>1. Call \in StartFrame /\ stack[curtask] # <<>>
    BY <1>21, CallTypes DEF StartNext, StartPrev, StartHead, At, In, Call
  <2>2. \A pc \in {"prev", "head", "pcb"} : [Call EXCEPT !.pc = pc] \in UnmaskedFrame
    BY <2>1 DEF StartFrame, UnmaskedFrame
  <2>3. stack' \in Stacks
    BY <1>18, <1>21, <2>1, <2>2 DEF StartNext, StartPrev, StartHead
  <2>4. links' \in Links
    <3>1. Call.task \in Task
      BY <2>1 DEF StartFrame
    <3>2. CASE StartNext
      BY <1>1, <3>1, <3>2 DEF StartNext, Links, Pointer, Lists
    <3>3. CASE StartPrev
      BY <1>1, <3>1, <3>3 DEF StartPrev, Links, Pointer, Lists
    <3>4. CASE StartHead
      BY <1>1, <3>1, <3>4 DEF StartHead, Links, Pointer, Lists
    <3> QED  BY <1>21, <3>2, <3>3, <3>4
  <2>5. UNCHANGED <<curtask, curspl, daif, spl, state, level, pending, halt>>
    BY <1>21 DEF StartNext, StartPrev, StartHead
  <2> QED  BY <2>3, <2>4, <2>5 DEF TypeOKUnmasked, UnmaskedFrame
<1>22. CASE StartPcb
  <2>1. stack' \in Stacks
    <3>1. <<Startup>> \in Seq(UnmaskedFrame)
      BY DEF UnmaskedFrame, Frame
    <3> QED  BY <1>9, <1>22, <3>1 DEF StartPcb, At, In
  <2> QED  BY <1>22, <2>1 DEF StartPcb, TypeOKUnmasked, UnmaskedFrame
<1>23. CASE SwitchScheduler
  <2>1. Call \in SwitchingFrame /\ stack[curtask] # <<>>
    BY <1>23, CallTypes DEF SwitchScheduler, At, In, Call
  <2>2. Scheduler(links) \in Pointer
    BY <1>1 DEF Scheduler, Links, Lists
  <2>3. [Call EXCEPT !.pc = "unlink", !.next = Scheduler(links)] \in UnmaskedFrame
    BY <2>1, <2>2 DEF SwitchingFrame, UnmaskedFrame
  <2>4. stack' \in Stacks
    BY <1>23, <2>1, <2>3, GotoTop, GotoProperties DEF SwitchScheduler
  <2> QED  BY <1>23, <2>4 DEF SwitchScheduler, TypeOKUnmasked, UnmaskedFrame
<1>24. CASE SwitchUnlink \/ SwitchPrev \/ SwitchNext \/ SwitchTail
  <2>1. Call \in SwitchingFrame /\ stack[curtask] # <<>>
    BY <1>24, CallTypes DEF SwitchUnlink, SwitchPrev, SwitchNext, SwitchTail, At, In, Call
  <2>2. \A pc \in {"prev", "next", "tail", "switch"} : [Call EXCEPT !.pc = pc] \in UnmaskedFrame
    BY <2>1 DEF SwitchingFrame, UnmaskedFrame
  <2>3. stack' \in Stacks
    BY <1>18, <1>24, <2>1, <2>2 DEF SwitchUnlink, SwitchPrev, SwitchNext, SwitchTail
  <2>4. Call.into \in Lists
    BY <2>1 DEF SwitchingFrame
  <2>5. links' \in Links
    <3>1. CASE SwitchUnlink
      BY <1>1, <3>1, LinksType DEF SwitchUnlink
    <3>2. CASE SwitchPrev
      BY <1>1, <2>4, <3>2 DEF SwitchPrev, Links, Pointer
    <3>3. CASE SwitchNext
      BY <1>1, <2>4, <3>3 DEF SwitchNext, Links, Pointer
    <3>4. CASE SwitchTail
      BY <1>1, <2>4, <3>4 DEF SwitchTail, Links, Pointer
    <3> QED  BY <1>24, <3>1, <3>2, <3>3, <3>4
  <2>6. UNCHANGED <<curtask, curspl, daif, spl, state, level, pending, halt>>
    BY <1>24 DEF SwitchUnlink, SwitchPrev, SwitchNext, SwitchTail
  <2> QED  BY <2>3, <2>5, <2>6 DEF TypeOKUnmasked, UnmaskedFrame
<1>25. CASE SwitchMasked
  <2>1. Call \in SwitchingFrame /\ stack[curtask] # <<>>
    BY <1>25, CallTypes DEF SwitchMasked, At, In, Call
  <2> DEFINE next == IF Call.next = NULL THEN curtask ELSE Call.next
  <2>2. next \in Task /\ Call.into \in Lists
    BY <1>1, <2>1 DEF SwitchingFrame, Pointer
  <2> HIDE DEF next
  <2>3. /\ links' = UnlinkFrom(links, next, "TS_READY") /\ curtask' = next
        /\ stack' = [stack EXCEPT ![curtask][1] = Suspended(Call.into, curspl)]
        /\ halt' \in {"no", "panic", "wild"} /\ Splhigh /\ UNCHANGED <<state, level, pending>>
    BY <1>25 DEF SwitchMasked, next, TypeOKUnmasked
  <2>4. links' \in Links
    BY <1>1, <2>2, <2>3, LinksType
  <2>5. stack' \in Stacks
    <3>1. Suspended(Call.into, curspl) \in UnmaskedFrame
      BY <1>1, <2>2 DEF Suspended, UnmaskedFrame, Frame, SwitchFrame
    <3> QED  BY <2>1, <2>3, <3>1, GotoProperties
  <2>6. daif' \in BOOLEAN /\ curspl' \in Level /\ spl' \in [Task -> Level]
    BY <1>1, <2>3 DEF Splhigh, Level
  <2> QED  BY <2>2, <2>3, <2>4, <2>5, <2>6 DEF TypeOKUnmasked, UnmaskedFrame
<1>26. CASE UNCHANGED vars
  BY <1>26 DEF vars, TypeOKUnmasked
<1> QED
  BY <1>3, <1>4, <1>5, <1>7, <1>8, <1>10, <1>11, <1>12, <1>13, <1>15, <1>16, <1>17, <1>19, <1>20,
     <1>21, <1>22, <1>23, <1>24, <1>25, <1>26 DEF NextUnmasked

(* Every variable keeps its type, whatever the calls that meet do to the    *)
(* lists.                                                                   *)
THEOREM TypeCorrectUnmasked == SpecUnmasked => []TypeOKUnmasked
  BY UnmaskedTypeInit, UnmaskedTypeStep, PTL DEF SpecUnmasked

-----------------------------------------------------------------------------
(***************************************************************************)
(* The stacks.                                                             *)
(***************************************************************************)
(* The calls that an interrupt can come in are the frames with these names. *)
LEMMA InterruptibleType ==
  ASSUME NEW k \in Interruptible
  PROVE  /\ k \in Seq(UnmaskedFrame)
         /\ k # <<>> => /\ k = <<Head(k)>> /\ Tail(k) = <<>>
                        /\ Head(k).at \in {"task_start", "switching", "splhigh"}
                        /\ Head(k) # Masking
<1>1. CASE k = <<>>
  BY <1>1
<1>2. ASSUME NEW c \in StartFrame \cup SwitchingFrame \cup (SplhighFrame \ {Masking}), k = <<c>>
      PROVE  /\ k \in Seq(UnmaskedFrame) /\ Head(k) = c /\ Tail(k) = <<>>
             /\ c.at \in {"task_start", "switching", "splhigh"} /\ c # Masking
  <2>1. c \in UnmaskedFrame
    BY DEF UnmaskedFrame
  <2>2. c.at \in {"task_start", "switching", "splhigh"}
    BY DEF StartFrame, SwitchingFrame, SplhighFrame
  <2>3. c # Masking
    BY DEF StartFrame, SwitchingFrame, Masking
  <2> QED  BY <1>2, <2>1, <2>2, <2>3
<1> QED  BY <1>1, <1>2 DEF Interruptible

(* The trap's frames on such a call. *)
LEMMA TrapProperties ==
  ASSUME NEW k \in Interruptible
  PROVE  /\ Trapped(k) \in Seq(UnmaskedFrame) /\ Trapped(k) # <<>>
         /\ Head(Trapped(k)) = Interrupt(0) /\ Tail(Trapped(k)) = k
         /\ Preempted(k) \in Seq(UnmaskedFrame) /\ Preempted(k) # <<>>
         /\ Head(Preempted(k)) = Suspended("TS_READY", 1) /\ Tail(Preempted(k)) = Trapped(k)
<1>1. Interrupt(0) \in UnmaskedFrame /\ Suspended("TS_READY", 1) \in UnmaskedFrame
  BY DEF Interrupt, Suspended, UnmaskedFrame, Frame, TrapFrame, SwitchFrame, Lists, Level
<1>2. k \in Seq(UnmaskedFrame)
  BY InterruptibleType
<1>3. /\ Trapped(k) \in Seq(UnmaskedFrame) /\ Trapped(k) # <<>>
      /\ Head(Trapped(k)) = Interrupt(0) /\ Tail(Trapped(k)) = k
  BY <1>1, <1>2, PushProperties DEF Trapped
<1> QED  BY <1>1, <1>3, PushProperties DEF Preempted, TrapLevel

(* The contexts by their innermost frame. *)
LEMMA ShapesUnmasked ==
  ASSUME NEW l \in Level, NEW s, IsContext(s, l), s # <<>>
  PROVE  /\ Head(s).at = "mi_task_startup" => s = <<Startup>> /\ Tail(s) = <<>>
         /\ Head(s).at = "aarch64_trapentry" =>
              l = 0 /\ Head(s).oldspl = 0 /\ Tail(s) \in Interruptible
         /\ Head(s).at = "mi_switch" =>
              \/ Head(s).spl = l /\ Tail(s) = <<>>
              \/ /\ l = 0 /\ Head(s).spl = 1
                 /\ \E k \in Interruptible : Tail(s) = Trapped(k)
         /\ Head(s).at \in {"task_start", "switching", "splhigh"} =>
              l = 0 /\ Tail(s) = <<>> /\ (s \in Interruptible \/ Head(s) = Masking)
         /\ Head(s).at \in {"mi_task_startup", "aarch64_trapentry", "mi_switch"} =>
              s \notin Interruptible
<1>0. Head(s).at \in {"mi_task_startup", "aarch64_trapentry", "mi_switch"} =>
        s \notin Interruptible
  BY InterruptibleType
<1>1. CASE s = <<Startup>>
  BY <1>0, <1>1 DEF Startup
<1>2. ASSUME NEW into \in Lists, s = <<Suspended(into, l)>>
      PROVE  Head(s).at = "mi_switch" /\ Head(s).spl = l /\ Tail(s) = <<>>
  BY <1>2 DEF Suspended
<1>3. CASE s = <<Masking>>
  <2>1. Head(s) = Masking /\ Tail(s) = <<>> /\ Masking.at = "splhigh"
    BY <1>3 DEF Masking
  <2>2. s # <<Startup>> /\ \A into \in Lists : s # <<Suspended(into, l)>>
    BY <2>1, <1>2 DEF Startup
  <2>3. l = 0
    BY <2>2 DEF IsContext
  <2> QED  BY <2>1, <2>3
<1>4. ASSUME NEW k \in Interruptible, s = k
      PROVE  Head(s).at \in {"task_start", "switching", "splhigh"} /\ Tail(s) = <<>>
  BY <1>4, InterruptibleType
<1>5. ASSUME NEW k \in Interruptible, s = Trapped(k)
      PROVE  Head(s).at = "aarch64_trapentry" /\ Head(s).oldspl = 0 /\ Tail(s) = k
  BY <1>5, TrapProperties DEF Interrupt
<1>6. ASSUME NEW k \in Interruptible, s = Preempted(k)
      PROVE  Head(s).at = "mi_switch" /\ Head(s).spl = 1 /\ Tail(s) = Trapped(k)
  BY <1>6, TrapProperties DEF Suspended
<1> QED  BY <1>0, <1>1, <1>2, <1>3, <1>4, <1>5, <1>6 DEF IsContext

(* What is being started does not depend on the other frames. *)
LEMMA StartsPush ==
  ASSUME NEW f \in UnmaskedFrame, NEW s \in Seq(UnmaskedFrame)
  PROVE  Starts(Push(f, s)) = Starts(s) \cup IF f.at = "task_start" THEN {f.task} ELSE {}
<1>1. ToSet(Push(f, s)) = {f} \cup ToSet(s)
  BY PushProperties
<1> QED  BY <1>1 DEF Starts

LEMMA StartsNone == Starts(<<>>) = {}
<1>1. ToSet(<<>>) = {}
  BY DEF ToSet
<1> QED  BY <1>1 DEF Starts

-----------------------------------------------------------------------------
(***************************************************************************)
(* The invariant, by the kinds of steps.                                   *)
(***************************************************************************)
(* The running task goes on. *)
LEMMA GoesOnInv ==
  ASSUME TypeOKUnmasked, StacksInv, NEW s, NEW l \in Level,
         curtask' = curtask, stack' = [stack EXCEPT ![curtask] = s],
         level' = [level EXCEPT ![curtask] = l],
         IsContext(s, l), s # <<Startup>>, Starts(s) \subseteq Starts(stack[curtask])
  PROVE  StacksInv'
<1>1. /\ curtask \in Task /\ stack'[curtask] = s /\ level'[curtask] = l
      /\ \A t \in Task \ {curtask} : stack'[t] = stack[t] /\ level'[t] = level[t]
  BY DEF TypeOKUnmasked
<1>2. ContextsUnmasked'
  BY <1>1 DEF StacksInv, ContextsUnmasked
<1>3. Waiting' /\ NewLevels'
  BY <1>1 DEF StacksInv, Waiting, NewLevels
<1>4. StartsApart'
  <2>1. \A u \in Task : Starts(stack'[u]) \subseteq Starts(stack[u])
    BY <1>1
  <2> QED  BY <1>1, <2>1 DEF StacksInv, StartsApart
<1> QED  BY <1>2, <1>3, <1>4 DEF StacksInv

(* The processor goes to a task that has a context, with interrupts masked. *)
LEMMA SwitchesInv ==
  ASSUME TypeOKUnmasked, StacksInv, NEW s, NEW n \in Task,
         curtask' = n, stack' = [stack EXCEPT ![curtask] = s], level' = level, daif' = TRUE,
         IsContext(s, level[curtask]), s # <<>>, Head(s).at = "mi_switch",
         Starts(s) \subseteq Starts(stack[curtask]),
         stack'[n] # <<>>
  PROVE  StacksInv' /\ RunningLevels'
<1>1. /\ curtask \in Task /\ stack'[curtask] = s
      /\ \A t \in Task \ {curtask} : stack'[t] = stack[t]
  BY DEF TypeOKUnmasked
<1>2. s # <<Startup>>
  BY DEF Startup
<1>3. ContextsUnmasked' /\ NewLevels'
  BY <1>1, <1>2 DEF StacksInv, ContextsUnmasked, NewLevels
<1>4. \A t \in Task : Waits(stack'[t])
  BY <1>1 DEF StacksInv, Waiting, Waits
<1>5. StartsApart'
  <2>1. \A u \in Task : Starts(stack'[u]) \subseteq Starts(stack[u])
    BY <1>1
  <2> QED  BY <1>1, <2>1 DEF StacksInv, StartsApart
<1>6. RunningLevels'
  <2>1. stack'[n] \notin Interruptible
    <3>1. Head(<<Startup>>).at = "mi_task_startup"
      BY DEF Startup
    <3> QED  BY <1>4, <3>1, InterruptibleType DEF Waits
  <2> QED  BY <2>1 DEF RunningLevels
<1> QED  BY <1>3, <1>4, <1>5, <1>6 DEF StacksInv, Waiting

(* The running task is in a call that an interrupt can come in. *)
LEMMA CallsInv ==
  ASSUME TypeOKUnmasked, StacksInv, NEW f \in StartFrame \cup SwitchingFrame \cup SplhighFrame,
         f # Masking, level[curtask] = 0, curspl = 0, spl[curtask] = 0, ~daif,
         stack' = [stack EXCEPT ![curtask] = <<f>>],
         UNCHANGED <<curtask, level, curspl, spl, daif>>
  PROVE  /\ Starts(<<f>>) \subseteq Starts(stack[curtask]) => StacksInv'
         /\ RunningLevels' /\ ContextsUnmasked' /\ Waiting' /\ NewLevels'
<1>1. <<f>> \in Interruptible /\ <<f>> # <<>> /\ <<f>> # <<Startup>>
  <2>1. <<f>> \in Interruptible
    BY DEF Interruptible
  <2> QED  BY <2>1, InterruptibleType DEF Startup
<1>2. IsContext(<<f>>, 0) /\ 0 \in Level
  BY <1>1 DEF IsContext, Level
<1>3. curtask \in Task /\ level' = [level EXCEPT ![curtask] = 0]
  BY DEF TypeOKUnmasked
<1>4. Starts(<<f>>) \subseteq Starts(stack[curtask]) => StacksInv'
  BY <1>1, <1>2, <1>3, GoesOnInv
<1>5. /\ stack'[curtask] = <<f>>
      /\ \A t \in Task \ {curtask} : stack'[t] = stack[t]
  BY <1>3 DEF TypeOKUnmasked
<1>6. RunningLevels'
  BY <1>1, <1>5 DEF RunningLevels
<1>7. ContextsUnmasked' /\ Waiting' /\ NewLevels'
  BY <1>1, <1>2, <1>5 DEF StacksInv, ContextsUnmasked, Waiting, NewLevels
<1> QED  BY <1>4, <1>6, <1>7

(* One statement of such a call: only the program counter moves. *)
LEMMA StatementInv ==
  ASSUME TypeOKUnmasked, StacksInv, RunningLevels, stack[curtask] # <<>>,
         Call.at \in {"task_start", "switching"},
         NEW f \in UnmaskedFrame, f.at = Call.at, f.at = "task_start" => f.task = Call.task,
         stack' = [stack EXCEPT ![curtask][1] = f],
         UNCHANGED <<curtask, level, curspl, spl, daif>>
  PROVE  StacksInv' /\ RunningLevels'
<1>1. curtask \in Task /\ level[curtask] \in Level /\ IsContext(stack[curtask], level[curtask])
  BY DEF TypeOKUnmasked, StacksInv, ContextsUnmasked
<1>2. Head(stack[curtask]) = Call /\ Call # Masking
  BY DEF Call, Top, Masking
<1>3. /\ level[curtask] = 0 /\ Tail(stack[curtask]) = <<>> /\ stack[curtask] \in Interruptible
  BY <1>1, <1>2, ShapesUnmasked
<1>4. curspl = 0 /\ spl[curtask] = 0 /\ ~daif
  BY <1>3 DEF RunningLevels
<1>5. f \in StartFrame \cup SwitchingFrame /\ f # Masking
  BY DEF UnmaskedFrame, Frame, SwitchFrame, TrapFrame, Startup, StartFrame, SwitchingFrame,
    SplhighFrame, Masking
<1>6. /\ <<f>> = Push(f, <<>>) /\ stack[curtask] = Push(Call, <<>>)
      /\ Call \in UnmaskedFrame /\ <<>> \in Seq(UnmaskedFrame)
  <2>1. stack[curtask] = Push(Call, Tail(stack[curtask])) /\ Call \in UnmaskedFrame
    BY CallTypes
  <2>2. <<f>> \o <<>> = <<f>> /\ <<>> \in Seq(UnmaskedFrame)
    OBVIOUS
  <2>3. <<f>> = Push(f, <<>>)
    BY <2>2 DEF Push
  <2>4. stack[curtask] = Push(Call, <<>>)
    BY <1>3, <2>1
  <2> QED  BY <2>1, <2>2, <2>3, <2>4
<1>7. stack' = [stack EXCEPT ![curtask] = <<f>>]
  BY <1>3, <1>6, GotoProperties
<1>8. Starts(<<f>>) \subseteq Starts(stack[curtask])
  BY <1>6, StartsPush
<1> QED  BY <1>3, <1>4, <1>5, <1>7, <1>8, CallsInv

LEMMA UnmaskedInit == Init => UnmaskedInv
<1> SUFFICES ASSUME Init PROVE UnmaskedInv
  OBVIOUS
<1>1. \A t \in Task : stack[t] = <<>> /\ level[t] = 0 /\ spl[t] = 0
  BY DEF Init
<1>2. StacksInv
  BY <1>1, StartsNone DEF StacksInv, ContextsUnmasked, IsContext, Waiting, Waits, NewLevels,
    StartsApart
<1>3. RunningLevels
  BY <1>1, MainAssumption DEF Init, RunningLevels, Interruptible
<1> QED  BY <1>2, <1>3, UnmaskedTypeInit DEF UnmaskedInv

(* The steps of a task that has interrupts masked, and the ends of a switch *)
(* and of a trap.                                                           *)
LEMMA MaskedStep ==
  ASSUME TypeOKUnmasked, StacksInv, RunningLevels, halt = "no", halt' = "no",
         \/ \E s \in Level : SetLevelMasked(s)
         \/ \E t \in Task : TaskStartMasked(t) \/ TaskNew(t)
         \/ MiTaskStartup \/ SwitchReturn \/ TimerExpire \/ TrapReturn
  PROVE  StacksInv' /\ RunningLevels'
<1> DEFINE c == curtask
<1>0. /\ c \in Task /\ level[c] \in Level /\ IsContext(stack[c], level[c])
      /\ stack \in [Task -> Seq(UnmaskedFrame)] /\ spl \in [Task -> Level]
      /\ level = [level EXCEPT ![c] = level[c]]
      /\ Starts(<<>>) = {} /\ <<>> # <<Startup>> /\ \A l \in Level : IsContext(<<>>, l)
  BY StartsNone DEF TypeOKUnmasked, UnmaskedFrame, StacksInv, ContextsUnmasked, IsContext
<1>1. ASSUME NEW s \in Level, SetLevelMasked(s) PROVE StacksInv' /\ RunningLevels'
  <2>1. /\ stack[c] = <<>> /\ stack' = [stack EXCEPT ![c] = <<>>] /\ curtask' = c
        /\ level' = [level EXCEPT ![c] = s] /\ Splx(s)
    BY <1>0, <1>1 DEF SetLevelMasked, SetLevel, InBody
  <2>2. curspl' = s /\ spl'[c] = s /\ (daif' <=> s = 1)
    BY <1>0, <2>1 DEF Splx, Splhigh, Spl0, Level
  <2>3. RunningLevels'
    BY <1>0, <2>1, <2>2 DEF RunningLevels, Interruptible, TypeOKUnmasked
  <2> QED  BY <1>0, <2>1, <2>3, GoesOnInv
<1>2. ASSUME NEW t \in Task, TaskStartMasked(t) PROVE StacksInv' /\ RunningLevels'
  <2>1. /\ t # c /\ stack[t] = <<>> /\ stack[c] = <<>>
        /\ stack' = [stack EXCEPT ![t] = <<Startup>>]
        /\ \A u \in Task : t \notin Starts(stack[u])
        /\ UNCHANGED <<curtask, curspl, daif, spl, level>>
    BY <1>2 DEF TaskStartMasked, TaskStart, New, InBody, Starting, Starts
  <2>2. stack'[t] = <<Startup>> /\ \A u \in Task \ {t} : stack'[u] = stack[u]
    BY <1>0, <2>1
  <2>3. Starts(<<Startup>>) = {}
    <3>1. ToSet(<<Startup>>) = {Startup}
      BY DEF ToSet
    <3> QED  BY <3>1 DEF Starts, Startup
  <2>4. ContextsUnmasked' /\ Waiting' /\ NewLevels'
    BY <2>1, <2>2 DEF StacksInv, ContextsUnmasked, IsContext, Waiting, Waits, NewLevels
  <2>5. StartsApart'
    BY <2>1, <2>2, <2>3 DEF StacksInv, StartsApart
  <2>6. RunningLevels'
    BY <1>0, <2>1, <2>2 DEF RunningLevels
  <2> QED  BY <2>4, <2>5, <2>6 DEF StacksInv
<1>3. ASSUME UNCHANGED <<curtask, curspl, daif, spl, stack, level>>
      PROVE  StacksInv' /\ RunningLevels'
  BY <1>3 DEF StacksInv, ContextsUnmasked, Waiting, NewLevels, StartsApart, RunningLevels
<1>4. ASSUME NEW t \in Task, TaskNew(t) PROVE StacksInv' /\ RunningLevels'
  BY <1>3, <1>4 DEF TaskNew
<1>5. CASE TimerExpire
  BY <1>3, <1>5 DEF TimerExpire
<1>6. ASSUME stack[c] # <<>>
      PROVE  Starts(Tail(stack[c])) \subseteq Starts(stack[c])
  <2>1. /\ stack[c] = Push(Call, Tail(stack[c])) /\ Call \in UnmaskedFrame
        /\ Tail(stack[c]) \in Seq(UnmaskedFrame)
    BY <1>6, CallTypes
  <2>2. Starts(Tail(stack[c])) \subseteq Starts(Push(Call, Tail(stack[c])))
    BY <2>1, StartsPush
  <2> QED  BY <2>1, <2>2
<1>7. CASE MiTaskStartup
  <2>1. stack[c] = <<Startup>> /\ stack' = [stack EXCEPT ![c] = <<>>] /\ curtask' = c
    <3>1. /\ stack[c] # <<>> /\ Head(stack[c]).at = "mi_task_startup"
          /\ stack' = [stack EXCEPT ![c] = Tail(stack[c])] /\ curtask' = c
      BY <1>7 DEF MiTaskStartup, In, Top, Pop
    <3>2. stack[c] = <<Startup>> /\ Tail(stack[c]) = <<>>
      BY <1>0, <3>1, ShapesUnmasked
    <3> QED  BY ONLY <3>1, <3>2
  <2>2. level[c] = 0 /\ level' = level
    BY <1>0, <1>7, <2>1 DEF StacksInv, NewLevels, MiTaskStartup
  <2>3. RunningLevels'
    BY <1>0, <1>7, <2>1, <2>2 DEF RunningLevels, MiTaskStartup, Spl0, Interruptible
  <2> QED  BY <1>0, <2>1, <2>2, <2>3, GoesOnInv
<1>8. CASE SwitchReturn
  <2> DEFINE rest == Tail(stack[c])
  <2>1. /\ stack[c] # <<>> /\ Head(stack[c]).at = "mi_switch"
        /\ stack' = [stack EXCEPT ![c] = rest]
        /\ Splx(Head(stack[c]).spl) /\ UNCHANGED <<curtask, level>>
    BY <1>8 DEF SwitchReturn, In, Top, Pop
  <2>2. stack'[c] = rest
    BY <1>0, <2>1
  <2>3. \/ Head(stack[c]).spl = level[c] /\ rest = <<>>
        \/ /\ level[c] = 0 /\ Head(stack[c]).spl = 1
           /\ \E k \in Interruptible : rest = Trapped(k)
    BY <1>0, <2>1, ShapesUnmasked
  <2> HIDE DEF rest
  <2>4. CASE Head(stack[c]).spl = level[c] /\ rest = <<>>
    <3>1. curspl' = level[c] /\ spl'[c] = level[c] /\ (daif' <=> level[c] = 1)
      BY <1>0, <2>1, <2>4 DEF Splx, Splhigh, Spl0, Level
    <3>2. RunningLevels'
      BY <2>1, <2>2, <2>4, <3>1 DEF RunningLevels, Interruptible
    <3> QED  BY <1>0, <2>1, <2>4, <3>2, GoesOnInv
  <2>5. ASSUME level[c] = 0, Head(stack[c]).spl = 1, NEW k \in Interruptible, rest = Trapped(k)
        PROVE  StacksInv' /\ RunningLevels'
    <3>1. /\ IsContext(rest, 0) /\ rest # <<>> /\ Head(rest).at = "aarch64_trapentry"
      BY <2>5, TrapProperties DEF IsContext, Interrupt
    <3>2. rest # <<Startup>> /\ rest \notin Interruptible
      BY <3>1, InterruptibleType DEF Startup
    <3>3. daif' = TRUE
      BY <2>1, <2>5 DEF Splx, Splhigh
    <3>4. RunningLevels'
      BY <2>1, <2>2, <3>1, <3>2, <3>3 DEF RunningLevels
    <3>5. Starts(rest) \subseteq Starts(stack[c])
      BY <1>6, <2>1 DEF rest
    <3> QED  BY <1>0, <2>1, <2>5, <3>1, <3>2, <3>4, <3>5, GoesOnInv
  <2> QED  BY <2>3, <2>4, <2>5
<1>9. CASE TrapReturn
  <2> DEFINE rest == Tail(stack[c])
  <2>1. /\ stack[c] # <<>> /\ Head(stack[c]).at = "aarch64_trapentry"
        /\ stack' = [stack EXCEPT ![c] = rest]
        /\ spl' = [spl EXCEPT ![c] = Head(stack[c]).oldspl] /\ curspl' = Head(stack[c]).oldspl
        /\ daif' = FALSE /\ UNCHANGED <<curtask, level>>
    BY <1>9 DEF TrapReturn, In, Top, Pop
  <2>2. level[c] = 0 /\ Head(stack[c]).oldspl = 0 /\ rest \in Interruptible
    BY <1>0, <2>1, ShapesUnmasked
  <2>3. stack'[c] = rest /\ spl'[c] = 0 /\ Starts(rest) \subseteq Starts(stack[c])
    BY <1>0, <1>6, <2>1, <2>2
  <2> HIDE DEF rest
  <2>4. IsContext(rest, 0) /\ rest # <<Startup>>
    BY <2>2, InterruptibleType DEF IsContext, Startup
  <2>5. RunningLevels'
    BY <2>1, <2>2, <2>3 DEF RunningLevels
  <2> QED  BY <1>0, <2>1, <2>2, <2>3, <2>4, <2>5, GoesOnInv
<1> QED  BY <1>1, <1>2, <1>4, <1>5, <1>7, <1>8, <1>9

(* The processor is taken from a task, or a task gives it up. *)
LEMMA SwitchStep ==
  ASSUME TypeOKUnmasked, StacksInv, RunningLevels, halt = "no", halt' = "no",
         TaskYield \/ TaskExit \/ TimerIrq \/ SwitchMasked
  PROVE  StacksInv' /\ RunningLevels'
<1> DEFINE c == curtask
<1>0. /\ c \in Task /\ level[c] \in Level /\ IsContext(stack[c], level[c])
      /\ stack \in [Task -> Seq(UnmaskedFrame)] /\ curspl \in Level
  BY DEF TypeOKUnmasked, UnmaskedFrame, StacksInv, ContextsUnmasked
<1>1. curtask' \in Task
  <2>1. TypeOKUnmasked'
    BY UnmaskedTypeStep DEF NextUnmasked
  <2> QED  BY <2>1 DEF TypeOKUnmasked
<1>2. ASSUME NEW into \in Lists, NEW l \in Level, l = level[c],
             stack' = [stack EXCEPT ![c] = <<Suspended(into, l)>>],
             level' = level, daif' = TRUE, stack'[curtask'] # <<>>
      PROVE  StacksInv' /\ RunningLevels'
  <2> DEFINE s == <<Suspended(into, l)>>
  <2>1. IsContext(s, level[c]) /\ s # <<>> /\ Head(s).at = "mi_switch"
    BY <1>2 DEF IsContext, Suspended
  <2>2. Starts(s) = {}
    <3>1. ToSet(s) = {Suspended(into, l)}
      BY DEF ToSet
    <3> QED  BY <3>1 DEF Starts, Suspended
  <2> HIDE DEF s
  <2>3. stack' = [stack EXCEPT ![c] = s]
    BY <1>2 DEF s
  <2>4. \A n \in Task : curtask' = n => StacksInv' /\ RunningLevels'
    BY <1>2, <2>1, <2>2, <2>3, SwitchesInv
  <2> QED  BY <1>1, <2>4
<1>3. ASSUME NEW into \in Lists, InBody, MiSwitch(into, curspl, <<>>), level' = level
      PROVE  StacksInv' /\ RunningLevels'
  <2>1. stack[c] = <<>> /\ curspl = level[c]
    BY <1>3 DEF InBody, RunningLevels
  <2>2. <<Suspended(into, curspl)>> \o <<>> \o stack[c] = <<Suspended(into, curspl)>>
    BY <2>1
  <2>3. /\ stack' = [stack EXCEPT ![c] = <<Suspended(into, curspl)>>] /\ daif' = TRUE
        /\ stack'[curtask'] # <<>>
    BY <1>3, <2>2 DEF MiSwitch, Splhigh
  <2> QED  BY <1>0, <1>2, <1>3, <2>1, <2>3
<1>4. CASE TaskYield \/ TaskExit
  BY <1>3, <1>4 DEF TaskYield, TaskExit, Lists
<1>5. CASE TimerIrq
  <2>1. stack[c] \in Interruptible /\ ~daif
    BY <1>5 DEF TimerIrq, Interrupted, RunningLevels
  <2>2. level[c] = 0 /\ spl[c] = 0
    <3>1. CASE stack[c] = <<>>
      BY <1>0, <2>1, <3>1 DEF RunningLevels, Level
    <3>2. CASE stack[c] # <<>>
      BY <1>0, <2>1, <3>2, InterruptibleType, ShapesUnmasked DEF RunningLevels
    <3> QED  BY <3>1, <3>2
  <2> DEFINE k == stack[c]
             s == Preempted(k)
             f == Suspended("TS_READY", TrapLevel)
  <2>3. k \in Seq(UnmaskedFrame) /\ f \in UnmaskedFrame /\ Interrupt(0) \in UnmaskedFrame
    BY <2>1, InterruptibleType DEF Interrupt, Suspended, TrapLevel, UnmaskedFrame, Frame,
      TrapFrame, SwitchFrame, Lists, Level
  <2>4. stack' = [stack EXCEPT ![c] = s]
    <3>1. stack' = [stack EXCEPT ![c] = <<f>> \o <<Interrupt(0)>> \o k]
      BY <1>5, <2>2 DEF TimerIrq, MiSwitch
    <3>2. <<f>> \in Seq(UnmaskedFrame) /\ <<Interrupt(0)>> \in Seq(UnmaskedFrame)
      BY <2>3
    <3>3. <<f>> \o <<Interrupt(0)>> \o k = <<f>> \o (<<Interrupt(0)>> \o k)
      BY <2>3, <3>2, ConcatAssociative
    <3> QED  BY <3>1, <3>3 DEF Preempted, Trapped, Push
  <2>5. IsContext(s, level[c]) /\ s # <<>> /\ Head(s).at = "mi_switch"
    BY <2>1, <2>2, TrapProperties DEF IsContext, Suspended
  <2>6. Starts(s) = Starts(k)
    <3>1. Interrupt(0).at # "task_start" /\ f.at # "task_start"
      BY DEF Interrupt, Suspended
    <3>2. Starts(Trapped(k)) = Starts(k)
      BY <2>3, <3>1, StartsPush DEF Trapped
    <3>3. Trapped(k) \in Seq(UnmaskedFrame)
      BY <2>1, TrapProperties
    <3> QED  BY <2>3, <3>1, <3>2, <3>3, StartsPush DEF Preempted
  <2>7. daif' = TRUE /\ level' = level /\ stack'[curtask'] # <<>>
    BY <1>5 DEF TimerIrq, MiSwitch, Splhigh
  <2> HIDE DEF s
  <2>8. \A n \in Task : curtask' = n => StacksInv' /\ RunningLevels'
    BY <2>4, <2>5, <2>6, <2>7, SwitchesInv
  <2> QED  BY <1>1, <2>8
<1>6. CASE SwitchMasked
  <2>1. /\ stack[c] # <<>> /\ Call.at = "switching"
        /\ stack' = [stack EXCEPT ![c][1] = Suspended(Call.into, curspl)]
        /\ daif' = TRUE /\ level' = level /\ stack'[curtask'] # <<>>
    BY <1>6 DEF SwitchMasked, At, In, Call, Splhigh
  <2>2. Call.into \in Lists
    BY <2>1, CallTypes DEF SwitchingFrame
  <2>3. Head(stack[c]) = Call /\ Call # Masking
    BY <2>1 DEF Call, Top, Masking
  <2>4. level[c] = 0 /\ Tail(stack[c]) = <<>> /\ stack[c] \in Interruptible
    BY <1>0, <2>1, <2>3, ShapesUnmasked
  <2>5. curspl = 0
    BY <2>1, <2>4 DEF RunningLevels
  <2>6. stack' = [stack EXCEPT ![c] = <<Suspended(Call.into, curspl)>>]
    <3> DEFINE f == Suspended(Call.into, curspl)
    <3>1. f \in UnmaskedFrame
      BY <1>0, <2>2 DEF Suspended, UnmaskedFrame, Frame, SwitchFrame
    <3>2. [stack EXCEPT ![c][1] = f] = [stack EXCEPT ![c] = Push(f, <<>>)]
      BY <2>1, <2>4, <3>1, GotoProperties
    <3>3. Push(f, <<>>) = <<f>>
      BY DEF Push
    <3> QED  BY <2>1, <3>2, <3>3
  <2> QED  BY <1>0, <1>2, <2>1, <2>2, <2>4, <2>5, <2>6
<1> QED  BY <1>4, <1>5, <1>6

(* The statements of the calls that are made with interrupts enabled. *)
LEMMA CallStep ==
  ASSUME TypeOKUnmasked, StacksInv, RunningLevels, halt = "no", halt' = "no",
         \/ BeginSplhigh \/ SplhighDaifset \/ SplhighCurspl
         \/ \E t \in Task : BeginStart(t)
         \/ StartNext \/ StartPrev \/ StartHead \/ StartPcb
         \/ \E into \in Lists : BeginSwitch(into)
         \/ SwitchScheduler \/ SwitchUnlink \/ SwitchPrev \/ SwitchNext \/ SwitchTail
  PROVE  StacksInv' /\ RunningLevels'
<1> DEFINE c == curtask
<1>0. /\ c \in Task /\ level[c] \in Level /\ IsContext(stack[c], level[c])
      /\ stack \in [Task -> Seq(UnmaskedFrame)] /\ spl \in [Task -> Level]
      /\ level \in [Task -> Level]
  BY DEF TypeOKUnmasked, UnmaskedFrame, StacksInv, ContextsUnmasked
<1>1. ASSUME Calls
      PROVE  stack[c] = <<>> /\ level[c] = 0 /\ curspl = 0 /\ spl[c] = 0 /\ ~daif
  BY <1>1 DEF Calls, InBody, RunningLevels
<1>2. ASSUME NEW f \in UnmaskedFrame, stack[c] = <<>>
      PROVE  Enter(f) = [stack EXCEPT ![c] = <<f>>]
  <2>1. Push(f, <<>>) = <<f>>
    BY DEF Push
  <2> QED  BY <1>2, <2>1, EnterProperties
<1>3. ASSUME NEW f, f.at # "task_start" PROVE Starts(<<f>>) = {}
  <2>1. ToSet(<<f>>) = {f}
    BY DEF ToSet
  <2> QED  BY <1>3, <2>1 DEF Starts
<1>4. CASE BeginSplhigh
  <2> DEFINE f == [at |-> "splhigh", pc |-> "daifset"]
  <2>1. f \in SplhighFrame /\ f \in UnmaskedFrame /\ f # Masking /\ f.at # "task_start"
    BY DEF SplhighFrame, UnmaskedFrame, Masking
  <2>2. Calls /\ stack' = Enter(f) /\ UNCHANGED <<curtask, level, curspl, spl, daif>>
    BY <1>4 DEF BeginSplhigh
  <2> HIDE DEF f
  <2> QED  BY <1>1, <1>2, <1>3, <2>1, <2>2, CallsInv
<1>5. ASSUME NEW into \in Lists, BeginSwitch(into) PROVE StacksInv' /\ RunningLevels'
  <2> DEFINE f == [at |-> "switching", pc |-> "scheduler", into |-> into, next |-> NULL]
  <2>1. f \in SwitchingFrame /\ f \in UnmaskedFrame /\ f # Masking /\ f.at # "task_start"
    BY DEF SwitchingFrame, UnmaskedFrame, Masking, Pointer
  <2>2. Calls /\ stack' = Enter(f) /\ UNCHANGED <<curtask, level, curspl, spl, daif>>
    BY <1>5 DEF BeginSwitch
  <2> HIDE DEF f
  <2> QED  BY <1>1, <1>2, <1>3, <2>1, <2>2, CallsInv
<1>6. ASSUME NEW t \in Task, BeginStart(t) PROVE StacksInv' /\ RunningLevels'
  <2> DEFINE f == [at |-> "task_start", pc |-> "next", task |-> t]
  <2>1. f \in StartFrame /\ f \in UnmaskedFrame /\ f # Masking
    BY DEF StartFrame, UnmaskedFrame, Masking
  <2>2. Starts(<<f>>) = {t}
    <3>1. ToSet(<<f>>) = {f}
      BY DEF ToSet
    <3> QED  BY <3>1 DEF Starts
  <2>3. /\ Calls /\ stack' = Enter(f) /\ UNCHANGED <<curtask, level, curspl, spl, daif>>
        /\ t # c /\ stack[t] = <<>> /\ \A u \in Task : t \notin Starts(stack[u])
    BY <1>6 DEF BeginStart, New, Starting, Starts
  <2> HIDE DEF f
  <2>4. stack' = [stack EXCEPT ![c] = <<f>>]
    BY <1>1, <1>2, <2>1, <2>3
  <2>5. RunningLevels' /\ ContextsUnmasked' /\ Waiting' /\ NewLevels'
    BY <1>1, <2>1, <2>3, <2>4, CallsInv
  <2>6. stack'[c] = <<f>> /\ \A u \in Task \ {c} : stack'[u] = stack[u]
    BY <1>0, <2>4
  <2>7. StartsApart'
    <3>1. Starts(stack'[c]) = {t} /\ \A u \in Task \ {c} : Starts(stack'[u]) = Starts(stack[u])
      BY <2>2, <2>6
    <3>2. ASSUME NEW u \in Task, NEW x \in Starts(stack'[u])
          PROVE  x \in Task \ {curtask'} /\ stack'[x] = <<>>
      <4>1. CASE u = c
        BY <2>3, <2>6, <3>1, <3>2, <4>1
      <4>2. CASE u # c
        <5>1. x \in Task \ {c} /\ stack[x] = <<>>
          BY <3>1, <3>2, <4>2 DEF StacksInv, StartsApart
        <5> QED  BY <2>3, <2>6, <5>1
      <4> QED  BY <4>1, <4>2
    <3>3. ASSUME NEW u \in Task, NEW v \in Task, u # v
          PROVE  Starts(stack'[u]) \cap Starts(stack'[v]) = {}
      <4>1. CASE u # c /\ v # c
        BY <3>1, <3>3, <4>1 DEF StacksInv, StartsApart
      <4>2. CASE u = c \/ v = c
        BY <2>3, <3>1, <3>3, <4>2
      <4> QED  BY <4>1, <4>2
    <3> QED  BY <3>2, <3>3 DEF StartsApart
  <2> QED  BY <2>5, <2>7 DEF StacksInv
<1>7. ASSUME stack[c] # <<>>, Call.at \in {"task_start", "switching"}, NEW pc,
             [Call EXCEPT !.pc = pc] \in UnmaskedFrame, stack' = Goto(pc),
             UNCHANGED <<curtask, level, curspl, spl, daif>>
      PROVE  StacksInv' /\ RunningLevels'
  <2>1. stack' = [stack EXCEPT ![c][1] = [Call EXCEPT !.pc = pc]]
    BY <1>7, GotoTop
  <2>2. /\ [Call EXCEPT !.pc = pc].at = Call.at
        /\ Call.at = "task_start" => [Call EXCEPT !.pc = pc].task = Call.task
    BY <1>7, CallTypes DEF StartFrame, SwitchingFrame
  <2> QED  BY <1>7, <2>1, <2>2, StatementInv
<1>8. CASE StartNext \/ StartPrev \/ StartHead
  <2>1. Call.at = "task_start" /\ stack[c] # <<>>
    BY <1>8 DEF StartNext, StartPrev, StartHead, At, In, Call
  <2>2. \A pc \in {"prev", "head", "pcb"} : [Call EXCEPT !.pc = pc] \in UnmaskedFrame
    BY <2>1, CallTypes DEF StartFrame, UnmaskedFrame
  <2>3. \E pc \in {"prev", "head", "pcb"} : stack' = Goto(pc)
    BY <1>8 DEF StartNext, StartPrev, StartHead
  <2>4. UNCHANGED <<curtask, level, curspl, spl, daif>>
    BY <1>8 DEF StartNext, StartPrev, StartHead
  <2> QED  BY <1>7, <2>1, <2>2, <2>3, <2>4
<1>9. CASE SwitchUnlink \/ SwitchPrev \/ SwitchNext \/ SwitchTail
  <2>1. Call.at = "switching" /\ stack[c] # <<>>
    BY <1>9 DEF SwitchUnlink, SwitchPrev, SwitchNext, SwitchTail, At, In, Call
  <2>2. \A pc \in {"prev", "next", "tail", "switch"} : [Call EXCEPT !.pc = pc] \in UnmaskedFrame
    BY <2>1, CallTypes DEF SwitchingFrame, UnmaskedFrame
  <2>3. \E pc \in {"prev", "next", "tail", "switch"} : stack' = Goto(pc)
    BY <1>9 DEF SwitchUnlink, SwitchPrev, SwitchNext, SwitchTail
  <2>4. UNCHANGED <<curtask, level, curspl, spl, daif>>
    BY <1>9 DEF SwitchUnlink, SwitchPrev, SwitchNext, SwitchTail
  <2> QED  BY <1>7, <2>1, <2>2, <2>3, <2>4
<1>10. CASE SwitchScheduler
  <2> DEFINE f == [Call EXCEPT !.pc = "unlink", !.next = Scheduler(links)]
  <2>1. Call.at = "switching" /\ stack[c] # <<>>
    BY <1>10 DEF SwitchScheduler, At, In, Call
  <2>2. Scheduler(links) \in Pointer
    BY DEF Scheduler, Links, Lists, TypeOKUnmasked
  <2>3. f \in UnmaskedFrame /\ f.at = "switching"
    BY <2>1, <2>2, CallTypes DEF SwitchingFrame, UnmaskedFrame
  <2>4. /\ stack' = [stack EXCEPT ![c][1] = f]
        /\ UNCHANGED <<curtask, level, curspl, spl, daif>>
    BY <1>10, <2>1, GotoTop DEF SwitchScheduler
  <2> HIDE DEF f
  <2> QED  BY <2>1, <2>3, <2>4, StatementInv
<1>11. CASE SplhighDaifset
  <2>1. Call.at = "splhigh" /\ Call.pc = "daifset" /\ stack[c] # <<>> /\ Head(stack[c]) = Call
    BY <1>11 DEF SplhighDaifset, At, In, Call, Top
  <2>2. level[c] = 0 /\ Tail(stack[c]) = <<>>
    BY <1>0, <2>1, ShapesUnmasked
  <2>3. [Call EXCEPT !.pc = "curspl"] = Masking
    BY <2>1, CallTypes DEF SplhighFrame, Masking
  <2>4. stack' = [stack EXCEPT ![c] = <<Masking>>]
    <3>1. Masking \in UnmaskedFrame
      BY DEF Masking, UnmaskedFrame, SplhighFrame
    <3>2. Push(Masking, <<>>) = <<Masking>>
      BY DEF Push
    <3>3. stack' = [stack EXCEPT ![c][1] = Masking]
      BY <1>11, <2>1, <2>3, GotoTop DEF SplhighDaifset
    <3> QED  BY <2>1, <2>2, <3>1, <3>2, <3>3, GotoProperties
  <2>5. /\ IsContext(<<Masking>>, 0) /\ <<Masking>> # <<Startup>>
        /\ <<Masking>> \notin Interruptible /\ Starts(<<Masking>>) = {}
    <3>1. Masking.at = "splhigh"
      BY DEF Masking
    <3> QED  BY <1>3, <3>1, InterruptibleType DEF IsContext, Startup
  <2>6. daif' = TRUE /\ curtask' = c /\ level' = [level EXCEPT ![c] = 0] /\ 0 \in Level
    BY <1>0, <1>11, <2>2 DEF SplhighDaifset, Level
  <2>7. RunningLevels'
    BY <1>0, <2>4, <2>5, <2>6 DEF RunningLevels
  <2> QED  BY <2>4, <2>5, <2>6, <2>7, GoesOnInv
<1>12. CASE SplhighCurspl
  <2>1. /\ Call.at = "splhigh" /\ Call.pc = "curspl" /\ stack[c] # <<>> /\ Head(stack[c]) = Call
    BY <1>12 DEF SplhighCurspl, At, In, Call, Top
  <2>2. Call = Masking
    BY <2>1, CallTypes DEF SplhighFrame, Masking
  <2>3. Tail(stack[c]) = <<>>
    BY <1>0, <2>1, ShapesUnmasked
  <2>4. daif
    <3>1. stack[c] \notin Interruptible
      BY <2>1, <2>2, InterruptibleType
    <3> QED  BY <3>1 DEF RunningLevels
  <2>5. /\ stack' = [stack EXCEPT ![c] = <<>>] /\ curtask' = c
        /\ level' = [level EXCEPT ![c] = 1] /\ 1 \in Level
        /\ curspl' = 1 /\ spl'[c] = 1 /\ daif' = daif
    BY <1>0, <1>12, <2>3 DEF SplhighCurspl, Pop, Level
  <2>6. RunningLevels'
    BY <1>0, <2>4, <2>5 DEF RunningLevels, Interruptible
  <2>7. IsContext(<<>>, 1) /\ <<>> # <<Startup>> /\ Starts(<<>>) = {}
    BY StartsNone DEF IsContext
  <2> QED  BY <2>5, <2>6, <2>7, GoesOnInv
<1>13. CASE StartPcb
  <2> DEFINE t == Call.task
  <2>1. Call.at = "task_start" /\ stack[c] # <<>> /\ Head(stack[c]) = Call /\ Call # Masking
    BY <1>13 DEF StartPcb, At, In, Call, Top, Masking
  <2>2. level[c] = 0 /\ Tail(stack[c]) = <<>> /\ stack[c] \in Interruptible
    BY <1>0, <2>1, ShapesUnmasked
  <2>3. curspl = 0 /\ spl[c] = 0 /\ ~daif
    BY <2>1, <2>2 DEF RunningLevels
  <2>4. t \in Starts(stack[c])
    <3>1. Call \in ToSet(stack[c])
      <4>1. stack[c] = Push(Call, <<>>) /\ Call \in UnmaskedFrame /\ <<>> \in Seq(UnmaskedFrame)
        BY <2>1, <2>2, CallTypes
      <4> QED  BY <4>1, PushProperties
    <3> QED  BY <2>1, <3>1 DEF Starts
  <2>5. /\ t \in Task \ {c} /\ stack[t] = <<>> /\ level[t] = 0
        /\ \A u \in Task \ {c} : t \notin Starts(stack[u])
    BY <1>0, <2>4 DEF StacksInv, StartsApart, NewLevels
  <2> HIDE DEF t
  <2>6. /\ stack' = [[stack EXCEPT ![c] = <<>>] EXCEPT ![t] = <<Startup>>]
        /\ UNCHANGED <<curtask, level, curspl, spl, daif>>
    BY <1>13, <2>2 DEF StartPcb, Pop, t
  <2>7. /\ stack'[c] = <<>> /\ stack'[t] = <<Startup>>
        /\ \A u \in Task \ {c, t} : stack'[u] = stack[u]
    BY <1>0, <2>5, <2>6
  <2>8. Starts(<<Startup>>) = {} /\ Starts(<<>>) = {}
    BY <1>3, StartsNone DEF Startup
  <2>9. ContextsUnmasked' /\ Waiting' /\ NewLevels'
    BY <2>2, <2>5, <2>6, <2>7 DEF StacksInv, ContextsUnmasked, IsContext, Waiting, Waits, NewLevels
  <2>10. StartsApart'
    <3>1. /\ Starts(stack'[c]) = {} /\ Starts(stack'[t]) = {}
          /\ \A u \in Task \ {c, t} : Starts(stack'[u]) = Starts(stack[u])
      BY <2>7, <2>8
    <3>2. \A u \in Task : Starts(stack'[u]) \subseteq Starts(stack[u])
      BY <3>1
    <3>3. ASSUME NEW u \in Task, NEW x \in Starts(stack'[u])
          PROVE  x \in Task \ {curtask'} /\ stack'[x] = <<>>
      <4>1. u # c /\ x \in Starts(stack[u])
        BY <3>1, <3>2, <3>3
      <4>2. x \in Task \ {c} /\ stack[x] = <<>> /\ x # t
        BY <2>5, <4>1 DEF StacksInv, StartsApart
      <4> QED  BY <2>6, <2>7, <4>2
    <3>4. ASSUME NEW u \in Task, NEW v \in Task, u # v
          PROVE  Starts(stack'[u]) \cap Starts(stack'[v]) = {}
      <4>1. Starts(stack[u]) \cap Starts(stack[v]) = {}
        BY <3>4 DEF StacksInv, StartsApart
      <4> QED  BY <3>2, <4>1
    <3> QED  BY <3>3, <3>4 DEF StartsApart
  <2>11. RunningLevels'
    BY <1>0, <2>2, <2>3, <2>6, <2>7 DEF RunningLevels, Interruptible
  <2> QED  BY <2>9, <2>10, <2>11 DEF StacksInv
<1> QED
  BY <1>4, <1>5, <1>6, <1>8, <1>9, <1>10, <1>11, <1>12, <1>13

LEMMA UnmaskedStep == UnmaskedInv /\ [NextUnmasked]_vars => UnmaskedInv'
<1> SUFFICES ASSUME UnmaskedInv, [NextUnmasked]_vars PROVE UnmaskedInv'
  OBVIOUS
<1>1. TypeOKUnmasked'
  BY UnmaskedTypeStep DEF UnmaskedInv
<1>2. ASSUME halt' = "no" PROVE StacksInv' /\ RunningLevels'
  <2>1. CASE UNCHANGED vars
    BY <1>2, <2>1 DEF UnmaskedInv, vars, StacksInv, ContextsUnmasked, Waiting, NewLevels,
      StartsApart, RunningLevels
  <2>2. CASE NextUnmasked
    <3>1. halt = "no"
      BY <2>2 DEF NextUnmasked, SetLevelMasked, SetLevel, TaskStartMasked, TaskStart, TaskYield,
        TaskExit, TaskNew, MiTaskStartup, SwitchReturn, TimerExpire, TimerIrq, TrapReturn,
        BeginSplhigh, SplhighDaifset, SplhighCurspl, BeginStart, StartNext, StartPrev, StartHead,
        StartPcb, BeginSwitch, SwitchScheduler, SwitchUnlink, SwitchPrev, SwitchNext, SwitchTail,
        SwitchMasked, At, In, Calls, InBody
    <3>2. TypeOKUnmasked /\ StacksInv /\ RunningLevels
      BY <3>1 DEF UnmaskedInv
    <3> QED  BY <1>2, <2>2, <3>1, <3>2, MaskedStep, SwitchStep, CallStep DEF NextUnmasked
  <2> QED  BY <2>1, <2>2
<1> QED  BY <1>1, <1>2 DEF UnmaskedInv

(* The interrupt levels survive every interleaving of the calls with the    *)
(* timer, whatever it does to the lists (spl.c:17-44, trap.c:93-96).        *)
THEOREM InterruptLevelsUnmaskedCorrect == SpecUnmasked => []InterruptLevelsUnmasked
<1>1. UnmaskedInv => InterruptLevelsUnmasked
  <2> SUFFICES ASSUME UnmaskedInv, halt = "no"
               PROVE  /\ ~daif => curspl = 0 /\ spl[curtask] = 0
                      /\ InBody => /\ curspl = level[curtask] /\ spl[curtask] = level[curtask]
                                   /\ daif <=> level[curtask] = 1
                      /\ In("mi_switch") \/ In("mi_task_startup") \/ In("aarch64_trapentry") => daif
    BY DEF InterruptLevelsUnmasked
  <2>1. /\ RunningLevels /\ IsContext(stack[curtask], level[curtask]) /\ level[curtask] \in Level
    BY DEF UnmaskedInv, StacksInv, ContextsUnmasked, TypeOKUnmasked
  <2>2. ~daif => curspl = 0 /\ spl[curtask] = 0
    BY <2>1 DEF RunningLevels, Level
  <2>3. In("mi_switch") \/ In("mi_task_startup") \/ In("aarch64_trapentry") => daif
    <3>1. In("mi_switch") \/ In("mi_task_startup") \/ In("aarch64_trapentry") =>
            stack[curtask] \notin Interruptible
      BY <2>1, ShapesUnmasked DEF In, Top
    <3> QED  BY <2>1, <3>1 DEF RunningLevels
  <2> QED  BY <2>1, <2>2, <2>3 DEF RunningLevels, InBody
<1> QED  BY UnmaskedInit, UnmaskedStep, <1>1, PTL DEF SpecUnmasked
=============================================================================
