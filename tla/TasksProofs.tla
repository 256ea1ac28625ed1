----------------------------- MODULE TasksProofs -----------------------------
(***************************************************************************)
(* Theorems about Tasks, for every set of tasks.                           *)
(***************************************************************************)
EXTENDS Tasks, SequenceTheorems, TLAPS

-----------------------------------------------------------------------------
(* The list operations return links. *)
LEMMA LinksType ==
  ASSUME NEW L \in Links, NEW t \in Task
  PROVE  /\ \A l : UnlinkFrom(L, t, l) \in Links
         /\ \A l \in Lists : MoveHead(L, t, l) \in Links /\ MoveTail(L, t, l) \in Links
<1>1. ASSUME NEW M \in Links, NEW l PROVE UnlinkFrom(M, t, l) \in Links
  BY TaskAssumption DEF UnlinkFrom, Links, Pointer
<1>2. ASSUME NEW M \in Links, NEW l \in Lists
      PROVE  LinkHead(M, t, l) \in Links /\ LinkTail(M, t, l) \in Links
  BY DEF LinkHead, LinkTail, Links, Pointer
<1> QED  BY <1>1, <1>2 DEF MoveHead, MoveTail

(* Two frames pushed one by one. *)
LEMMA TwoFrames ==
  ASSUME NEW x, NEW y
  PROVE  /\ <<x>> \o <<y>> = <<x, y>>
         /\ Tail(<<x, y>>) = <<y>> /\ Head(<<x, y>>) = x
<1> DEFINE S == {x, y}
<1>1. <<x>> \in Seq(S) /\ <<y>> \in Seq(S) /\ <<x, y>> \in Seq(S)
  OBVIOUS
<1>2. <<x>> \o <<y>> \in Seq(S) /\ Len(<<x>> \o <<y>>) = 2 /\ Len(<<x, y>>) = 2
  BY <1>1, ConcatProperties
<1>3. \A i \in 1 .. 2 : (<<x>> \o <<y>>)[i] = <<x, y>>[i]
  BY <1>1, ConcatProperties
<1>4. <<x>> \o <<y>> = <<x, y>>
  BY <1>1, <1>2, <1>3, SeqEqual
<1> QED  BY <1>4

-----------------------------------------------------------------------------
(* The type of the state after a switch. *)
LEMMA MiSwitchType ==
  ASSUME TypeOK, NEW into \in Lists, NEW l \in Level, NEW below \in Seq(Frame),
         MiSwitch(into, l, below)
  PROVE  /\ links' \in Links /\ curtask' \in Task
         /\ curspl' \in Level /\ daif' \in BOOLEAN /\ spl' \in [Task -> Level]
         /\ stack' \in [Task -> Seq(Frame)]
         /\ halt' \in {"no", "panic", "wild"}
<1>1. Successor \in Task
  BY DEF Successor, Scheduler, TypeOK, Links, Pointer, Lists
<1>2. Descheduled(into) \in Links
  BY LinksType DEF Descheduled, TypeOK
<1>3. links' \in Links /\ curtask' \in Task
  BY <1>1, <1>2, LinksType DEF MiSwitch
<1>4. curspl' \in Level /\ daif' \in BOOLEAN /\ spl' \in [Task -> Level]
  BY DEF MiSwitch, Splhigh, TypeOK, Level
<1>5. stack' \in [Task -> Seq(Frame)]
  <2>1. Suspended(into, l) \in Frame
    BY DEF Suspended, Frame, SwitchFrame
  <2>2. <<Suspended(into, l)>> \o below \o stack[curtask] \in Seq(Frame)
    BY <2>1, ConcatProperties DEF TypeOK
  <2> QED  BY <2>2 DEF MiSwitch, TypeOK
<1>6. halt' \in {"no", "panic", "wild"}
  BY DEF MiSwitch, TypeOK
<1> QED  BY <1>3, <1>4, <1>5, <1>6

(* The type of the stacks after a return. *)
LEMMA PopType ==
  ASSUME TypeOK, stack[curtask] # <<>>
  PROVE  /\ Pop(curtask) \in [Task -> Seq(Frame)]
         /\ Top(curtask) \in Frame
<1>1. stack[curtask] \in Seq(Frame)
  BY DEF TypeOK
<1>2. Tail(stack[curtask]) \in Seq(Frame) /\ Head(stack[curtask]) \in Frame
  BY <1>1, HeadTailProperties
<1> QED  BY <1>2 DEF Pop, Top, TypeOK

LEMMA TypeInit == Init => TypeOK
<1> SUFFICES ASSUME Init PROVE TypeOK
  OBVIOUS
<1>1. links \in Links
  BY DEF Init, NoLinks, Links, Pointer
<1>2. stack \in [Task -> Seq(Frame)]
  BY DEF Init
<1> QED  BY <1>1, <1>2, MainAssumption DEF Init, TypeOK, Level

LEMMA TypeStep == TypeOK /\ [Next]_vars => TypeOK'
<1> SUFFICES ASSUME TypeOK, [Next]_vars PROVE TypeOK'
  OBVIOUS
<1>1. ASSUME NEW s \in Level, SetLevel(s) PROVE TypeOK'
  BY <1>1 DEF SetLevel, Splx, Splhigh, Spl0, TypeOK, Level
<1>2. ASSUME NEW t \in Task, TaskNew(t) PROVE TypeOK'
  BY <1>2 DEF TaskNew, TypeOK
<1>3. ASSUME NEW t \in Task, TaskStart(t) PROVE TypeOK'
  <2>1. links' \in Links
    BY <1>3, LinksType DEF TaskStart, TypeOK, Lists
  <2>2. stack' \in [Task -> Seq(Frame)]
    BY <1>3 DEF TaskStart, TypeOK, Frame
  <2> QED  BY <1>3, <2>1, <2>2 DEF TaskStart, TypeOK
<1>4. CASE TaskYield
  <2>1. MiSwitch("TS_READY", curspl, <<>>) /\ curspl \in Level /\ <<>> \in Seq(Frame)
    BY <1>4 DEF TaskYield, TypeOK
  <2> QED  BY <1>4, <2>1, MiSwitchType DEF TaskYield, TypeOK, Lists
<1>5. CASE TaskExit
  <2>1. MiSwitch("TS_ZOMBIE", curspl, <<>>) /\ curspl \in Level /\ <<>> \in Seq(Frame)
    BY <1>5 DEF TaskExit, TypeOK
  <2> QED  BY <1>5, <2>1, MiSwitchType DEF TaskExit, TypeOK, Lists
<1>6. CASE MiTaskStartup
  BY <1>6, PopType DEF MiTaskStartup, In, Spl0, TypeOK, Level
<1>7. CASE SwitchReturn
  BY <1>7, PopType DEF SwitchReturn, In, Splx, Splhigh, Spl0, TypeOK, Level
<1>8. CASE TimerExpire
  BY <1>8 DEF TimerExpire, TypeOK
<1>9. CASE TimerIrq
  <2> DEFINE below == <<Interrupt(spl[curtask])>>
  <2>1. below \in Seq(Frame)
    BY DEF TypeOK, Frame, TrapFrame, Interrupt
  <2>2. MiSwitch("TS_READY", TrapLevel, below)
    BY <1>9 DEF TimerIrq
  <2>3. TrapLevel \in Level /\ "TS_READY" \in Lists
    BY DEF TrapLevel, Level, Lists
  <2> HIDE DEF below
  <2> QED  BY <1>9, <2>1, <2>2, <2>3, MiSwitchType DEF TimerIrq, TypeOK
<1>10. CASE TrapReturn
  <2>1. Top(curtask) \in Frame /\ Top(curtask).at = "aarch64_trapentry"
    BY <1>10, PopType DEF TrapReturn, In
  <2>2. Top(curtask).oldspl \in Level
    BY <2>1 DEF Frame, SwitchFrame, TrapFrame, Startup
  <2> QED  BY <1>10, <2>2, PopType DEF TrapReturn, In, TypeOK
<1>11. CASE UNCHANGED vars
  BY <1>11 DEF vars, TypeOK
<1> QED
  BY <1>1, <1>2, <1>3, <1>4, <1>5, <1>6, <1>7, <1>8, <1>9, <1>10, <1>11 DEF Next

(* Every variable keeps its type. *)
THEOREM TypeCorrect == Spec => []TypeOK
  BY TypeInit, TypeStep, PTL DEF Spec

-----------------------------------------------------------------------------
(***************************************************************************)
(* Interrupt levels.  A trap can only be taken in a task's own code, so a  *)
(* context has one of the shapes of Contexts, and what it saves is the     *)
(* level that is restored at its end.  The invariant that is inductive     *)
(* also says that a task which never ran has not changed its level.        *)
(***************************************************************************)
NewLevels ==
  \A t \in Task :
    stack[t] = <<Startup>> \/ (stack[t] = <<>> /\ t # curtask) => level[t] = 0

LevelInv == TypeOK /\ InterruptLevels /\ SavedContexts /\ NewLevels

(* The contexts by their innermost frame. *)
LEMMA ContextShapes ==
  ASSUME NEW l \in Level, NEW s \in Contexts(l), s # <<>>
  PROVE  /\ Head(s).at = "mi_task_startup" => s = <<Startup>> /\ Tail(s) = <<>>
         /\ Head(s).at = "aarch64_trapentry" =>
              l = 0 /\ Head(s).oldspl = 0 /\ Tail(s) = <<>>
         /\ Head(s).at = "mi_switch" =>
              \/ Head(s).spl = l /\ Tail(s) = <<>>
              \/ l = 0 /\ Head(s).spl = 1 /\ Tail(s) = <<Interrupt(0)>>
<1>1. CASE s = <<Startup>>
  BY <1>1 DEF Startup
<1>2. CASE l = 0 /\ s = <<Interrupt(0)>>
  BY <1>2 DEF Interrupt
<1>3. CASE l = 0 /\ s = <<Suspended("TS_READY", TrapLevel), Interrupt(0)>>
  BY <1>3, TwoFrames DEF Suspended, TrapLevel
<1>4. ASSUME NEW into \in Lists, s = <<Suspended(into, l)>>
      PROVE  Head(s).at = "mi_switch" /\ Head(s).spl = l /\ Tail(s) = <<>>
  BY <1>4 DEF Suspended
<1> QED  BY <1>1, <1>2, <1>3, <1>4 DEF Contexts

(* A switch leaves with interrupts masked and the context of a suspended    *)
(* task on the stack it leaves.                                             *)
LEMMA MiSwitchLevels ==
  ASSUME LevelInv, NEW into \in Lists, NEW l \in Level, NEW below \in Seq(Frame),
         MiSwitch(into, l, below), UNCHANGED level, halt = "no",
         <<Suspended(into, l)>> \o below \o stack[curtask] \in Contexts(level[curtask]),
         <<Suspended(into, l)>> \o below \o stack[curtask] \notin {<<>>, <<Startup>>}
  PROVE  InterruptLevels' /\ SavedContexts' /\ NewLevels'
<1> DEFINE s == <<Suspended(into, l)>> \o below \o stack[curtask]
<1>1. /\ stack' = [stack EXCEPT ![curtask] = s]
      /\ daif' = TRUE /\ curtask' = Successor
      /\ halt' = "no" => stack'[Successor] # <<>>
  BY DEF MiSwitch, Splhigh
<1>2. s \in Contexts(level[curtask]) /\ s \notin {<<>>, <<Startup>>}
  OBVIOUS
<1> HIDE DEF s
<1>3. InterruptLevels'
  BY <1>1 DEF InterruptLevels, InBody
<1>4. SavedContexts'
  BY <1>1, <1>2 DEF LevelInv, SavedContexts, TypeOK
<1>5. NewLevels'
  BY <1>1, <1>2 DEF LevelInv, NewLevels, TypeOK
<1> QED  BY <1>3, <1>4, <1>5

LEMMA LevelInit == Init => LevelInv
<1> SUFFICES ASSUME Init PROVE LevelInv
  OBVIOUS
<1>1. SavedContexts
  BY DEF Init, SavedContexts, Contexts
<1>2. InterruptLevels /\ NewLevels
  BY MainAssumption DEF Init, InterruptLevels, NewLevels, InBody
<1> QED  BY <1>1, <1>2, TypeInit DEF LevelInv

LEMMA LevelStep == LevelInv /\ [Next]_vars => LevelInv'
<1> SUFFICES ASSUME LevelInv, [Next]_vars
             PROVE  InterruptLevels' /\ SavedContexts' /\ NewLevels'
  BY TypeStep DEF LevelInv
<1> USE DEF LevelInv
<1>0. /\ curtask \in Task /\ level[curtask] \in Level
      /\ stack[curtask] \in Contexts(level[curtask])
  BY DEF TypeOK, SavedContexts
<1>1. ASSUME NEW s \in Level, SetLevel(s)
      PROVE  InterruptLevels' /\ SavedContexts' /\ NewLevels'
  <2>1. InBody /\ stack' = stack /\ curtask' = curtask /\ halt' = halt
        /\ level' = [level EXCEPT ![curtask] = s]
    BY <1>1 DEF SetLevel
  <2>2. curspl' = s /\ spl'[curtask] = s /\ (daif' <=> s = 1)
    BY <1>1 DEF SetLevel, Splx, Splhigh, Spl0, Level, TypeOK
  <2>3. InterruptLevels'
    BY <2>1, <2>2 DEF InterruptLevels, InBody, TypeOK
  <2>4. SavedContexts'
    BY <2>1 DEF SavedContexts, Contexts, InBody, TypeOK
  <2>5. NewLevels'
    BY <2>1, <<>> # <<Startup>> DEF NewLevels, InBody, TypeOK
  <2> QED  BY <2>3, <2>4, <2>5
<1>2. ASSUME NEW t \in Task, TaskNew(t)
      PROVE  InterruptLevels' /\ SavedContexts' /\ NewLevels'
  BY <1>2 DEF TaskNew, InterruptLevels, InBody, SavedContexts, NewLevels
<1>3. ASSUME NEW t \in Task, TaskStart(t)
      PROVE  InterruptLevels' /\ SavedContexts' /\ NewLevels'
  <2>1. /\ t # curtask /\ stack[t] = <<>> /\ InBody
        /\ stack' = [stack EXCEPT ![t] = <<Startup>>]
        /\ UNCHANGED <<curtask, curspl, daif, spl, level>>
    BY <1>3 DEF TaskStart, New
  <2>2. InterruptLevels'
    BY <2>1 DEF InterruptLevels, InBody, TypeOK
  <2>3. SavedContexts'
    BY <2>1 DEF SavedContexts, Contexts, TypeOK
  <2>4. NewLevels'
    BY <2>1 DEF NewLevels, TypeOK
  <2> QED  BY <2>2, <2>3, <2>4
<1>4. ASSUME NEW into \in Lists, InBody, UNCHANGED level, MiSwitch(into, curspl, <<>>)
      PROVE  InterruptLevels' /\ SavedContexts' /\ NewLevels'
  <2>1. curspl = level[curtask] /\ stack[curtask] = <<>> /\ halt = "no"
    BY <1>4 DEF InterruptLevels, InBody
  <2>2. <<Suspended(into, curspl)>> \o <<>> \o stack[curtask] = <<Suspended(into, curspl)>>
    BY <2>1
  <2>3. <<Suspended(into, curspl)>> \in Contexts(level[curtask])
    BY <2>1 DEF Contexts
  <2>4. <<Suspended(into, curspl)>> \notin {<<>>, <<Startup>>}
    BY DEF Suspended, Startup
  <2>5. curspl \in Level /\ <<>> \in Seq(Frame)
    BY DEF TypeOK
  <2> QED  BY <1>4, <2>1, <2>2, <2>3, <2>4, <2>5, MiSwitchLevels
<1>5. CASE TaskYield
  BY <1>4, <1>5 DEF TaskYield, Lists
<1>6. CASE TaskExit
  BY <1>4, <1>6 DEF TaskExit, Lists
<1>7. CASE MiTaskStartup
  <2>1. stack[curtask] = <<Startup>> /\ stack' = [stack EXCEPT ![curtask] = <<>>]
    BY <1>0, <1>7, ContextShapes DEF MiTaskStartup, In, Top, Pop
  <2>2. level[curtask] = 0
    BY <2>1 DEF NewLevels, TypeOK
  <2>3. InterruptLevels'
    BY <1>7, <2>1, <2>2 DEF InterruptLevels, MiTaskStartup, Spl0, InBody, TypeOK
  <2>4. SavedContexts'
    BY <1>7, <2>1 DEF SavedContexts, Contexts, MiTaskStartup, TypeOK
  <2>5. NewLevels'
    BY <1>7, <2>1, <2>2 DEF NewLevels, MiTaskStartup, TypeOK
  <2> QED  BY <2>3, <2>4, <2>5
<1>8. CASE SwitchReturn
  <2>1. /\ stack[curtask] # <<>> /\ Head(stack[curtask]).at = "mi_switch"
        /\ stack' = [stack EXCEPT ![curtask] = Tail(stack[curtask])]
        /\ Splx(Head(stack[curtask]).spl)
        /\ UNCHANGED <<curtask, level>> /\ halt = "no"
    BY <1>8 DEF SwitchReturn, In, Top, Pop
  <2>2. \/ Head(stack[curtask]).spl = level[curtask] /\ Tail(stack[curtask]) = <<>>
        \/ /\ level[curtask] = 0 /\ Head(stack[curtask]).spl = 1
           /\ Tail(stack[curtask]) = <<Interrupt(0)>>
    BY <1>0, <2>1, ContextShapes
  <2>3. InterruptLevels'
    <3>1. CASE Head(stack[curtask]).spl = level[curtask] /\ Tail(stack[curtask]) = <<>>
      <4>1. /\ curspl' = level[curtask] /\ spl'[curtask] = level[curtask]
            /\ daif' <=> level[curtask] = 1
        BY <1>0, <2>1, <3>1 DEF Splx, Splhigh, Spl0, TypeOK, Level
      <4> QED  BY <2>1, <3>1, <4>1 DEF InterruptLevels, InBody, TypeOK
    <3>2. CASE Head(stack[curtask]).spl = 1 /\ Tail(stack[curtask]) = <<Interrupt(0)>>
      <4>1. daif' = TRUE /\ stack'[curtask] # <<>>
        <5>1. Splhigh
          BY <2>1, <3>2 DEF Splx
        <5>2. stack'[curtask] = <<Interrupt(0)>>
          BY <1>0, <2>1, <3>2 DEF TypeOK
        <5> QED  BY <5>1, <5>2 DEF Splhigh
      <4> QED  BY <2>1, <4>1 DEF InterruptLevels, InBody
    <3> QED  BY <2>2, <3>1, <3>2
  <2>4. SavedContexts'
    BY <2>1, <2>2 DEF SavedContexts, Contexts, TypeOK
  <2>5. NewLevels'
    <3>1. Tail(stack[curtask]) # <<Startup>>
      <4>1. Interrupt(0).at # Startup.at
        BY DEF Interrupt, Startup
      <4>2. <<Interrupt(0)>> # <<Startup>> /\ <<>> # <<Startup>>
        BY <4>1
      <4> QED  BY ONLY <2>2, <4>2
    <3>2. /\ stack'[curtask] = Tail(stack[curtask])
          /\ \A t \in Task : t # curtask => stack'[t] = stack[t]
      BY <1>0, <2>1 DEF TypeOK
    <3> QED  BY <1>0, <2>1, <3>1, <3>2 DEF NewLevels
  <2> QED  BY <2>3, <2>4, <2>5
<1>9. CASE TimerExpire
  BY <1>9 DEF TimerExpire, InterruptLevels, InBody, SavedContexts, NewLevels
<1>10. CASE TimerIrq
  <2>1. stack[curtask] = <<>> /\ spl[curtask] = 0 /\ level[curtask] = 0 /\ halt = "no"
    BY <1>0, <1>10 DEF TimerIrq, Interrupted, InterruptLevels, InBody, Level
  <2> DEFINE below == <<Interrupt(0)>>
             f == Suspended("TS_READY", TrapLevel)
  <2>2. MiSwitch("TS_READY", TrapLevel, below) /\ UNCHANGED level
    BY <1>10, <2>1 DEF TimerIrq
  <2>3. <<f>> \o below \o stack[curtask] = <<f, Interrupt(0)>>
    <3>1. <<f>> \o below = <<f, Interrupt(0)>>
      BY TwoFrames
    <3> QED  BY <2>1, <3>1
  <2>4. <<f, Interrupt(0)>> \in Contexts(level[curtask])
    BY <2>1 DEF Contexts
  <2>5. <<f, Interrupt(0)>> \notin {<<>>, <<Startup>>}
    BY TwoFrames DEF Suspended, Startup
  <2>6. TrapLevel \in Level /\ "TS_READY" \in Lists /\ below \in Seq(Frame)
    BY <1>0 DEF TrapLevel, Level, Lists, Interrupt, Frame, TrapFrame
  <2> QED  BY <2>1, <2>2, <2>3, <2>4, <2>5, <2>6, MiSwitchLevels
<1>11. CASE TrapReturn
  <2>1. /\ stack[curtask] # <<>> /\ Head(stack[curtask]).at = "aarch64_trapentry"
        /\ stack' = [stack EXCEPT ![curtask] = Tail(stack[curtask])]
        /\ spl' = [spl EXCEPT ![curtask] = Head(stack[curtask]).oldspl]
        /\ curspl' = Head(stack[curtask]).oldspl
        /\ daif' = FALSE /\ halt = "no"
        /\ UNCHANGED <<curtask, level, halt>>
    BY <1>11 DEF TrapReturn, In, Top, Pop
  <2>2. /\ level[curtask] = 0 /\ Head(stack[curtask]).oldspl = 0
        /\ Tail(stack[curtask]) = <<>>
    BY <1>0, <2>1, ContextShapes
  <2>3. InterruptLevels'
    BY <1>0, <2>1, <2>2 DEF InterruptLevels, InBody, TypeOK
  <2>4. SavedContexts'
    BY <2>1, <2>2 DEF SavedContexts, Contexts, TypeOK
  <2>5. NewLevels'
    BY <2>1, <2>2 DEF NewLevels, TypeOK, Startup
  <2> QED  BY <2>3, <2>4, <2>5
<1>12. CASE UNCHANGED vars
  BY <1>12 DEF vars, InterruptLevels, InBody, SavedContexts, NewLevels
<1> QED
  BY <1>1, <1>2, <1>3, <1>5, <1>6, <1>7, <1>8, <1>9, <1>10, <1>11, <1>12 DEF Next

(* A task's own code always runs at the interrupt level it has set, and the *)
(* kernel's own code masked to the end (spl.c, trap.c, mi_switch).          *)
THEOREM InterruptLevelsCorrect == Spec => []InterruptLevels
<1>1. LevelInv => InterruptLevels
  BY DEF LevelInv
<1> QED  BY LevelInit, LevelStep, <1>1, PTL DEF Spec

(* A task's stack holds at most one switch on one trap, which save the      *)
(* task's level.                                                            *)
THEOREM SavedContextsCorrect == Spec => []SavedContexts
<1>1. LevelInv => SavedContexts
  BY DEF LevelInv
<1> QED  BY LevelInit, LevelStep, <1>1, PTL DEF Spec
=============================================================================
