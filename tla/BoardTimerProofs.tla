-------------------------- MODULE BoardTimerProofs --------------------------
(***************************************************************************)
(* Proofs about BoardTimer for every value of its constants.               *)
(***************************************************************************)
EXTENDS BoardTimer, TLAPS

-----------------------------------------------------------------------------
(* The inductive invariant.  The flag IsRunning is the only thing that     *)
(* TimerStart and TimerStop know a callout by: the invariant says at which *)
(* step of a call a callout in use may be without it.                      *)

\* The callout of o counts, or its event waits.
InUse(o) == o \in callouts \cup queued

\* No task is in a call on o.
AtRest(o) == \A t \in Task : call[t].obj # o

\* A task in a call holds an initialised timer and is at a step of its call.
WellFormed(c) ==
    /\ c.pc \in {"idle", "hung"} <=> c.obj = None
    /\ c.obj # None => c.obj \in tim_list
    /\ c.pc = "test" => c.op \in {"start", "set"}
    /\ c.pc \in {"init", "arm", "flag"} => c.op = "start"
    /\ c.pc = "value" => c.op = "set"

Locals == \A t \in Task : WellFormed(call[t])

\* A timer is in the hands of one task.
Alone ==
    \A t, u \in Task : t # u /\ call[t].obj # None => call[t].obj # call[u].obj

TypeInv == TypeOK /\ Locals /\ Alone

\* A timer that nobody is calling is in use only if it is running, and as
\* the last call left it.
Rested(o) ==
    /\ lease[o] \in {"on", "off"}
    /\ lease[o] = "on" => o \in tim_list
    /\ InUse(o) => IsRunning[o]
    /\ lease[o] = "off" => ~InUse(o)
    /\ lease[o] = "on" /\ ReloadValue[o] < Half => InUse(o)

\* A timer that a task is calling: running if in use until it is stopped,
\* then not in use until os_callout_reset.
Called(t, o) ==
    /\ lease[o] \in IF call[t].op \in {"start", "reset"} THEN {"starting", "shot"} ELSE {"stopping"}
    /\ call[t].pc \in {"test", "stop"} => (InUse(o) => IsRunning[o])
    /\ call[t].pc \in {"clear", "init", "arm", "value"} => ~InUse(o)
    /\ call[t].pc = "flag" =>
        IF lease[o] = "shot" THEN ~InUse(o) ELSE ReloadValue[o] < Half => InUse(o)

FlagInv ==
    /\ \A o \in Timer : AtRest(o) => Rested(o)
    /\ \A t \in Task : call[t].obj # None => Called(t, call[t].obj)
    /\ callouts \cap queued = {}
    /\ ~broken

\* A callout that counts expires when it has waited for its timeout.
Counts(o) ==
    LET ticks == IF ReloadValue[o] = 0 THEN 1 ELSE ReloadValue[o] IN
    /\ ReloadValue[o] < Half
    /\ since[o] < ticks
    /\ c_ticks[o] = (now + (ticks - since[o])) % TimeMod

\* The event of a timer that waits came in time.
Waits(o) == since[o] >= IF ReloadValue[o] = 0 THEN 1 ELSE ReloadValue[o]

ClockInv ==
    /\ \A o \in callouts : Counts(o)
    /\ \A o \in queued : Waits(o)

-----------------------------------------------------------------------------
(* Types.                                                                  *)

\* The calls have their type and each timer is in the hands of one task.
CallsRight == call \in [Task -> Call] /\ Locals /\ Alone

\* The other tasks stay where they are.
Others(t) == \A u \in Task \ {t} : call'[u] = call[u]

\* A call that moves to another of its steps; TimerReset goes on as TimerStart.
LEMMA GotoStep ==
    ASSUME TypeInv, NEW t \in Task, call[t].obj # None, NEW pc \in Pc, NEW op \in Op,
           pc = "test" => op \in {"start", "set"},
           pc \in {"init", "arm", "flag"} => op = "start",
           pc = "value" => op = "set",
           \/ Goto(t, pc) /\ op = call[t].op
           \/ call' = [call EXCEPT ![t].pc = pc, ![t].op = op],
           UNCHANGED tim_list
    PROVE  /\ CallsRight' /\ Others(t)
           /\ call'[t].pc = pc /\ call'[t].op = op /\ call'[t].obj = call[t].obj
<1> USE DEF TypeInv, TypeOK, Goto
<1> DEFINE c == [call[t] EXCEPT !.pc = pc, !.op = op]
<1>1. c \in Call /\ c.pc = pc /\ c.obj = call[t].obj /\ c.op = op
  BY DEF Call
<1>2. call' = [call EXCEPT ![t] = c]
  BY ZenonT(30) DEF Call
<1> HIDE DEF c
<1>3. /\ call'[t] = c
      /\ Others(t)
  BY <1>2 DEF Others
<1> QED
  BY <1>1, <1>2, <1>3 DEF CallsRight, Locals, Alone, WellFormed, Pc, Others

\* A call that returns.
LEMMA ReturnStep ==
    ASSUME TypeInv, NEW t \in Task, Return(t), UNCHANGED tim_list
    PROVE  CallsRight' /\ Others(t) /\ call'[t].pc = "idle" /\ call'[t].obj = None
<1> USE DEF TypeInv, TypeOK
<1>1. Idle \in Call
  BY DEF Idle, Call, Pc, Op
<1> QED
  BY <1>1 DEF Return, CallsRight, Locals, Alone, WellFormed, Others, Idle

\* The clock stays in its range.
LEMMA TimeRange == ASSUME NEW a \in Int PROVE a % TimeMod \in 0 .. TimeMod - 1
  BY RangeAssumption, SMT

\* The range of the clock has a half.
LEMMA HalfRange == Half \in Nat /\ Half > 1 /\ TimeMod \in Nat /\ TimeMod = 2 * Half
  BY RangeAssumption DEF Half

\* Zero is a time, and timeouts and times are numbers.
LEMMA Numbers ==
    /\ 0 \in 0 .. TimeMod - 1 /\ 0 \in 0 .. Half
    /\ Value \cup {0} \subseteq Nat
    /\ 0 .. TimeMod - 1 \subseteq Nat
  BY HalfRange, RangeAssumption

\* Every step keeps the types, and a timer in the hands of one task.
LEMMA TypeStep == TypeInv /\ [Next]_vars => TypeInv'
<1> SUFFICES ASSUME TypeInv, [Next]_vars PROVE TypeInv'
  OBVIOUS
<1>0. \A t \in Task : call[t] \in Call /\ WellFormed(call[t])
  BY DEF TypeInv, TypeOK, Locals
<1>1. ASSUME NEW t \in Task, NEW o \in Timer, TimerInit(t, o) PROVE TypeInv'
  <2>1. CallsRight'
    <3>1. CASE UNCHANGED call /\ tim_list' = tim_list \cup {o}
      BY <3>1 DEF TypeInv, TypeOK, CallsRight, Locals, WellFormed, Alone
    <3>2. CASE Goto(t, "hung") /\ UNCHANGED tim_list
      <4>1. call[t].obj = None /\ call[t].pc = "idle"
        BY <1>1, <1>0 DEF TimerInit, At, WellFormed
      <4>2. [call[t] EXCEPT !.pc = "hung"] \in Call
        BY <1>0 DEF Call
      <4> QED
        BY <3>2, <4>1, <4>2 DEF Goto, TypeInv, TypeOK, CallsRight, Locals, WellFormed, Alone
    <3> QED
      BY <1>1, <3>1, <3>2 DEF TimerInit, timerVars
  <2> QED
    BY <1>1, <2>1 DEF TimerInit, TypeInv, TypeOK, CallsRight, osVars, history, timerVars
<1>2. ASSUME NEW t \in Task, Enter(t) PROVE TypeInv'
  <2>1. PICK op \in Op, o \in Timer, v \in Value \cup {0} :
          /\ Free(o) /\ o \in tim_list
          /\ call' = [call EXCEPT ![t] =
                        [pc |-> IF op \in {"start", "set"} THEN "test" ELSE "stop",
                         op |-> op, obj |-> o, val |-> v]]
          /\ lease' = [lease EXCEPT ![o] = IF op \in {"start", "reset"} THEN "starting" ELSE "stopping"]
          /\ UNCHANGED <<timerVars, osVars, since, broken>>
    BY <1>2 DEF Enter, _find_Timer_el
  <2> DEFINE c == [pc |-> IF op \in {"start", "set"} THEN "test" ELSE "stop",
                   op |-> op, obj |-> o, val |-> v]
  <2>2. c \in Call /\ c.obj = o /\ o # None /\ c.op = op /\ c.pc \in {"test", "stop"}
        /\ (c.pc = "test" => c.op \in {"start", "set"})
    BY TaskAssumption DEF Call, Pc
  <2>3. \A u \in Task : call[u].obj # o
    BY <2>1, <2>2, <1>0 DEF Free, WellFormed
  <2>4. call' = [call EXCEPT ![t] = c]
    BY <2>1
  <2> HIDE DEF c
  <2>5. CallsRight'
    BY <2>1, <2>2, <2>3, <2>4 DEF TypeInv, TypeOK, CallsRight, Locals, WellFormed, Alone, timerVars
  <2> QED
    BY <2>1, <2>5 DEF TypeInv, TypeOK, CallsRight, osVars, history, timerVars
<1>3. ASSUME NEW t \in Task, Test(t) PROVE TypeInv'
  <2>1. call[t].obj # None /\ call[t].op \in {"start", "set"}
    BY <1>3, <1>0 DEF Test, At, WellFormed
  <2>2. CallsRight'
    BY <1>3, <2>1, GotoStep DEF Test, Pc, Op, timerVars
  <2> QED
    BY <1>3, <2>2 DEF Test, TypeInv, TypeOK, CallsRight, osVars, history, timerVars
<1>4. ASSUME NEW t \in Task, call[t].obj # None, StopReturn(t), UNCHANGED tim_list
      PROVE  CallsRight'
  <2>1. CASE call[t].op = "stop"
    BY <1>4, <2>1, ReturnStep DEF StopReturn
  <2>2. CASE call[t].op # "stop"
    BY <1>4, <2>2, GotoStep DEF StopReturn, Pc, Op
  <2> QED
    BY <2>1, <2>2
<1>5. ASSUME NEW t \in Task, call[t].obj # None, StopReturn(t) \/ Return(t)
      PROVE  lease' \in [Timer -> {"off", "stopping", "starting", "shot", "on"}]
  BY <1>5 DEF StopReturn, Return, TypeInv, TypeOK
<1>6. ASSUME NEW t \in Task, Stop(t) PROVE TypeInv'
  <2>1. call[t].obj # None /\ call[t].op \in Op
    BY <1>6, <1>0 DEF Stop, At, WellFormed, Call
  <2>2. CallsRight'
    BY <1>4, <1>6, <2>1, GotoStep DEF Stop, Pc, timerVars
  <2>3. lease' \in [Timer -> {"off", "stopping", "starting", "shot", "on"}]
    BY <1>5, <1>6, <2>1 DEF Stop, TypeInv, TypeOK
  <2> QED
    BY <1>6, <2>2, <2>3 DEF Stop, TypeInv, TypeOK, CallsRight, osVars, timerVars
<1>7. ASSUME NEW t \in Task, Halt(t) PROVE TypeInv'
  <2>1. call[t].obj # None /\ call[t].op \in Op
    BY <1>7, <1>0 DEF Halt, At, WellFormed, Call
  <2>2. CallsRight'
    BY <1>7, <2>1, GotoStep DEF Halt, Pc, timerVars
  <2> QED
    <3>1. /\ c_ticks' \in [Timer -> 0 .. TimeMod - 1]
          /\ since' \in [Timer -> 0 .. Half]
      BY <1>7, Numbers DEF Halt, TypeInv, TypeOK
    <3>2. callouts' \subseteq callouts /\ queued' \subseteq queued
      BY <1>7 DEF Halt
    <3> QED
      BY <1>7, <2>2, <3>1, <3>2 DEF Halt, TypeInv, TypeOK, CallsRight, timerVars
<1>8. ASSUME NEW t \in Task, Clear(t) PROVE TypeInv'
  <2>1. call[t].obj # None
    BY <1>8, <1>0 DEF Clear, At, WellFormed
  <2>2. CallsRight'
    BY <1>4, <1>8, <2>1 DEF Clear
  <2>3. lease' \in [Timer -> {"off", "stopping", "starting", "shot", "on"}]
    BY <1>5, <1>8, <2>1 DEF Clear
  <2> QED
    BY <1>8, <2>2, <2>3 DEF Clear, TypeInv, TypeOK, CallsRight, osVars
<1>9. ASSUME NEW t \in Task, CalloutInit(t) PROVE TypeInv'
  <2>1. call[t].obj # None /\ call[t].op = "start"
    BY <1>9, <1>0 DEF CalloutInit, At, WellFormed
  <2>2. CallsRight'
    BY <1>9, <2>1, GotoStep DEF CalloutInit, Pc, Op, timerVars
  <2> QED
    BY <1>9, <2>2 DEF CalloutInit, TypeInv, TypeOK, CallsRight, osVars, timerVars
<1>10. ASSUME NEW t \in Task, CalloutReset(t) PROVE TypeInv'
  <2>1. call[t].obj # None /\ call[t].op = "start" /\ call[t].obj \in tim_list
    BY <1>10, <1>0 DEF CalloutReset, At, WellFormed
  <2>2. CallsRight'
    BY <1>10, <2>1, GotoStep DEF CalloutReset, Pc, Op, timerVars
  <2> DEFINE v == ReloadValue[call[t].obj]
  <2>3. (now + (IF v = 0 THEN 1 ELSE v)) % TimeMod \in 0 .. TimeMod - 1
    <3>1. v \in Nat /\ now \in Nat
      BY <2>1, Numbers DEF TypeInv, TypeOK
    <3>2. now + (IF v = 0 THEN 1 ELSE v) \in Int
      BY <3>1
    <3> QED
      BY <3>2, TimeRange
  <2> QED
    BY <1>10, <2>1, <2>2, <2>3, HalfRange DEF CalloutReset, TypeInv, TypeOK, CallsRight, timerVars
<1>11. ASSUME NEW t \in Task, Flag(t) PROVE TypeInv'
  <2>1. call[t].obj # None
    BY <1>11, <1>0 DEF Flag, At, WellFormed
  <2>2. CallsRight'
    BY <1>11, ReturnStep DEF Flag
  <2> QED
    BY <1>5, <1>11, <2>1, <2>2 DEF Flag, TypeInv, TypeOK, CallsRight, osVars
<1>12. ASSUME NEW t \in Task, SetReload(t) PROVE TypeInv'
  <2>1. call[t].obj # None /\ call[t].val \in Value \cup {0}
    BY <1>12, <1>0 DEF SetReload, At, WellFormed, Call
  <2>2. CallsRight'
    BY <1>12, ReturnStep DEF SetReload
  <2> QED
    BY <1>5, <1>12, <2>1, <2>2 DEF SetReload, TypeInv, TypeOK, CallsRight, osVars
<1>13. CASE Tick
  <2>1. now' \in 0 .. TimeMod - 1
    BY <1>13, TimeRange, RangeAssumption DEF Tick, TypeInv, TypeOK
  <2>2. since' \in [Timer -> 0 .. Half]
    BY <1>13, HalfRange DEF Tick, TypeInv, TypeOK
  <2>3. c_ticks' \in [Timer -> 0 .. TimeMod - 1]
    BY <1>13, HalfRange DEF Tick, TypeInv, TypeOK
  <2> QED
    BY <1>13, <2>1, <2>2, <2>3 DEF Tick, TypeInv, TypeOK, Locals, WellFormed, Alone, timerVars
<1>14. ASSUME NEW o \in Timer, Dispatch(o) PROVE TypeInv'
  BY <1>14, HalfRange DEF Dispatch, TypeInv, TypeOK, Locals, WellFormed, Alone, timerVars
<1>15. CASE UNCHANGED vars
  BY <1>15 DEF vars, timerVars, osVars, history, TypeInv, TypeOK, Locals, WellFormed, Alone
<1> QED
  BY <1>1, <1>2, <1>3, <1>6, <1>7, <1>8, <1>9, <1>10, <1>11, <1>12, <1>13, <1>14, <1>15 DEF Next, Step

\* The clock's range, the idle calls and the rest are there at the start.
LEMMA InitialTypes == Init => TypeInv
<1>1. Idle \in Call
  BY DEF Idle, Call, Pc, Op
<1>2. Init => Locals /\ Alone
  BY DEF Init, Locals, WellFormed, Alone, Idle
<1> QED
  BY <1>1, <1>2, Numbers DEF Init, TypeInv, TypeOK

\* Every variable of BoardTimer keeps its type, whatever the callers do.
THEOREM TypeCorrect == Spec => []TypeOK
<1>1. TypeInv => TypeOK
  BY DEF TypeInv
<1> QED
  BY <1>1, InitialTypes, TypeStep, PTL DEF Spec

-----------------------------------------------------------------------------
(* Flags.                                                                  *)

\* A step of t on o leaves every other timer as it was.
Elsewhere(o) ==
    \A p \in Timer \ {o} :
        /\ p \in callouts' <=> p \in callouts
        /\ p \in queued' <=> p \in queued
        /\ lease'[p] = lease[p]
        /\ IsRunning'[p] = IsRunning[p]
        /\ ReloadValue'[p] = ReloadValue[p]

\* What has to be shown of a step of a call on o: that it leaves o as the
\* invariant says.
LEMMA FlagFrame ==
    ASSUME TypeInv, TypeInv', FlagInv, NEW t \in Task, NEW o \in Timer,
           Others(t), Elsewhere(o), tim_list \subseteq tim_list',
           call[t].obj \in {None, o}, call'[t].obj \in {None, o},
           \A u \in Task \ {t} : call[u].obj # o,
           call'[t].obj = None => Rested(o)',
           call'[t].obj = o => Called(t, o)',
           callouts' \cap queued' = {}, ~broken'
    PROVE  FlagInv'
<1>1. ASSUME NEW p \in Timer, AtRest(p)' PROVE Rested(p)'
  <2>1. CASE p = o
    BY <1>1, <2>1, TaskAssumption DEF AtRest
  <2>2. CASE p # o
    <3>1. AtRest(p)
      BY <1>1, <2>2, TaskAssumption DEF AtRest, Others
    <3> QED
      BY <2>2, <3>1 DEF Elsewhere, FlagInv, Rested, InUse
  <2> QED
    BY <2>1, <2>2
<1>2. ASSUME NEW u \in Task, call'[u].obj # None PROVE Called(u, call[u].obj)'
  <2>1. CASE u = t
    BY <1>2, <2>1
  <2>2. CASE u # t
    <3>1. call'[u] = call[u] /\ call[u].obj # o /\ Called(u, call[u].obj)
      BY <1>2, <2>2 DEF Others, FlagInv
    <3>2. call[u].obj \in Timer
      BY <1>2, <3>1 DEF TypeInv, TypeOK, Locals, WellFormed
    <3> QED
      BY <3>1, <3>2 DEF Elsewhere, Called, InUse
  <2> QED
    BY <2>1, <2>2
<1> QED
  BY <1>1, <1>2 DEF FlagInv

\* A task at a step of a call is alone on an initialised timer, of which the
\* invariant speaks.
LEMMA InCall ==
    ASSUME TypeInv, FlagInv, NEW t \in Task, call[t].pc \notin {"idle", "hung"}
    PROVE  \E o \in Timer :
              /\ call[t].obj = o /\ o # None /\ Called(t, o)
              /\ \A u \in Task \ {t} : call[u].obj # o
              /\ call[t].op \in Op
<1>1. call[t].obj # None /\ call[t].obj \in Timer /\ WellFormed(call[t]) /\ call[t].op \in Op
  BY DEF TypeInv, TypeOK, Locals, WellFormed, Call
<1>2. \A u \in Task \ {t} : call[u].obj # call[t].obj
  BY <1>1 DEF TypeInv, Alone
<1> QED
  BY <1>1, <1>2 DEF FlagInv

\* TimerStop returns, to its caller or to the call it is in, with the timer
\* out of use.
LEMMA StopReturnEffect ==
    ASSUME TypeInv, NEW t \in Task, NEW o \in Timer, call[t].obj = o, o # None,
           StopReturn(t), UNCHANGED tim_list, Called(t, o), ~InUse(o)'
    PROVE  /\ Others(t) /\ call'[t].obj \in {None, o}
           /\ \A p \in Timer \ {o} : lease'[p] = lease[p]
           /\ call'[t].obj = None => Rested(o)'
           /\ call'[t].obj = o => Called(t, o)'
<1>1. CASE call[t].op = "stop"
  <2>1. Return(t)
    BY <1>1 DEF StopReturn
  <2>2. Others(t) /\ call'[t].obj = None
    BY <2>1, ReturnStep
  <2>3. lease' = [lease EXCEPT ![o] = "off"]
    BY <1>1, <2>1 DEF Return, Called
  <2> QED
    BY <2>2, <2>3 DEF Rested, TypeInv, TypeOK
<1>2. CASE call[t].op # "stop"
  <2> DEFINE op == IF call[t].op = "reset" THEN "start" ELSE call[t].op
             pc == IF call[t].op = "start" THEN "init"
                   ELSE IF call[t].op = "set" THEN "value" ELSE "test"
  <2>1. /\ call[t].op \in {"start", "set", "reset"} /\ pc \in Pc /\ op \in Op
        /\ pc \in {"test", "init", "value"}
        /\ pc \in {"test", "init"} => op = "start"
        /\ pc = "value" => op = "set"
        /\ UNCHANGED lease
        /\ \/ Goto(t, pc) /\ op = call[t].op
           \/ call' = [call EXCEPT ![t].pc = pc, ![t].op = op]
        /\ op \in {"start", "reset"} <=> call[t].op \in {"start", "reset"}
    BY <1>2 DEF StopReturn, Pc, Op
  <2> HIDE DEF op, pc
  <2>2. Others(t) /\ call'[t].pc = pc /\ call'[t].op = op /\ call'[t].obj = o
    BY <2>1, GotoStep
  <2>3. Called(t, o)'
    BY <2>1, <2>2 DEF Called
  <2> QED
    BY <2>1, <2>2, <2>3
<1> QED
  BY <1>1, <1>2

\* The flag tells TimerStart and TimerStop all they need to know.
LEMMA FlagStep == TypeInv /\ FlagInv /\ [Next]_vars => FlagInv'
<1> SUFFICES ASSUME TypeInv, FlagInv, [Next]_vars PROVE FlagInv'
  OBVIOUS
<1>0. TypeInv'
  BY TypeStep
<1>1. ASSUME NEW t \in Task, NEW o \in Timer, TimerInit(t, o) PROVE FlagInv'
  <2>1. CASE UNCHANGED call /\ o \notin tim_list
    <3>1. AtRest(o) /\ ~InUse(o)
      BY <1>1, <2>1, TaskAssumption DEF AtRest, InUse, TypeInv, TypeOK, Locals, WellFormed
    <3>2. Elsewhere(o) /\ UNCHANGED <<osVars, lease, broken>>
      BY <1>1, <2>1 DEF Elsewhere, TimerInit, osVars, history, TypeInv, TypeOK
    <3>3. Rested(o)'
      <4>1. lease[o] = "off"
        BY <3>1, <2>1 DEF FlagInv, Rested
      <4> QED
        BY <3>1, <3>2, <4>1, <2>1 DEF FlagInv, Rested, InUse, osVars
    <3>4. call[t].obj = None
      BY <1>1 DEF TimerInit, At, TypeInv, Locals, WellFormed
    <3> QED
      BY <1>0, <2>1, <3>1, <3>2, <3>3, <3>4, <1>1, TaskAssumption, FlagFrame DEF TimerInit, Others, AtRest, FlagInv, osVars
  <2>2. CASE Goto(t, "hung") /\ UNCHANGED timerVars
    <3>1. call[t].obj = None /\ call' = [call EXCEPT ![t].pc = "hung"] /\ call[t] \in Call
      BY <1>1, <2>2 DEF TimerInit, At, Goto, TypeInv, TypeOK, Locals, WellFormed
    <3>2. \A u \in Task : call'[u].obj = call[u].obj
      BY <3>1 DEF TypeInv, TypeOK, Call
    <3>3. \A u \in Task : call[u].obj # None => call'[u] = call[u]
      BY <3>1 DEF TypeInv, TypeOK
    <3> QED
      BY <1>1, <2>2, <3>2, <3>3 DEF TimerInit, FlagInv, AtRest, Rested, Called, InUse, timerVars, osVars, history
  <2> QED
    BY <1>1, <2>1, <2>2 DEF TimerInit
<1>2. ASSUME NEW t \in Task, Enter(t) PROVE FlagInv'
  <2>1. PICK op \in Op, o \in Timer, v \in Value \cup {0} :
          /\ Free(o)
          /\ call' = [call EXCEPT ![t] =
                        [pc |-> IF op \in {"start", "set"} THEN "test" ELSE "stop",
                         op |-> op, obj |-> o, val |-> v]]
          /\ lease' = [lease EXCEPT ![o] = IF op \in {"start", "reset"} THEN "starting" ELSE "stopping"]
          /\ UNCHANGED <<timerVars, osVars, since, broken>>
    BY <1>2 DEF Enter
  <2>2. AtRest(o) /\ call[t].obj = None
    BY <1>2, <2>1, TaskAssumption DEF Enter, At, Free, AtRest, TypeInv, Locals, WellFormed
  <2>3. /\ Others(t) /\ call'[t].obj = o /\ call'[t].op = op
        /\ call'[t].pc \in {"test", "stop"}
    BY <2>1 DEF Others, TypeInv, TypeOK
  <2>4. Elsewhere(o)
    BY <2>1 DEF Elsewhere, timerVars, osVars, TypeInv, TypeOK
  <2>5. Called(t, o)'
    <3>1. lease'[o] = IF op \in {"start", "reset"} THEN "starting" ELSE "stopping"
      BY <2>1 DEF TypeInv, TypeOK
    <3> QED
      BY <2>1, <2>2, <2>3, <3>1 DEF Called, InUse, Rested, FlagInv, timerVars, osVars
  <2> QED
    BY <1>0, <2>1, <2>2, <2>3, <2>4, <2>5, TaskAssumption, FlagFrame DEF AtRest, FlagInv, osVars, timerVars
<1>3. ASSUME NEW t \in Task, Test(t) PROVE FlagInv'
  <2>1. PICK o \in Timer : /\ call[t].obj = o /\ o # None /\ Called(t, o)
                           /\ \A u \in Task \ {t} : call[u].obj # o
                           /\ call[t].op \in Op
    BY <1>3, InCall DEF Test, At
  <2>2. call[t].op \in {"start", "set"}
    BY <1>3 DEF Test, At, TypeInv, Locals, WellFormed
  <2> DEFINE pc == IF IsRunning[o] THEN "stop" ELSE IF call[t].op = "set" THEN "value" ELSE "init"
  <2>3. /\ pc \in Pc /\ Goto(t, pc) /\ UNCHANGED <<timerVars, osVars, history>>
        /\ pc \in {"stop", "value", "init"}
        /\ pc = "stop" <=> IsRunning[o]
        /\ pc = "value" => call[t].op = "set"
        /\ pc = "init" => call[t].op = "start"
    BY <1>3, <2>1, <2>2 DEF Test, Pc
  <2> HIDE DEF pc
  <2>4. /\ Others(t) /\ call'[t].pc = pc /\ call'[t].op = call[t].op /\ call'[t].obj = o
    <3>1. call[t].obj # None /\ UNCHANGED tim_list
      BY <2>1, <2>3 DEF timerVars
    <3>2. /\ pc # "test"
          /\ pc \in {"init", "arm", "flag"} => call[t].op = "start"
      BY <2>3
    <3> QED
      BY <2>1, <2>3, <3>1, <3>2, GotoStep, ZenonT(30)
  <2>5. Called(t, o)'
    <3>1. call[t].pc = "test"
      BY <1>3 DEF Test, At
    <3>2. CASE IsRunning[o]
      BY <2>1, <2>2, <2>3, <2>4, <3>2 DEF Called, InUse, timerVars, osVars, history
    <3>3. CASE ~IsRunning[o]
      BY <2>1, <2>2, <2>3, <2>4, <3>1, <3>3 DEF Called, InUse, timerVars, osVars, history
    <3> QED
      BY <3>2, <3>3
  <2> QED
    BY <1>0, <2>1, <2>3, <2>4, <2>5, FlagFrame DEF Elsewhere, FlagInv, timerVars, osVars, history
<1>4. ASSUME NEW t \in Task, Stop(t) PROVE FlagInv'
  <2>1. PICK o \in Timer : /\ call[t].obj = o /\ o # None /\ Called(t, o)
                           /\ \A u \in Task \ {t} : call[u].obj # o
                           /\ call[t].op \in Op
    BY <1>4, InCall DEF Stop, At
  <2>2. call[t].pc = "stop" /\ UNCHANGED <<timerVars, osVars, broken>>
    BY <1>4 DEF Stop, At
  <2>3. CASE IsRunning[o]
    <3>1. Goto(t, "halt") /\ UNCHANGED lease
      BY <1>4, <2>1, <2>3 DEF Stop
    <3>2. /\ Others(t) /\ call'[t].pc = "halt" /\ call'[t].op = call[t].op /\ call'[t].obj = o
      BY <2>1, <2>2, <3>1, GotoStep DEF Pc, timerVars
    <3>3. Called(t, o)'
      BY <2>1, <3>1, <3>2 DEF Called
    <3> QED
      BY <1>0, <2>1, <2>2, <3>1, <3>2, <3>3, FlagFrame DEF Elsewhere, FlagInv, timerVars, osVars
  <2>4. CASE ~IsRunning[o]
    <3>1. StopReturn(t) /\ ~InUse(o)'
      BY <1>4, <2>1, <2>2, <2>4 DEF Stop, Called, InUse, osVars
    <3>2. /\ Others(t) /\ call'[t].obj \in {None, o}
          /\ \A p \in Timer \ {o} : lease'[p] = lease[p]
          /\ call'[t].obj = None => Rested(o)'
          /\ call'[t].obj = o => Called(t, o)'
      BY <2>1, <2>2, <3>1, StopReturnEffect DEF timerVars
    <3> QED
      BY <1>0, <2>1, <2>2, <3>2, FlagFrame DEF Elsewhere, FlagInv, timerVars, osVars
  <2> QED
    BY <2>3, <2>4
<1>5. ASSUME NEW t \in Task, Halt(t) PROVE FlagInv'
  <2>1. PICK o \in Timer : /\ call[t].obj = o /\ o # None /\ Called(t, o)
                           /\ \A u \in Task \ {t} : call[u].obj # o
                           /\ call[t].op \in Op
    BY <1>5, InCall DEF Halt, At
  <2>2. /\ callouts' = callouts \ {o} /\ queued' = queued \ {o} /\ Goto(t, "clear")
        /\ UNCHANGED <<timerVars, lease, broken>>
    BY <1>5, <2>1 DEF Halt
  <2>3. /\ Others(t) /\ call'[t].pc = "clear" /\ call'[t].op = call[t].op /\ call'[t].obj = o
    BY <2>1, <2>2, GotoStep DEF Pc, timerVars
  <2>4. Called(t, o)'
    BY <2>1, <2>2, <2>3 DEF Called, InUse
  <2> QED
    BY <1>0, <2>1, <2>2, <2>3, <2>4, FlagFrame DEF Elsewhere, FlagInv, timerVars
<1>6. ASSUME NEW t \in Task, Clear(t) PROVE FlagInv'
  <2>1. PICK o \in Timer : /\ call[t].obj = o /\ o # None /\ Called(t, o)
                           /\ \A u \in Task \ {t} : call[u].obj # o
                           /\ call[t].op \in Op
    BY <1>6, InCall DEF Clear, At
  <2>2. /\ IsRunning' = [IsRunning EXCEPT ![o] = FALSE] /\ StopReturn(t)
        /\ UNCHANGED <<tim_list, ReloadValue, osVars, broken>>
    BY <1>6, <2>1 DEF Clear
  <2>3. ~InUse(o)'
    BY <1>6, <2>1, <2>2 DEF Clear, At, Called, InUse, osVars
  <2>4. /\ Others(t) /\ call'[t].obj \in {None, o}
        /\ \A p \in Timer \ {o} : lease'[p] = lease[p]
        /\ call'[t].obj = None => Rested(o)'
        /\ call'[t].obj = o => Called(t, o)'
    BY <2>1, <2>2, <2>3, StopReturnEffect
  <2>5. Elsewhere(o)
    BY <2>2, <2>4 DEF Elsewhere, osVars, TypeInv, TypeOK
  <2> QED
    BY <1>0, <2>1, <2>2, <2>4, <2>5, FlagFrame DEF FlagInv, osVars
<1>7. ASSUME NEW t \in Task, CalloutInit(t) PROVE FlagInv'
  <2>1. PICK o \in Timer : /\ call[t].obj = o /\ o # None /\ Called(t, o)
                           /\ \A u \in Task \ {t} : call[u].obj # o
                           /\ call[t].op \in Op
    BY <1>7, InCall DEF CalloutInit, At
  <2>2. /\ call[t].pc = "init" /\ call[t].op = "start" /\ Goto(t, "arm")
        /\ broken' = (broken \/ InUse(o)) /\ UNCHANGED <<timerVars, osVars, lease>>
    BY <1>7, <2>1 DEF CalloutInit, At, InUse, TypeInv, Locals, WellFormed
  <2>3. /\ Others(t) /\ call'[t].pc = "arm" /\ call'[t].op = call[t].op /\ call'[t].obj = o
    BY <2>1, <2>2, GotoStep DEF Pc, timerVars
  <2>4. ~InUse(o) /\ ~broken'
    BY <2>1, <2>2 DEF Called, FlagInv
  <2>5. Called(t, o)'
    BY <2>1, <2>2, <2>3, <2>4 DEF Called, InUse, osVars
  <2> QED
    BY <1>0, <2>1, <2>2, <2>3, <2>4, <2>5, FlagFrame DEF Elsewhere, FlagInv, timerVars, osVars
<1>8. ASSUME NEW t \in Task, CalloutReset(t) PROVE FlagInv'
  <2>1. PICK o \in Timer : /\ call[t].obj = o /\ o # None /\ Called(t, o)
                           /\ \A u \in Task \ {t} : call[u].obj # o
                           /\ call[t].op \in Op
    BY <1>8, InCall DEF CalloutReset, At
  <2>2. /\ call[t].pc = "arm" /\ call[t].op = "start" /\ Goto(t, "flag")
        /\ lease' = [lease EXCEPT ![o] = "starting"]
        /\ UNCHANGED <<timerVars, broken>>
    BY <1>8, <2>1 DEF CalloutReset, At, TypeInv, Locals, WellFormed
  <2>3. /\ Others(t) /\ call'[t].pc = "flag" /\ call'[t].op = call[t].op /\ call'[t].obj = o
    BY <2>1, <2>2, GotoStep DEF Pc, timerVars
  <2>4. \/ callouts' = callouts \cup {o} /\ queued' = queued \ {o}
        \/ ReloadValue[o] >= Half /\ UNCHANGED <<callouts, queued>>
    BY <1>8, <2>1 DEF CalloutReset
  <2>5. lease'[o] = "starting" /\ \A p \in Timer \ {o} : lease'[p] = lease[p]
    BY <2>2 DEF TypeInv, TypeOK
  <2>6. ReloadValue[o] < Half => InUse(o)'
    BY <2>4, HalfRange, Numbers DEF InUse, TypeInv, TypeOK
  <2>7. Called(t, o)'
    BY <2>1, <2>2, <2>3, <2>5, <2>6 DEF Called, timerVars
  <2>8. callouts' \cap queued' = {}
    BY <2>4 DEF FlagInv
  <2>9. Elsewhere(o)
    BY <2>2, <2>4, <2>5 DEF Elsewhere, timerVars
  <2> QED
    BY <1>0, <2>1, <2>2, <2>3, <2>7, <2>8, <2>9, FlagFrame DEF FlagInv, timerVars
<1>9. ASSUME NEW t \in Task, Flag(t) PROVE FlagInv'
  <2>1. PICK o \in Timer : /\ call[t].obj = o /\ o # None /\ Called(t, o)
                           /\ \A u \in Task \ {t} : call[u].obj # o
                           /\ call[t].op \in Op
    BY <1>9, InCall DEF Flag, At
  <2>2. /\ call[t].pc = "flag" /\ call[t].op = "start" /\ Return(t)
        /\ IsRunning' = [IsRunning EXCEPT ![o] = TRUE]
        /\ UNCHANGED <<tim_list, ReloadValue, osVars, broken>>
    BY <1>9, <2>1 DEF Flag, At, TypeInv, Locals, WellFormed
  <2>3. Others(t) /\ call'[t].obj = None
    BY <2>2, ReturnStep
  <2>4. /\ lease'[o] = IF lease[o] = "starting" THEN "on" ELSE "off"
        /\ \A p \in Timer \ {o} : lease'[p] = lease[p]
        /\ o \in tim_list
    BY <2>1, <2>2 DEF Return, TypeInv, TypeOK, Locals, WellFormed
  <2>5. IsRunning'[o] /\ \A p \in Timer \ {o} : IsRunning'[p] = IsRunning[p]
    BY <2>2 DEF TypeInv, TypeOK
  <2>6. Rested(o)'
    BY <2>1, <2>2, <2>4, <2>5 DEF Rested, Called, InUse, osVars
  <2> QED
    BY <1>0, <2>1, <2>2, <2>3, <2>4, <2>5, <2>6, FlagFrame, ZenonT(30) DEF Elsewhere, FlagInv, osVars
<1>10. ASSUME NEW t \in Task, SetReload(t) PROVE FlagInv'
  <2>1. PICK o \in Timer : /\ call[t].obj = o /\ o # None /\ Called(t, o)
                           /\ \A u \in Task \ {t} : call[u].obj # o
                           /\ call[t].op \in Op
    BY <1>10, InCall DEF SetReload, At
  <2>2. /\ call[t].pc = "value" /\ call[t].op = "set" /\ Return(t)
        /\ \A p \in Timer \ {o} : ReloadValue'[p] = ReloadValue[p]
        /\ UNCHANGED <<tim_list, IsRunning, osVars, broken>>
    BY <1>10, <2>1 DEF SetReload, At, TypeInv, TypeOK, Locals, WellFormed
  <2>3. Others(t) /\ call'[t].obj = None
    BY <2>2, ReturnStep
  <2>4. lease'[o] = "off" /\ \A p \in Timer \ {o} : lease'[p] = lease[p]
    BY <2>1, <2>2 DEF Return, Called, TypeInv, TypeOK
  <2>5. Rested(o)'
    BY <2>1, <2>2, <2>4 DEF Rested, Called, InUse, osVars
  <2> QED
    BY <1>0, <2>1, <2>2, <2>3, <2>4, <2>5, FlagFrame DEF Elsewhere, FlagInv, osVars
<1>11. CASE Tick
  <2>1. \A o \in Timer : InUse(o)' <=> InUse(o)
    BY <1>11 DEF Tick, InUse
  <2>2. callouts' \cap queued' = {}
    BY <1>11 DEF Tick, FlagInv
  <2>3. UNCHANGED <<timerVars, call, lease, broken>>
    BY <1>11 DEF Tick
  <2>4. \A t \in Task : call[t].obj # None => call[t].obj \in Timer
    BY DEF TypeInv, TypeOK, Locals, WellFormed
  <2>5. \A o \in Timer : AtRest(o)' => Rested(o)'
    BY <2>1, <2>3 DEF FlagInv, AtRest, Rested, timerVars
  <2>6. ASSUME NEW t \in Task, call[t].obj # None PROVE Called(t, call[t].obj)'
    BY <2>1, <2>3, <2>4, <2>6 DEF FlagInv, Called, timerVars
  <2> QED
    BY <2>2, <2>3, <2>5, <2>6 DEF FlagInv
<1>12. ASSUME NEW o \in Timer, Dispatch(o) PROVE FlagInv'
  <2>1. /\ o \in queued /\ queued' = queued \ {o}
        /\ UNCHANGED <<timerVars, callouts, call, broken>>
    BY <1>12 DEF Dispatch
  <2>2. ~InUse(o)' /\ callouts' \cap queued' = {}
    BY <2>1 DEF InUse, FlagInv
  <2>3. /\ lease'[o] = CASE lease[o] = "on" -> "off"
                         [] lease[o] = "starting" -> "shot"
                         [] OTHER -> lease[o]
        /\ \A p \in Timer \ {o} : lease'[p] = lease[p]
    BY <1>12 DEF Dispatch, TypeInv, TypeOK
  <2>4. \A p \in Timer \ {o} : InUse(p)' <=> InUse(p)
    BY <2>1 DEF InUse
  <2>5. ASSUME NEW p \in Timer, AtRest(p)' PROVE Rested(p)'
    BY <2>1, <2>2, <2>3, <2>4, <2>5 DEF FlagInv, AtRest, Rested, timerVars
  <2>6. ASSUME NEW t \in Task, call[t].obj # None PROVE Called(t, call[t].obj)'
    <3>1. PICK p \in Timer : p = call[t].obj /\ Called(t, p)
      BY <2>6 DEF FlagInv, TypeInv, TypeOK, Locals, WellFormed
    <3>2. call[t].pc = "flag" => call[t].op = "start"
      BY DEF TypeInv, Locals, WellFormed
    <3>3. CASE p = o
      BY <2>1, <2>2, <2>3, <3>1, <3>2, <3>3 DEF Called
    <3>4. CASE p # o
      BY <2>1, <2>3, <2>4, <3>1, <3>4 DEF Called, timerVars
    <3> QED
      BY <2>1, <3>1, <3>3, <3>4
  <2> QED
    BY <2>1, <2>2, <2>5, <2>6 DEF FlagInv
<1>13. CASE UNCHANGED vars
  BY <1>13 DEF vars, timerVars, osVars, history, FlagInv, AtRest, Rested, Called, InUse
<1> QED
  BY <1>1, <1>2, <1>3, <1>4, <1>5, <1>6, <1>7, <1>8, <1>9, <1>10, <1>11, <1>12, <1>13 DEF Next, Step

-----------------------------------------------------------------------------
(* The clock.                                                              *)

\* Times within one turn of the clock, either way.
LEMMA Modulo ==
    ASSUME NEW a \in Int
    PROVE  /\ a \in 0 .. TimeMod - 1 => a % TimeMod = a
           /\ a \in TimeMod .. 2 * TimeMod - 1 => a % TimeMod = a - TimeMod
           /\ a \in -TimeMod .. -1 => a % TimeMod = a + TimeMod
<1> TimeMod \in Nat /\ TimeMod > 0
  BY HalfRange
<1> QED
  BY SMT

\* A callout d ticks ahead expires at the next tick when d is 1, and is
\* d - 1 ticks ahead after it otherwise, wherever the clock wraps.
LEMMA Expiry ==
    ASSUME NEW n \in 0 .. TimeMod - 1, NEW d \in 1 .. Half - 1
    PROVE  /\ TickGeq((n + 1) % TimeMod, (n + d) % TimeMod) <=> d = 1
           /\ (n + d) % TimeMod = (((n + 1) % TimeMod) + (d - 1)) % TimeMod
<1> DEFINE time == (n + 1) % TimeMod
           c    == (n + d) % TimeMod
<1>1. time = IF n + 1 < TimeMod THEN n + 1 ELSE 0
  BY HalfRange, Modulo
<1>2. c = IF n + d < TimeMod THEN n + d ELSE n + d - TimeMod
  BY HalfRange, Modulo
<1> HIDE DEF time, c
<1>3. (time - c) % TimeMod = IF d = 1 THEN 0 ELSE TimeMod + 1 - d
  <2>2. n + 1 < TimeMod /\ n + d < TimeMod => time - c = 1 - d
    BY <1>1, <1>2, HalfRange
  <2>3. n + 1 >= TimeMod => time - c = 1 - d
    BY <1>1, <1>2, HalfRange
  <2>4. n + 1 < TimeMod /\ n + d >= TimeMod => time - c = 1 - d + TimeMod /\ d > 1
    BY <1>1, <1>2, HalfRange
  <2>5. CASE time - c = 1 - d
    BY <2>5, HalfRange, Modulo
  <2>6. CASE time - c = 1 - d + TimeMod /\ d > 1
    BY <2>6, HalfRange, Modulo
  <2> QED
    BY <2>2, <2>3, <2>4, <2>5, <2>6, HalfRange
<1>4. c = (time + (d - 1)) % TimeMod
  <2>1. CASE n + 1 < TimeMod
    BY <2>1, <1>1, HalfRange DEF c
  <2>2. CASE n + 1 >= TimeMod
    BY <2>2, <1>1, <1>2, HalfRange, Modulo
  <2> QED
    BY <2>1, <2>2, HalfRange
<1> QED
  BY <1>3, <1>4, HalfRange DEF TickGeq, time, c

\* A step that leaves the clock alone, and starts no callout.
LEMMA ClockFrame ==
    ASSUME ClockInv, now' = now,
           \A o \in callouts' \cup queued' :
               since'[o] = since[o] /\ c_ticks'[o] = c_ticks[o] /\ ReloadValue'[o] = ReloadValue[o],
           callouts' \subseteq callouts, queued' \subseteq queued
    PROVE  ClockInv'
  BY DEF ClockInv, Counts, Waits

\* Every step keeps the callouts and the events in time.
LEMMA ClockStep == TypeInv /\ FlagInv /\ ClockInv /\ [Next]_vars => ClockInv'
<1> SUFFICES ASSUME TypeInv, FlagInv, ClockInv, [Next]_vars PROVE ClockInv'
  OBVIOUS
<1> USE DEF timerVars, osVars, history
<1>1. ASSUME NEW t \in Task, NEW o \in Timer, TimerInit(t, o) PROVE ClockInv'
  <2>1. \A p \in callouts \cup queued : ReloadValue'[p] = ReloadValue[p]
    BY <1>1 DEF TimerInit, TypeInv, TypeOK
  <2> QED
    BY <1>1, <2>1, ClockFrame DEF TimerInit
<1>2. ASSUME NEW t \in Task, Enter(t) \/ Test(t) \/ Stop(t) \/ CalloutInit(t) PROVE ClockInv'
  BY <1>2, ClockFrame DEF Enter, Test, Stop, CalloutInit
<1>3. ASSUME NEW t \in Task, Clear(t) \/ Flag(t) PROVE ClockInv'
  BY <1>3, ClockFrame DEF Clear, Flag
<1>4. ASSUME NEW t \in Task, Halt(t) PROVE ClockInv'
  BY <1>4, ClockFrame DEF Halt, TypeInv, TypeOK
<1>5. ASSUME NEW t \in Task, CalloutReset(t) PROVE ClockInv'
  <2>1. PICK o \in Timer : call[t].obj = o
    BY <1>5, InCall DEF CalloutReset, At
  <2> DEFINE ticks == IF ReloadValue[o] = 0 THEN 1 ELSE ReloadValue[o]
  <2>2. CASE /\ ReloadValue[o] < Half
             /\ callouts' = callouts \cup {o}
             /\ c_ticks' = [c_ticks EXCEPT ![o] = (now + ticks) % TimeMod]
             /\ queued' = queued \ {o}
             /\ since' = [since EXCEPT ![o] = 0]
    <3>1. UNCHANGED <<now, ReloadValue>>
      BY <1>5 DEF CalloutReset
    <3>2. since'[o] = 0 /\ c_ticks'[o] = (now + ticks) % TimeMod
      BY <2>2 DEF TypeInv, TypeOK
    <3>3. \A p \in Timer \ {o} : since'[p] = since[p] /\ c_ticks'[p] = c_ticks[p]
      BY <2>2 DEF TypeInv, TypeOK
    <3>4. ticks \in Nat /\ ticks > 0 /\ ticks - 0 = ticks
      BY Numbers DEF TypeInv, TypeOK
    <3>5. Counts(o)'
      BY <2>2, <3>1, <3>2, <3>4 DEF Counts
    <3>6. \A p \in callouts' \ {o} : Counts(p)'
      BY <2>2, <3>1, <3>3 DEF Counts, ClockInv, TypeInv, TypeOK
    <3>7. \A p \in queued' : Waits(p)'
      BY <2>2, <3>1, <3>3 DEF Waits, ClockInv, TypeInv, TypeOK
    <3> QED
      BY <3>5, <3>6, <3>7 DEF ClockInv
  <2>3. CASE UNCHANGED <<callouts, c_ticks, queued, since>>
    BY <1>5, <2>3, ClockFrame DEF CalloutReset
  <2> QED
    BY <1>5, <2>1, <2>2, <2>3 DEF CalloutReset
<1>6. ASSUME NEW t \in Task, SetReload(t) PROVE ClockInv'
  <2>1. PICK o \in Timer : call[t].obj = o /\ Called(t, o)
    BY <1>6, InCall DEF SetReload, At
  <2>2. o \notin callouts \cup queued
    BY <1>6, <2>1 DEF SetReload, At, Called, InUse
  <2>3. \A p \in callouts \cup queued : ReloadValue'[p] = ReloadValue[p]
    BY <1>6, <2>1, <2>2 DEF SetReload, TypeInv, TypeOK
  <2> QED
    BY <1>6, <2>3, ClockFrame DEF SetReload
<1>7. CASE Tick
  <2> DEFINE time == (now + 1) % TimeMod
             due  == {o \in callouts : TickGeq(time, c_ticks[o])}
             Ticks(o) == IF ReloadValue[o] = 0 THEN 1 ELSE ReloadValue[o]
  <2>1. /\ now' = time /\ callouts' = callouts \ due /\ queued' = queued \cup due
        /\ \A o \in Timer : c_ticks'[o] = IF o \in due THEN 0 ELSE c_ticks[o]
        /\ UNCHANGED ReloadValue
    BY <1>7 DEF Tick
  <2>2. \A o \in callouts \cup queued :
            since'[o] = IF since[o] < Half THEN since[o] + 1 ELSE since[o]
    BY <1>7 DEF Tick, TypeInv, TypeOK
  <2>3. /\ callouts \subseteq Timer /\ queued \subseteq Timer /\ now \in 0 .. TimeMod - 1
        /\ \A o \in Timer : since[o] \in 0 .. Half /\ ReloadValue[o] \in Nat
    BY Numbers DEF TypeInv, TypeOK
  <2>4. ASSUME NEW o \in callouts
        PROVE  /\ since[o] < Half /\ since[o] < Ticks(o) /\ Ticks(o) < Half
               /\ o \in due <=> Ticks(o) - since[o] = 1
               /\ c_ticks[o] = (time + (Ticks(o) - since[o] - 1)) % TimeMod
    <3> DEFINE d == Ticks(o) - since[o]
    <3>1. ReloadValue[o] < Half /\ since[o] < Ticks(o) /\ c_ticks[o] = (now + d) % TimeMod
      BY DEF ClockInv, Counts
    <3>2. since[o] < Half /\ Ticks(o) < Half /\ d \in 1 .. Half - 1
      BY <2>3, <3>1, HalfRange
    <3>3. o \in due <=> TickGeq(time, (now + d) % TimeMod)
      BY <3>1
    <3> HIDE DEF d, due
    <3>4. /\ TickGeq(time, (now + d) % TimeMod) <=> d = 1
          /\ (now + d) % TimeMod = (time + (d - 1)) % TimeMod
      BY <2>3, <3>2, Expiry
    <3> QED
      BY <3>1, <3>2, <3>3, <3>4 DEF d
  <2> HIDE DEF due, time
  <2>5. due \subseteq callouts
    BY DEF due
  <2>6. ASSUME NEW o \in callouts' PROVE Counts(o)'
    <3>1. o \in callouts /\ o \notin due /\ o \in Timer
      BY <2>1, <2>3
    <3>2. /\ since'[o] = since[o] + 1
          /\ c_ticks'[o] = c_ticks[o]
          /\ Ticks(o)' = Ticks(o)
      BY <2>1, <2>2, <2>4, <3>1
    <3>3. /\ since[o] + 1 < Ticks(o)
          /\ Ticks(o) - since[o] - 1 = Ticks(o) - (since[o] + 1)
      BY <2>3, <2>4, <3>1
    <3>4. c_ticks[o] = (time + (Ticks(o) - (since[o] + 1))) % TimeMod
      BY <2>4, <3>1, <3>3
    <3>5. ReloadValue[o] < Half
      BY <3>1 DEF ClockInv, Counts
    <3> QED
      BY <2>1, <3>2, <3>3, <3>4, <3>5 DEF Counts
  <2>7. ASSUME NEW o \in queued' PROVE Waits(o)'
    <3>1. UNCHANGED ReloadValue
      BY <2>1
    <3>2. CASE o \in due
      BY <2>2, <2>3, <2>4, <2>5, <3>1, <3>2 DEF Waits
    <3>3. CASE o \in queued
      BY <2>2, <2>3, <3>1, <3>3, HalfRange DEF Waits, ClockInv
    <3> QED
      BY <2>1, <3>2, <3>3
  <2> QED
    BY <2>6, <2>7 DEF ClockInv
<1>8. ASSUME NEW o \in Timer, Dispatch(o) PROVE ClockInv'
  <2>1. callouts \cap queued = {}
    BY DEF FlagInv
  <2> QED
    BY <1>8, <2>1, ClockFrame DEF Dispatch, TypeInv, TypeOK
<1>9. CASE UNCHANGED vars
  BY <1>9, ClockFrame DEF vars
<1> QED
  BY <1>1, <1>2, <1>3, <1>4, <1>5, <1>6, <1>7, <1>8, <1>9 DEF Next, Step

-----------------------------------------------------------------------------
(* The theorems.                                                           *)

LEMMA Invariants == Spec => [](TypeInv /\ FlagInv /\ ClockInv)
<1>1. Init => FlagInv
  BY DEF Init, FlagInv, AtRest, Rested, Called, InUse, Idle
<1>2. Init => ClockInv
  BY DEF Init, ClockInv
<1> QED
  BY <1>1, <1>2, InitialTypes, TypeStep, FlagStep, ClockStep, PTL DEF Spec

\* A timer with a lease that a call does not hold is as its last call left it.
LEMMA LeaseAtRest ==
    ASSUME TypeInv, FlagInv, NEW o \in Timer, lease[o] \in {"on", "off"}
    PROVE  Rested(o)
<1>1. AtRest(o)
  BY TaskAssumption DEF AtRest, FlagInv, Called
<1> QED
  BY <1>1 DEF FlagInv

\* Once TimerStop or TimerSetValue has returned, or the callback has
\* started, the timer neither counts nor waits to call back, although the
\* IsRunning that TimerStop trusts is not cleared when a timer expires.
THEOREM StoppedSilent == Spec => []StoppedIsSilent
<1>1. TypeInv /\ FlagInv => StoppedIsSilent
  BY LeaseAtRest DEF StoppedIsSilent, Rested, InUse
<1> QED
  BY <1>1, Invariants, PTL

\* A timer that TimerStart or TimerReset returned from counts or waits to
\* call back, even when it has expired before IsRunning was set.
THEOREM StartedArmed == Spec => []StartedIsArmed
<1>1. TypeInv /\ FlagInv => StartedIsArmed
  BY LeaseAtRest DEF StartedIsArmed, Rested, InUse
<1> QED
  BY <1>1, Invariants, PTL

\* TimerStart's os_callout_init never clears a callout or an event in use.
THEOREM CalloutsIntact == Spec => []CalloutIntact
<1>1. FlagInv => CalloutIntact
  BY DEF FlagInv, CalloutIntact
<1> QED
  BY <1>1, Invariants, PTL

\* A timer's event comes when its timeout has passed since TimerStart and
\* not before, wherever the clock wraps.
THEOREM TimersOnTime == Spec => []OnTime
<1>1. TypeInv /\ ClockInv => OnTime
  BY DEF OnTime, ClockInv, Counts, Waits, TypeInv, TypeOK
<1> QED
  BY <1>1, Invariants, PTL

\* A time saved when the clock was w ticks younger is w ticks ago.
LEMMA Elapses ==
    ASSUME NEW n \in 0 .. TimeMod - 1, NEW k \in 1 .. Half - 1, NEW w \in 0 .. k - 1
    PROVE  (n - ((((n + (k - w)) % TimeMod) - k) % TimeMod)) % TimeMod = w
<1> DEFINE c     == (n + (k - w)) % TimeMod
           saved == (c - k) % TimeMod
<1>1. c = IF n + (k - w) < TimeMod THEN n + (k - w) ELSE n + (k - w) - TimeMod
  BY HalfRange, Modulo
<1>2. saved = IF n - w >= 0 THEN n - w ELSE n - w + TimeMod
  <2>1. c - k \in -TimeMod .. TimeMod - 1 /\ (c - k = n - w \/ c - k = n - w - TimeMod)
    BY <1>1, HalfRange
  <2> HIDE DEF c
  <2>2. CASE c - k = n - w
    BY <2>1, <2>2, HalfRange, Modulo DEF saved
  <2>3. CASE c - k = n - w - TimeMod
    <3>1. n - w >= 0
      BY <2>1, <2>3, HalfRange
    <3>2. saved = c - k + TimeMod
      <4>1. c - k \in -TimeMod .. -1
        BY <2>1, <2>3, HalfRange
      <4> QED
        BY <4>1, HalfRange, Modulo DEF saved
    <3> QED
      BY <3>1, <3>2, <2>3, HalfRange
  <2> QED
    BY <2>1, <2>2, <2>3
<1>3. n - saved = w \/ n - saved = w - TimeMod
  BY <1>2, HalfRange
<1> HIDE DEF saved
<1>4. (n - saved) % TimeMod = w
  BY <1>2, <1>3, HalfRange, Modulo
<1> QED
  BY <1>4 DEF saved, c

\* TimerGetElapsedTime gives the ticks since a counting timer was started,
\* for every range of the clock, wherever it wraps.
THEOREM ElapsedRight == Spec => []ElapsedAcrossWrap
<1>1. TypeInv /\ ClockInv => ElapsedAcrossWrap
  <2> SUFFICES ASSUME TypeInv, ClockInv, NEW o \in callouts
               PROVE  LET ticks == IF ReloadValue[o] = 0 THEN 1 ELSE ReloadValue[o]
                      IN  TimerGetElapsedTime((c_ticks[o] - ticks) % TimeMod) = since[o]
    BY DEF ElapsedAcrossWrap
  <2> DEFINE ticks == IF ReloadValue[o] = 0 THEN 1 ELSE ReloadValue[o]
  <2>1. o \in Timer /\ now \in 0 .. TimeMod - 1 /\ since[o] \in 0 .. Half /\ ReloadValue[o] \in Nat
    BY Numbers DEF TypeInv, TypeOK
  <2>2. /\ ReloadValue[o] < Half /\ since[o] < ticks
        /\ c_ticks[o] = (now + (ticks - since[o])) % TimeMod
    BY DEF ClockInv, Counts
  <2>3. ticks \in 1 .. Half - 1 /\ since[o] \in 0 .. ticks - 1
    BY <2>1, <2>2, HalfRange
  <2> HIDE DEF ticks
  <2>4. (now - ((c_ticks[o] - ticks) % TimeMod)) % TimeMod = since[o]
    BY <2>1, <2>2, <2>3, Elapses
  <2> QED
    BY <2>4 DEF ticks, TimerGetElapsedTime
<1> QED
  BY <1>1, Invariants, PTL
=============================================================================
