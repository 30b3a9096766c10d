------------------------------ MODULE BoardTimer ------------------------------
(***************************************************************************)
(* The timers of timer.c: TimerInit, TimerStart, TimerStop, TimerSetValue  *)
(* and TimerReset, called by the LoRaWAN task (from the callbacks and the  *)
(* radio's handlers) and by application tasks (inside the MAC), the        *)
(* callouts of Mynewt they are built on, and the LoRaWAN event queue that  *)
(* an expired callout is put on and the LoRaWAN task runs.                 *)
(*                                                                         *)
(* A call is cut where it reads or writes shared state: the tick interrupt *)
(* may come between any two steps of it, and a task of higher priority     *)
(* too.  A callback is a dispatch and the calls the LoRaWAN task then      *)
(* makes.  Of the event queue the model keeps which callouts are on it,    *)
(* and of the callout list which are on it and when they expire.           *)
(***************************************************************************)
EXTENDS Integers

CONSTANTS
    Task,     \* tasks that call the timers
    Prio,     \* [Task -> Nat], smaller runs first, no two alike
    Lw,       \* the LoRaWAN task, of highest priority
    Timer,    \* TimerEvent_t objects
    Value,    \* timeouts given to TimerSetValue
    TimeMod,  \* 2^32, the range of os_time_t
    None

Half == TimeMod \div 2

ASSUME TaskAssumption ==
    /\ Lw \in Task
    /\ Prio \in [Task -> Nat]
    /\ \A t \in Task \ {Lw} : Prio[Lw] < Prio[t]
    /\ \A t, u \in Task : Prio[t] = Prio[u] => t = u
    /\ None \notin Timer

ASSUME RangeAssumption ==
    /\ TimeMod \in Nat /\ TimeMod > 3 /\ TimeMod = 2 * Half
    /\ Value \subseteq 0 .. TimeMod - 1

VARIABLES
    tim_list,    \* timers in l_tim_list
    IsRunning,   \* their IsRunning
    ReloadValue, \* their ReloadValue
    now,         \* os_time
    callouts,    \* timers whose callout is in Mynewt's callout list
    c_ticks,     \* when it expires; 0 when it is not in the list and nobody reads it
    queued,      \* timers whose event is on the LoRaWAN event queue
    call,        \* the call each task is in
    lease,       \* history: what the last call on a timer asks for
    since,       \* history: ticks that a pending timer has waited, up to Half
    broken       \* history: os_callout_init has cleared a callout in use

timerVars == <<tim_list, IsRunning, ReloadValue>>
osVars    == <<now, callouts, c_ticks, queued>>
history   == <<lease, since, broken>>
vars      == <<timerVars, osVars, call, history>>

-----------------------------------------------------------------------------
Op == {"start", "stop", "set", "reset"}
Pc == {"test", "stop", "halt", "clear", "init", "arm", "flag", "value"}

Call == [pc : Pc \cup {"idle", "hung"}, op : Op, obj : Timer \cup {None}, val : Value \cup {0}]

Idle == [pc |-> "idle", op |-> "stop", obj |-> None, val |-> 0]

Init ==
    /\ tim_list = {}
    /\ IsRunning = [o \in Timer |-> FALSE]
    /\ ReloadValue = [o \in Timer |-> 0]
    /\ now = 0
    /\ callouts = {}
    /\ c_ticks = [o \in Timer |-> 0]
    /\ queued = {}
    /\ call = [t \in Task |-> Idle]
    /\ lease = [o \in Timer |-> "off"]
    /\ since = [o \in Timer |-> 0]
    /\ broken = FALSE

\* Mynewt runs t only when no task of higher priority is ready.
Runs(t) == \A u \in Task : Prio[u] < Prio[t] => call[u].pc = "idle"

At(t, pc) == call[t].pc = pc /\ Runs(t)

Goto(t, pc) == call' = [call EXCEPT ![t].pc = pc]

-----------------------------------------------------------------------------
(* TimerInit, at the start of the MAC and of the radio.  A timer already   *)
(* in the list makes the caller loop for ever.                             *)

TimerInit(t, o) ==
    /\ t # Lw
    /\ At(t, "idle")
    /\ \/ /\ o \notin tim_list
          /\ tim_list' = tim_list \cup {o}
          /\ IsRunning' = [IsRunning EXCEPT ![o] = FALSE]
          /\ ReloadValue' = [ReloadValue EXCEPT ![o] = 0]
          /\ UNCHANGED call
       \/ /\ o \in tim_list
          /\ Goto(t, "hung")
          /\ UNCHANGED timerVars
    /\ UNCHANGED <<osVars, history>>

-----------------------------------------------------------------------------
(* The calls.  TimerStart and TimerSetValue test IsRunning and then call   *)
(* TimerStop, which tests it again; TimerReset calls TimerStop, then       *)
(* TimerStart.                                                             *)

\* Mutant: the assertion that the timer is in the list dropped.
_find_Timer_elUnchecked(o) == TRUE

\* _find_Timer_el asserts that the timer is in the list.
_find_Timer_el(o) == o \in tim_list

\* The MAC's discipline: a timer is in the hands of one task at a time.
Free(o) == \A u \in Task : call[u].pc = "idle" \/ call[u].obj # o

Enter(t) ==
    \E op \in Op, o \in Timer, v \in Value \cup {0} :
        /\ At(t, "idle")
        /\ Free(o)
        /\ _find_Timer_el(o)
        /\ op = "set" \/ v = 0
        /\ call' = [call EXCEPT ![t] =
                      [pc |-> IF op \in {"start", "set"} THEN "test" ELSE "stop",
                       op |-> op, obj |-> o, val |-> v]]
        /\ lease' = [lease EXCEPT ![o] = IF op \in {"start", "reset"} THEN "starting" ELSE "stopping"]
        /\ UNCHANGED <<timerVars, osVars, since, broken>>

Return(t) ==
    /\ call' = [call EXCEPT ![t] = Idle]
    /\ lease' = [lease EXCEPT ![call[t].obj] = IF @ = "starting" THEN "on" ELSE "off"]

\* TimerStop returns to the call it is in.
StopReturn(t) ==
    \/ call[t].op = "stop" /\ Return(t)
    \/ call[t].op = "start" /\ Goto(t, "init") /\ UNCHANGED lease
    \/ call[t].op = "set" /\ Goto(t, "value") /\ UNCHANGED lease
    \/ /\ call[t].op = "reset"
       /\ call' = [call EXCEPT ![t].pc = "test", ![t].op = "start"]
       /\ UNCHANGED lease

\* Mutant: TimerStart returns when the timer is running.
TestReturns(t) ==
    /\ At(t, "test")
    /\ \/ IsRunning[call[t].obj] /\ Return(t)
       \/ /\ ~IsRunning[call[t].obj]
          /\ Goto(t, IF call[t].op = "set" THEN "value" ELSE "init")
          /\ UNCHANGED lease
    /\ UNCHANGED <<timerVars, osVars, since, broken>>

\* Mutant: TimerSetValue leaves the timer running.
TestSetsRunning(t) ==
    /\ At(t, "test")
    /\ Goto(t, IF call[t].op = "set" THEN "value"
               ELSE IF IsRunning[call[t].obj] THEN "stop" ELSE "init")
    /\ UNCHANGED <<timerVars, osVars, history>>

Test(t) ==
    /\ At(t, "test")
    /\ Goto(t, IF IsRunning[call[t].obj] THEN "stop"
               ELSE IF call[t].op = "set" THEN "value" ELSE "init")
    /\ UNCHANGED <<timerVars, osVars, history>>

Stop(t) ==
    /\ At(t, "stop")
    /\ \/ IsRunning[call[t].obj] /\ Goto(t, "halt") /\ UNCHANGED lease
       \/ ~IsRunning[call[t].obj] /\ StopReturn(t)
    /\ UNCHANGED <<timerVars, osVars, since, broken>>

\* os_callout_stop: off the callout list, and off the event queue.
Halt(t) ==
    /\ At(t, "halt")
    /\ callouts' = callouts \ {call[t].obj}
    /\ queued' = queued \ {call[t].obj}
    /\ c_ticks' = [c_ticks EXCEPT ![call[t].obj] = 0]
    /\ since' = [since EXCEPT ![call[t].obj] = 0]
    /\ Goto(t, "clear")
    /\ UNCHANGED <<timerVars, now, lease, broken>>

Clear(t) ==
    /\ At(t, "clear")
    /\ IsRunning' = [IsRunning EXCEPT ![call[t].obj] = FALSE]
    /\ StopReturn(t)
    /\ UNCHANGED <<tim_list, ReloadValue, osVars, since, broken>>

\* os_callout_init: the callout and its event are zeroed and filled in,
\* whatever list or queue still links them.
CalloutInit(t) ==
    /\ At(t, "init")
    /\ broken' = (broken \/ call[t].obj \in callouts \cup queued)
    /\ Goto(t, "arm")
    /\ UNCHANGED <<timerVars, osVars, lease, since>>

\* os_callout_reset: no callout expires before the next tick; half the range
\* of the clock or more is refused, and nobody looks at the error.
CalloutReset(t) ==
    LET o == call[t].obj
        v == ReloadValue[o]
    IN
    /\ At(t, "arm")
    /\ \/ /\ v < Half
          /\ callouts' = callouts \cup {o}
          /\ c_ticks' = [c_ticks EXCEPT ![o] = (now + (IF v = 0 THEN 1 ELSE v)) % TimeMod]
          /\ queued' = queued \ {o}
          /\ since' = [since EXCEPT ![o] = 0]
       \/ /\ v >= Half
          /\ UNCHANGED <<callouts, c_ticks, queued, since>>
    /\ lease' = [lease EXCEPT ![o] = "starting"]
    /\ Goto(t, "flag")
    /\ UNCHANGED <<timerVars, now, broken>>

\* Mutant: IsRunning = true forgotten.
FlagForgotten(t) ==
    /\ At(t, "flag")
    /\ Return(t)
    /\ UNCHANGED <<timerVars, osVars, since, broken>>

Flag(t) ==
    /\ At(t, "flag")
    /\ IsRunning' = [IsRunning EXCEPT ![call[t].obj] = TRUE]
    /\ Return(t)
    /\ UNCHANGED <<tim_list, ReloadValue, osVars, since, broken>>

SetReload(t) ==
    /\ At(t, "value")
    /\ ReloadValue' = [ReloadValue EXCEPT ![call[t].obj] = call[t].val]
    /\ Return(t)
    /\ UNCHANGED <<tim_list, IsRunning, osVars, since, broken>>

-----------------------------------------------------------------------------
\* Mutant: the wrap of the clock forgotten.
ElapsedSigned(savedTime) == now - savedTime

TimerGetElapsedTime(savedTime) == (now - savedTime) % TimeMod

\* OS_TIME_TICK_GEQ: the difference as a signed 32-bit integer.
TickGeq(a, b) == (a - b) % TimeMod < Half

\* The tick interrupt: the clock advances, callouts that expire go to the
\* event queue (os_callout_tick).
Tick ==
    LET time == (now + 1) % TimeMod
        due  == {o \in callouts : TickGeq(time, c_ticks[o])}
    IN
    /\ now' = time
    /\ callouts' = callouts \ due
    /\ queued' = queued \cup due
    /\ c_ticks' = [o \in Timer |-> IF o \in due THEN 0 ELSE c_ticks[o]]
    /\ since' = [o \in Timer |-> IF o \in callouts \cup queued /\ since[o] < Half
                                 THEN since[o] + 1 ELSE since[o]]
    /\ UNCHANGED <<timerVars, call, lease, broken>>

\* os_eventq_run takes an event and calls wrapper, which calls the callback.
\* Nobody clears IsRunning.
Dispatch(o) ==
    /\ At(Lw, "idle")
    /\ o \in queued
    /\ queued' = queued \ {o}
    /\ since' = [since EXCEPT ![o] = 0]
    /\ lease' = [lease EXCEPT ![o] = CASE @ = "on" -> "off"
                                       [] @ = "starting" -> "shot"
                                       [] OTHER -> @]
    /\ UNCHANGED <<timerVars, now, callouts, c_ticks, call, broken>>

Step(t) ==
    \/ Test(t)
    \/ Stop(t)
    \/ Halt(t)
    \/ Clear(t)
    \/ CalloutInit(t)
    \/ CalloutReset(t)
    \/ Flag(t)
    \/ SetReload(t)

Next ==
    \/ \E t \in Task :
        \/ \E o \in Timer : TimerInit(t, o)
        \/ Enter(t)
        \/ Step(t)
    \/ Tick
    \/ \E o \in Timer : Dispatch(o)

Spec == Init /\ [][Next]_vars

\* The clock ticks; the LoRaWAN task, which nothing preempts, finishes its
\* calls and its handlers, and its event queue is first in, first out.
Fairness ==
    /\ WF_vars(Tick)
    /\ WF_vars(Step(Lw))
    /\ \A o \in Timer : SF_vars(Dispatch(o))

FairSpec == Spec /\ Fairness

-----------------------------------------------------------------------------
(* Properties.                                                             *)

\* Every variable has its type, and only initialised timers are in use.
TypeOK ==
    /\ tim_list \subseteq Timer
    /\ IsRunning \in [Timer -> BOOLEAN]
    /\ ReloadValue \in [Timer -> Value \cup {0}]
    /\ now \in 0 .. TimeMod - 1
    /\ callouts \subseteq tim_list
    /\ c_ticks \in [Timer -> 0 .. TimeMod - 1]
    /\ queued \subseteq tim_list
    /\ call \in [Task -> Call]
    /\ lease \in [Timer -> {"off", "stopping", "starting", "shot", "on"}]
    /\ since \in [Timer -> 0 .. Half]
    /\ broken \in BOOLEAN

\* "Stops and removes the timer object from the list of timer events"
\* (timer.c:127): once TimerStop or TimerSetValue has returned, or the
\* callback has started, the timer is neither counting nor due to call back,
\* although IsRunning is not cleared when a timer expires.
StoppedIsSilent ==
    \A o \in Timer : lease[o] = "off" => o \notin callouts \cup queued

\* A timer that TimerStart or TimerReset returned from is counting, or its
\* event is waiting, until the callback or another call, unless the OS
\* refuses so long a timeout.
StartedIsArmed ==
    \A o \in Timer : lease[o] = "on" /\ ReloadValue[o] < Half => o \in callouts \cup queued

\* The event of a timer comes when its timeout has passed since TimerStart
\* and not before, although the clock wraps and ReloadValue may be changed.
OnTime ==
    \A o \in Timer :
        LET ticks == IF ReloadValue[o] = 0 THEN 1 ELSE ReloadValue[o] IN
        /\ o \in callouts => since[o] < ticks
        /\ o \in queued => since[o] >= ticks

\* A caller that saved the time when it started a timer that still counts
\* reads the ticks since, although the clock may have wrapped.
ElapsedAcrossWrap ==
    \A o \in callouts :
        LET ticks     == IF ReloadValue[o] = 0 THEN 1 ELSE ReloadValue[o]
            savedTime == (c_ticks[o] - ticks) % TimeMod
        IN  TimerGetElapsedTime(savedTime) = since[o]

\* os_callout_init never clears a callout that Mynewt's list or the event
\* queue still links: TimerStart can tell from IsRunning that it is free.
CalloutIntact == ~broken

\* A timer that was started calls back, unless another call comes first.
TimerFires ==
    \A o \in Timer : lease[o] = "on" /\ ReloadValue[o] < Half ~> lease[o] # "on"
=============================================================================
