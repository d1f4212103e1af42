----------------------------- MODULE RtosWatchdog -----------------------------
(***************************************************************************)
(* The threads of src/Application/Src/app_rtos.c, their heartbeats and the *)
(* watchdog thread that feeds the hardware watchdog (IWDG) only while every *)
(* heartbeat is recent.                                                    *)
(*                                                                         *)
(* The scheduler is strict: of the threads that can run, only the one of   *)
(* highest priority does, and it keeps the processor until it waits.  A    *)
(* pass of a thread takes processor time (network calls poll with          *)
(* HAL_Delay, which spins), and time passes in units only while the running*)
(* thread is in the middle of a pass or all of them wait.                  *)
(*                                                                         *)
(* There are two clocks.  The watchdog compares the kernel tick now;       *)
(* BASIC's library functions mark with HAL_GetTick, which has counted since*)
(* HAL_Init and so is Offset ahead.  Both wrap at Mod.                     *)
(***************************************************************************)
EXTENDS Naturals

CONSTANTS
  Mod,         \* 2^32: the ticks wrap here
  Offset,      \* the HAL tick when the kernel tick is 0
  FirstTick,   \* kernel tick when the threads make their first pass
  Feed,        \* loop.feed_watch_dog_interval
  Timeout,     \* app_rtos_get_heartbeat_timeout_ms
  MaxPass,     \* processor time of the main thread's longest pass
  HwTimeout,   \* the IWDG's own period
  Scripts,     \* whether a BASIC script runs at boot
  Failures,    \* whether a thread may get stuck
  Horizon      \* bound: the kernel tick stops here; Mod for no bound

ASSUME WDAssumption ==
  /\ Mod \in Nat /\ Offset \in 0 .. Mod - 1 /\ FirstTick \in 0 .. Mod - 1
  /\ Feed \in Nat \ {0} /\ Timeout \in Nat /\ MaxPass \in Nat
  /\ HwTimeout \in Nat /\ Horizon \in 0 .. Mod
  /\ Feed + Timeout + Offset < Mod
  /\ Scripts \in BOOLEAN /\ Failures \in BOOLEAN

Threads == {"main", "mqtt_rx", "basic", "debug"}

\* The attr.priority of app_rtos_start, below the watchdog's osPriorityHigh.
Priority == [main |-> 3, mqtt_rx |-> 4, basic |-> 2, debug |-> 1]

\* The processor time a pass may take: a main pass reconnects, a shell command
\* may do so too; mqtt_rx gives up on the lock after 1 ms.
Work == [main |-> 0 .. MaxPass, mqtt_rx |-> {0}, basic |-> {0}, debug |-> {0, 1}]

VARIABLES
  now,      \* osKernelGetTickCount
  hb,       \* app_rtos_heartbeat_ticks
  pc,       \* where each thread is
  start,    \* now_ms of each thread's pass, 0 between two
  left,     \* time left of each thread's pass or sleep
  script,   \* the BASIC thread is still running its script
  wd,       \* the watchdog thread
  wdDue,    \* kernel tick of its next check
  hw,       \* time since the IWDG was last refreshed
  reset,    \* the IWDG has reset the device
  silent    \* true time since the moment each thread's heartbeat stands for

wdVars == <<now, hb, pc, start, left, script, wd, wdDue, hw, reset, silent>>

\* The longest silence told apart from longer ones.
MaxSilent == Timeout + Feed + Offset + 1

WDTypeOK ==
  /\ now \in 0 .. Mod - 1 /\ wdDue \in 0 .. Mod - 1
  /\ hb \in [Threads -> 0 .. Mod - 1] /\ start \in [Threads -> 0 .. Mod - 1]
  /\ pc \in [Threads -> {"ready", "busy", "asleep", "blocked", "spinning"}]
  /\ left \in [Threads -> 0 .. MaxPass + 1]
  /\ script \in BOOLEAN /\ reset \in BOOLEAN
  /\ wd \in {"feeding", "stopped"} /\ hw \in 0 .. HwTimeout + 1
  /\ silent \in [Threads -> 0 .. MaxSilent]

HalTick == (now + Offset) % Mod

\* Mutant: the operands are swapped.
MinusSwapped(a, b) == (b + Mod - a) % Mod

\* Unsigned subtraction.
Minus(a, b) == (a + Mod - b) % Mod

\* app_rtos_start: the heartbeats start at the HAL tick.
WDInit ==
  /\ now = FirstTick /\ hb = [t \in Threads |-> HalTick]
  /\ pc = [t \in Threads |-> "ready"]
  /\ start = [t \in Threads |-> 0] /\ left = [t \in Threads |-> 0]
  /\ script = Scripts
  /\ wd = "feeding" /\ wdDue = (FirstTick + Feed) % Mod
  /\ hw = 0 /\ reset = FALSE
  /\ silent = [t \in Threads |-> 0]

CanRun(t) == pc[t] \in {"ready", "busy", "spinning"}

\* t has the processor.
Runs(t) == CanRun(t) /\ \A u \in Threads : CanRun(u) => Priority[u] <= Priority[t]

\* The watchdog thread preempts every other one, and once it has stopped nothing
\* runs any more: returning from a thread function ends in prvTaskExitError, which
\* masks the interrupts and loops.
Undisturbed == wd = "feeding" /\ now # wdDue /\ ~reset

\* app_rtos_mark_heartbeat(t, tick), where tick was read age ago.
Mark(t, tick, age) == hb' = [hb EXCEPT ![t] = tick] /\ silent' = [silent EXCEPT ![t] = age]

Sleep(t) == pc' = [pc EXCEPT ![t] = "asleep"] /\ left' = [left EXCEPT ![t] = 1]
Spend(t, d) == pc' = [pc EXCEPT ![t] = "busy"] /\ left' = [left EXCEPT ![t] = d]

\* A pass of t's loop starts: now_ms is read.
Begin(t) ==
  /\ Undisturbed /\ Runs(t) /\ pc[t] = "ready" /\ ~(t = "basic" /\ script)
  /\ start' = [start EXCEPT ![t] = now]
  /\ \E d \in Work[t] : Spend(t, d)
  /\ UNCHANGED <<now, hb, script, wd, wdDue, hw, reset, silent>>

\* It ends: the heartbeat is marked with the tick at which the pass started.
Finish(t) ==
  /\ Undisturbed /\ Runs(t) /\ pc[t] = "busy" /\ left[t] = 0
  /\ ~(t = "basic" /\ script)
  /\ Mark(t, start[t], Minus(now, start[t])) /\ start' = [start EXCEPT ![t] = 0]
  /\ Sleep(t)
  /\ UNCHANGED <<now, script, wd, wdDue, hw, reset>>

\* A library function of the script: basic_mqtt_feed_heartbeat, then a wait that
\* keeps the processor.
ScriptStep ==
  /\ Undisturbed /\ Runs("basic") /\ script
  /\ pc["basic"] \in {"ready", "busy"} /\ left["basic"] = 0
  /\ hw' = 0 /\ Mark("basic", HalTick, 0)
  /\ Spend("basic", 1)
  /\ UNCHANGED <<now, start, script, wd, wdDue, reset>>

\* The script is over; the thread's own loop begins.
ScriptEnd ==
  /\ Undisturbed /\ Runs("basic") /\ script
  /\ pc["basic"] \in {"ready", "busy"} /\ left["basic"] = 0
  /\ script' = FALSE /\ pc' = [pc EXCEPT !["basic"] = "ready"]
  /\ UNCHANGED <<now, hb, start, left, wd, wdDue, hw, reset, silent>>

\* In the middle of a pass a thread waits for ever, or spins for ever.
GetStuck(t) ==
  /\ Failures /\ Undisturbed /\ Runs(t) /\ pc[t] = "busy"
  /\ \E how \in {"blocked", "spinning"} : pc' = [pc EXCEPT ![t] = how]
  /\ UNCHANGED <<now, hb, start, left, script, wd, wdDue, hw, reset, silent>>

\* Mutants: a clock read first is subtracted from; mqtt_rx is left out.
LateSwapped(t) == hb[t] = 0 \/ Minus(hb[t], now) > Timeout
LateForgets(t) == t # "mqtt_rx" /\ (hb[t] = 0 \/ Minus(now, hb[t]) > Timeout)

\* app_rtos_all_heartbeats_alive, for one heartbeat.
Late(t) == hb[t] = 0 \/ Minus(now, hb[t]) > Timeout

\* Mutant: only a failed check is acted on.
CheckOnly ==
  /\ wd = "feeding" /\ now = wdDue /\ ~reset
  /\ IF \E t \in Threads : Late(t) THEN wd' = "stopped" /\ UNCHANGED wdDue
                                  ELSE wdDue' = (now + Feed) % Mod /\ UNCHANGED wd
  /\ UNCHANGED <<now, hb, pc, start, left, script, hw, reset, silent>>

\* The watchdog thread is back from osDelay.
Check ==
  /\ wd = "feeding" /\ now = wdDue /\ ~reset
  /\ IF \E t \in Threads : Late(t)
       THEN wd' = "stopped" /\ UNCHANGED <<wdDue, hw>>
       ELSE hw' = 0 /\ wdDue' = (now + Feed) % Mod /\ UNCHANGED wd
  /\ UNCHANGED <<now, hb, pc, start, left, script, reset, silent>>

\* Time passes for t: the running thread spends it, a sleeper wakes up in the end.
Spent(t) == Runs(t) \/ pc[t] = "asleep"

\* A unit of time.  A wait in the main thread's pass or in a script's refreshes the
\* IWDG too (mqtt_wait_for_flag, basic_sleep).
Tick ==
  /\ Undisturbed \/ (wd = "stopped" /\ ~reset)
  /\ now < Horizon
  /\ wd = "feeding" =>
       \A t \in Threads : Runs(t) => pc[t] = "spinning" \/ (pc[t] = "busy" /\ left[t] > 0)
  /\ now' = (now + 1) % Mod
  /\ silent' = [t \in Threads |-> IF silent[t] < MaxSilent THEN silent[t] + 1 ELSE MaxSilent]
  /\ IF wd = "stopped" THEN UNCHANGED <<pc, left>> /\ hw' = hw + 1
     ELSE /\ left' = [t \in Threads |-> IF Spent(t) /\ left[t] > 0 THEN left[t] - 1 ELSE left[t]]
          /\ pc' = [t \in Threads |-> IF pc[t] = "asleep" /\ left[t] <= 1 THEN "ready" ELSE pc[t]]
          /\ \/ hw' = hw + 1
             \/ hw' = 0 /\ (Runs("main") \/ (Runs("basic") /\ script))
  /\ reset' = (hw' > HwTimeout)
  /\ UNCHANGED <<hb, start, script, wd, wdDue>>

WDThreadStep ==
  \/ \E t \in Threads : Begin(t) \/ Finish(t)
  \/ ScriptStep \/ ScriptEnd \/ Check

WDNext == WDThreadStep \/ Tick \/ \E t \in Threads : GetStuck(t)

WDSpec == WDInit /\ [][WDNext]_wdVars

\* Time passes, and a thread that has the processor goes on.
WDFairSpec == WDSpec /\ WF_wdVars(Tick) /\ WF_wdVars(WDThreadStep)

-----------------------------------------------------------------------------
(* Properties                                                              *)

Stuck == {t \in Threads : pc[t] \in {"blocked", "spinning"}}

\* The watchdog thread stops feeding only if some thread is stuck, however long the
\* passes of the others take and however they delay each other.
StopMeansStuck == wd = "stopped" => Stuck # {}

\* A thread that has made no progress for the timeout is noticed at the next check;
\* a heartbeat marked with the HAL tick may hide Offset more.
DetectedInTime ==
  wd = "feeding" => \A t \in Threads : silent[t] <= Timeout + Feed + Offset

\* The hardware watchdog does not expire while the watchdog thread feeds it.
ResetOnlyAfterStop == reset => wd = "stopped"

\* A stuck thread ends in a reset, even if a BASIC script or the main thread goes
\* on refreshing the IWDG.
StuckIsReset == Stuck # {} ~> reset
=============================================================================
