--------------------------- MODULE FactoryTiming ---------------------------
(***************************************************************************)
(* How long things take.  The firmware is one task on one core: it starts  *)
(* (app_main.c), and then reads a byte or waits for one, checks the        *)
(* session's deadline, serves the byte and writes what it has to say       *)
(* (factory_protocol.c).  It waits in ticks of the kernel, at most 20 ms   *)
(* for a byte and 100 ms for each part of a text that the driver takes;    *)
(* while it waits the idle task runs, and while it does not a watchdog     *)
(* counts (sdkconfig.h).                                                   *)
(*                                                                         *)
(* Time is counted in ticks.  A command is what it does to the deadline.   *)
(***************************************************************************)
EXTENDS Integers

CONSTANTS
  Hz,              \* CONFIG_FREERTOS_HZ
  PollMs,          \* PROTOCOL_POLL_MS
  WriteMs,         \* the time a write waits
  DelayMs,         \* the time before a restart
  SessionTicks,    \* FACTORY_SESSION_TIMEOUT_US
  WatchdogTicks,   \* CONFIG_ESP_TASK_WDT_TIMEOUT_S
  MaxText,         \* bound of the bytes of a text
  MaxWork          \* bound of the ticks one turn of the loop computes

ASSUME TimingAssumption ==
  /\ {Hz, PollMs, WriteMs, DelayMs, SessionTicks, WatchdogTicks, MaxWork}
       \subseteq Nat
  /\ MaxText \in Nat \ {0}
  /\ PollMs * Hz >= 1000
  /\ SessionTicks > 0
  /\ 2 * MaxWork < WatchdogTicks

VARIABLES
  task,      \* what the task does
  left,      \* how long it may still wait
  writes,    \* texts left to write, this one included
  bytes,     \* bound of the bytes this text has left
  after,     \* what follows the writing
  got,       \* whether the last read returned a byte
  work,      \* ticks computed in this turn of the loop
  active,    \* whether a session is active
  age,       \* time since its last activity
  starved,   \* time since the idle task ran
  fed,       \* history: a byte came in that time
  faulty     \* whether pins and driver may still fail and the chip reset

loopVars == <<task, left, writes, bytes, after, got>>
sessionVars == <<active, age>>
clockVars == <<work, starved, fed>>
vars == <<loopVars, sessionVars, clockVars, faulty>>

(* pdMS_TO_TICKS                                                           *)
Ticks_Seconds(ms) == (ms \div 1000) * Hz  \* mutant
Ticks(ms) == (ms * Hz) \div 1000

Poll == Ticks(PollMs)
WriteWait == Ticks(WriteMs)

Loop == {"read", "check", "serve", "write"}

Enter(next) ==
  task' = next /\ left' = (IF next = "read" THEN Poll ELSE 0)

(* send_response writes a frame in three texts, the fixed one for want of  *)
(* memory in one, or nothing when the frame cannot be printed.             *)
FrameWrites == {0, 1, 3}

Respond(next) ==
  /\ writes' \in FrameWrites /\ bytes' = MaxText /\ after' = next
  /\ IF writes' = 0 THEN Enter(next)
     ELSE task' = "write" /\ left' = WriteWait

Unsaid == UNCHANGED <<writes, bytes, after>>
-----------------------------------------------------------------------------
Init ==
  /\ task = "boot" /\ left = 0 /\ got = FALSE
  /\ writes = 0 /\ bytes = MaxText /\ after = "read"
  /\ active = FALSE /\ age = 0
  /\ work = 0 /\ starved = 0 /\ fed = FALSE /\ faulty = TRUE

(* Everything volatile is gone: by vTaskDelay and esp_restart, or a reset. *)
StartsAgain ==
  /\ task' = "boot" /\ left' = 0 /\ got' = FALSE
  /\ writes' = 0 /\ bytes' = MaxText /\ after' = "read"
  /\ active' = FALSE /\ age' = 0
  /\ work' = 0 /\ starved' = 0 /\ fed' = FALSE

BootFrame == UNCHANGED <<got, sessionVars, clockVars, faulty>>

Boot ==
  /\ task = "boot" /\ Enter("outputs")
  /\ Unsaid /\ BootFrame

FailedInit ==
  /\ faulty /\ task' = "delay" /\ left' = Ticks(DelayMs)
  /\ Unsaid

SafetyInit ==
  /\ task = "outputs"
  /\ \/ Enter("driver") /\ Unsaid
     \/ FailedInit
  /\ BootFrame

(* The driver and the session, then the ready event.                       *)
ProtocolInit ==
  /\ task = "driver"
  /\ Respond("read") \/ FailedInit
  /\ BootFrame

Restart == task = "delay" /\ left = 0 /\ StartsAgain /\ UNCHANGED faulty
-----------------------------------------------------------------------------
(* The read returns with a byte as soon as there is one, and without one   *)
(* when it has waited long enough.                                         *)
Read ==
  /\ task = "read"
  /\ got' \in BOOLEAN /\ (got' \/ left = 0)
  /\ fed' = (fed \/ got')
  /\ work' = 0
  /\ Enter("check")
  /\ Unsaid /\ UNCHANGED <<sessionVars, starved, faulty>>

(* The deadline is checked in every turn, whatever the read returned.      *)
Overdue_WhenQuiet == ~got /\ active /\ age >= SessionTicks  \* mutant
Overdue == active /\ age >= SessionTicks

Served == IF got THEN "serve" ELSE "read"

Check ==
  /\ task = "check"
  /\ \/ Overdue /\ active' = FALSE /\ age' = 0 /\ Respond(Served)
     \/ ~Overdue /\ Enter(Served) /\ Unsaid /\ UNCHANGED sessionVars
  /\ UNCHANGED <<got, clockVars, faulty>>

(* What a command may do to the deadline.                                  *)
Command ==
  \/ active' = TRUE /\ age' = 0
  \/ active' = FALSE /\ age' = 0
  \/ UNCHANGED sessionVars

(* A byte is kept or thrown away, or ends a line, which is answered.       *)
Serve ==
  /\ task = "serve"
  /\ \/ Enter("read") /\ Unsaid /\ UNCHANGED sessionVars
     \/ Command /\ Respond("read")
  /\ UNCHANGED <<got, clockVars, faulty>>

(* usb_write_all: one call of the driver takes some bytes of the text as   *)
(* soon as there is room, and the next call waits anew for the rest.  The  *)
(* text is over when it is whole, or when a call took nothing of it, and   *)
(* the next text is tried all the same.                                    *)
OneLess_Twice(n) == n - 2  \* mutant
OneLess(n) == n - 1

SomeTaken ==
  /\ bytes' \in 1 .. OneLess(bytes) /\ left' = WriteWait
  /\ UNCHANGED <<task, writes, after>>

TextOver ==
  /\ writes' = OneLess(writes) /\ bytes' = MaxText /\ UNCHANGED after
  /\ IF writes' = 0 THEN Enter(after)
     ELSE left' = WriteWait /\ UNCHANGED task

Write ==
  /\ task = "write"
  /\ SomeTaken \/ TextOver
  /\ UNCHANGED <<got, sessionVars, clockVars, faulty>>
-----------------------------------------------------------------------------
(* A tick of the kernel passes: the task waits and the idle task runs, or  *)
(* the task computes and the watchdog counts.                              *)
Idle ==
  /\ left > 0 /\ left' = left - 1
  /\ starved' = 0 /\ fed' = FALSE /\ UNCHANGED work

Busy ==
  /\ left = 0 /\ work < MaxWork /\ starved < WatchdogTicks
  /\ work' = work + 1 /\ starved' = starved + 1 /\ UNCHANGED <<left, fed>>

Aged == age' = (IF active THEN age + 1 ELSE age)

Tick ==
  /\ Idle \/ Busy
  /\ Aged
  /\ Unsaid /\ UNCHANGED <<task, got, active, faulty>>

(* The task watchdog of this build prints a warning and counts again.      *)
AfterWatchdog_Panic == StartsAgain  \* mutant
AfterWatchdog == starved' = 0 /\ UNCHANGED <<loopVars, sessionVars, work, fed>>

TaskWatchdog ==
  /\ starved = WatchdogTicks /\ AfterWatchdog /\ UNCHANGED faulty

(* Brown-outs, panics and the button reset the chip, until they cease.     *)
Reset == faulty /\ StartsAgain /\ UNCHANGED faulty
Settle ==
  faulty /\ faulty' = FALSE /\ UNCHANGED <<loopVars, sessionVars, clockVars>>
-----------------------------------------------------------------------------
Firmware == \/ Boot \/ SafetyInit \/ ProtocolInit \/ Restart
            \/ Read \/ Check \/ Serve \/ Write

Next == Firmware \/ Tick \/ TaskWatchdog \/ Reset \/ Settle

(* The task runs when it can, time passes, and interrupts are taken.       *)
Fairness == /\ WF_vars(Firmware) /\ WF_vars(Tick) /\ WF_vars(TaskWatchdog)

Spec == Init /\ [][Next]_vars /\ Fairness
-----------------------------------------------------------------------------
(* Type invariant of the timed loop.                                       *)
TypeOK ==
  /\ task \in {"boot", "outputs", "driver", "delay"} \cup Loop
  /\ left \in Nat /\ work \in 0 .. MaxWork
  /\ bytes \in 1 .. MaxText
  /\ writes \in 0 .. 3 /\ (task = "write" => writes > 0)
  /\ after \in {"read", "serve"}
  /\ {got, active, fed, faulty} \subseteq BOOLEAN
  /\ age \in Nat /\ starved \in 0 .. WatchdogTicks

(* However busy the line, and though a station may take every text byte by *)
(* byte and each of them late: a session is never active longer after its  *)
(* last activity than the deadline and one turn of the loop, which waits   *)
(* for the bytes of three texts and for one to read                        *)
(* (factory_protocol_run, usb_write_all, factory_session_expire).          *)
TextWait == MaxText * WriteWait
LatestEnd == SessionTicks - 1 + 2 * MaxWork + 3 * TextWait + Poll
ExpiredInTime == active => age <= LatestEnd

(* The watchdog's warning, which lands in the middle of the frames, takes  *)
(* a station that never lets up: a silent line lets the idle task run in   *)
(* every turn (PROTOCOL_POLL_MS is a whole tick and more).                 *)
WarningNeedsFlood == [][TaskWatchdog => fed]_vars

(* Once pins and driver stop failing and resets cease the firmware reaches *)
(* its loop and stays there, whatever the station sends and however long   *)
(* the idle task is kept waiting (app_main, CONFIG_ESP_TASK_WDT_...).      *)
ComesUp == <>[]~faulty => <>[](task \in Loop)
=============================================================================
