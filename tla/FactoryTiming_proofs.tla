------------------------ MODULE FactoryTiming_proofs ------------------------
(***************************************************************************)
(* Proofs about FactoryTiming, for every tick rate and every time.  How    *)
(* old a session may be depends on how far the turn has come: what it has  *)
(* computed, how much it has written, how long it has waited.              *)
(***************************************************************************)
EXTENDS FactoryTiming, TLAPS

(* Only a read, a write and the delay before a restart wait.               *)
WaitInv ==
  /\ task \notin {"read", "write", "delay"} => left = 0
  /\ task = "read" => left <= Poll
  /\ task = "write" => left <= WriteWait

(* The texts and the bytes of this one already waited for.                 *)
Spent(b) == (MaxText - b) * WriteWait
Written == (IF writes = 3 THEN 0 ELSE
            IF writes = 2 THEN TextWait ELSE 2 * TextWait) + Spent(bytes)

AgeAt ==
  CASE task = "check" -> LatestEnd - MaxWork + work
    [] task = "serve" -> SessionTicks - 1 + work
    [] task = "write" ->
         SessionTicks - 1 + work + Written + WriteWait - left
    [] task = "read" ->
         SessionTicks - 1 + work + 3 * TextWait + Poll - left
    [] OTHER -> 0

AgeInv ==
  active => /\ task \in Loop /\ age <= AgeAt
            /\ task = "write" => after = "read"

(* An idle task kept waiting without a byte has waited for two turns'      *)
(* computing at most: the read between them waits.                         *)
FedInv ==
  ~fed => starved <= work + (IF task = "read" /\ left < Poll THEN 0
                             ELSE MaxWork)

IInv == TypeOK /\ WaitInv /\ AgeInv /\ FedInv
-----------------------------------------------------------------------------
(* Whole ticks: the poll is at least one (pdMS_TO_TICKS).                  *)
LEMMA WholeTicks ==
  /\ Poll \in Nat /\ Poll >= 1 /\ WriteWait \in Nat /\ Ticks(DelayMs) \in Nat
<1>1. /\ PollMs * Hz \in Nat /\ WriteMs * Hz \in Nat /\ DelayMs * Hz \in Nat
      /\ PollMs * Hz >= 1000
  BY TimingAssumption
<1>2. \A n \in Nat : n \div 1000 \in Nat
  OBVIOUS
<1>3. \A n \in Nat : n >= 1000 => n \div 1000 >= 1
  OBVIOUS
<1> QED  BY <1>1, <1>2, <1>3 DEF Poll, WriteWait, Ticks

(* Each byte is waited for once at most, and the text for all of them.     *)
LEMMA BytesSpent ==
  /\ TextWait \in Nat /\ Spent(MaxText) = 0
  /\ \A b \in 1 .. MaxText :
       /\ Spent(b) \in Nat /\ Spent(b) + WriteWait <= TextWait
       /\ \A c \in 1 .. b - 1 : Spent(b) + WriteWait <= Spent(c)
<1>1. MaxText \in Nat /\ WriteWait \in Nat
  BY WholeTicks, TimingAssumption
<1>2. \A n, w \in Nat : n * w \in Nat
  OBVIOUS
<1>3. \A n, m, w \in Nat : n < m => n * w + w <= m * w
  <2> TAKE n, m, w \in Nat
  <2> HAVE n < m
  <2>1. PICK k \in Nat : m = n + 1 + k
    <3>1. m - n - 1 \in Nat /\ m = n + 1 + (m - n - 1)
      OBVIOUS
    <3> QED
      BY <3>1
  <2>2. m * w = n * w + w + k * w /\ k * w \in Nat /\ n * w \in Nat
    BY <2>1
  <2> QED
    BY <2>2
<1>4. TextWait \in Nat
  BY <1>1, <1>2 DEF TextWait
<1>5. Spent(MaxText) = 0
  BY <1>1 DEF Spent
<1>6. ASSUME NEW b \in 1 .. MaxText
      PROVE  /\ Spent(b) \in Nat /\ Spent(b) + WriteWait <= TextWait
             /\ \A c \in 1 .. b - 1 : Spent(b) + WriteWait <= Spent(c)
  <2>1. MaxText - b \in Nat /\ MaxText - b < MaxText
    BY <1>1
  <2>2. \A c \in 1 .. b - 1 :
          MaxText - c \in Nat /\ MaxText - b < MaxText - c
    BY <1>1
  <2> QED
    BY <1>1, <1>2, <1>3, <2>1, <2>2 DEF Spent, TextWait
<1> QED
  BY <1>4, <1>5, <1>6

LEMMA InitInv == Init => IInv
<1> SUFFICES ASSUME Init PROVE IInv
  OBVIOUS
<1>1. ~active /\ {got, active, fed, faulty} \subseteq BOOLEAN
  BY Zenon DEF Init
<1>2. /\ task = "boot" /\ left = 0 /\ writes = 0 /\ after = "read"
      /\ bytes = MaxText /\ age = 0 /\ work = 0 /\ starved = 0
  BY DEF Init
<1> QED
  BY <1>1, <1>2, TimingAssumption
     DEF IInv, TypeOK, WaitInv, AgeInv, FedInv, Loop

(* Starting again forgets the session and the time the idle task waited.   *)
LEMMA StartsAgainInv ==
  ASSUME StartsAgain, faulty' \in BOOLEAN PROVE IInv'
<1>1. ~active' /\ {got', active', fed', faulty'} \subseteq BOOLEAN
  BY Zenon DEF StartsAgain
<1>2. /\ task' = "boot" /\ left' = 0 /\ writes' = 0 /\ after' = "read"
      /\ bytes' = MaxText /\ age' = 0 /\ work' = 0 /\ starved' = 0
  BY DEF StartsAgain
<1> QED
  BY <1>1, <1>2, TimingAssumption
     DEF IInv, TypeOK, WaitInv, AgeInv, FedInv, Loop

(* The start of the program: no session, nothing awaited.                  *)
LEMMA StartInv ==
  ASSUME IInv, Boot \/ SafetyInit \/ ProtocolInit PROVE IInv'
<1>1. ~active /\ active' = active /\ UNCHANGED <<got, age, clockVars, faulty>>
  BY DEF IInv, AgeInv, Loop, Boot, SafetyInit, ProtocolInit, BootFrame,
         sessionVars
<1>2. starved <= work + MaxWork \/ fed
  BY TimingAssumption DEF IInv, TypeOK, FedInv
<1>3. /\ task' \in {"outputs", "driver", "delay", "read", "write"}
      /\ left' \in Nat /\ writes' \in 0 .. 3 /\ after' \in {"read", "serve"}
      /\ bytes' \in 1 .. MaxText /\ (task' = "write" => writes' > 0)
      /\ task' = "read" => left' = Poll
      /\ task' = "write" => left' = WriteWait
      /\ task' \notin {"read", "write", "delay"} => left' = 0
  BY WholeTicks, TimingAssumption
     DEF IInv, TypeOK, Boot, SafetyInit, ProtocolInit, FailedInit, Respond,
         Enter, FrameWrites, Unsaid
<1> QED
  BY <1>1, <1>2, <1>3, WholeTicks, TimingAssumption
     DEF IInv, TypeOK, WaitInv, AgeInv, FedInv, Loop, clockVars

(* A turn begins: what the turn before computed still counts for the age.  *)
LEMMA ReadInv == ASSUME IInv, Read PROVE IInv'
<1>1. {got', active', fed', faulty'} \subseteq BOOLEAN /\ active' = active
  BY Zenon DEF Read, IInv, TypeOK, sessionVars
<1>2. /\ task = "read" /\ task' = "check" /\ left' = 0 /\ work' = 0
      /\ UNCHANGED <<writes, bytes, after, age, starved>>
  BY DEF Read, Enter, Unsaid, sessionVars
<1>3. TypeOK'
  BY <1>1, <1>2, TimingAssumption DEF IInv, TypeOK, Loop
<1>4. WaitInv'
  BY <1>2 DEF WaitInv
<1>5. AgeInv'
  BY <1>1, <1>2, TimingAssumption, WholeTicks, BytesSpent
     DEF IInv, TypeOK, WaitInv, AgeInv, AgeAt, LatestEnd, Loop
<1>6. FedInv'
  <2>1. SUFFICES ASSUME ~fed' PROVE starved' <= work' + MaxWork
    BY <1>2 DEF FedInv
  <2>2. ~fed /\ left = 0
    BY <2>1, Zenon DEF Read
  <2> QED
    BY <1>2, <2>2, TimingAssumption, WholeTicks DEF IInv, TypeOK, FedInv
<1> QED
  BY <1>3, <1>4, <1>5, <1>6 DEF IInv

LEMMA CheckInv == ASSUME IInv, Check PROVE IInv'
<1>1. {got', active', fed', faulty'} \subseteq BOOLEAN
  BY Zenon DEF Check, IInv, TypeOK, sessionVars, clockVars
<1>2. /\ task = "check" /\ left = 0
      /\ UNCHANGED <<got, work, starved, fed, faulty>>
  BY DEF Check, IInv, WaitInv, clockVars
<1>3. Served \in {"read", "serve"}
  BY DEF Served
<1>4. CASE Overdue /\ active' = FALSE /\ age' = 0 /\ Respond(Served)
  <2>1. ~active' /\ age' = 0
    BY <1>4
  <2>2. /\ task' \in {"read", "serve", "write"} /\ left' \in Nat
        /\ writes' \in 0 .. 3 /\ after' \in {"read", "serve"}
        /\ bytes' = MaxText
        /\ task' = "write" => writes' > 0 /\ left' = WriteWait
        /\ task' = "read" => left' = Poll
        /\ task' = "serve" => left' = 0
    BY <1>3, <1>4, WholeTicks DEF Respond, Enter, FrameWrites
  <2> QED
    BY <1>1, <1>2, <2>1, <2>2, TimingAssumption, WholeTicks
       DEF IInv, TypeOK, WaitInv, AgeInv, FedInv, Loop
<1>5. CASE ~Overdue /\ Enter(Served)
           /\ Unsaid /\ UNCHANGED sessionVars
  <2>1. active' = active /\ (active => age < SessionTicks)
    <3>1. active' = active /\ (active => ~(age >= SessionTicks))
      BY <1>5, Zenon DEF Overdue, sessionVars
    <3> QED
      BY <3>1, TimingAssumption DEF IInv, TypeOK
  <2>2. /\ task' \in {"read", "serve"} /\ left' \in Nat
        /\ UNCHANGED <<writes, bytes, after, age>>
        /\ task' = "read" => left' = Poll
        /\ task' = "serve" => left' = 0
    BY <1>3, <1>5, WholeTicks DEF Enter, Unsaid, sessionVars
  <2>3. AgeInv'
    BY <1>2, <2>1, <2>2, TimingAssumption, WholeTicks, BytesSpent
       DEF IInv, TypeOK, AgeInv, AgeAt, Loop
  <2> QED
    BY <1>1, <1>2, <2>2, <2>3, TimingAssumption, WholeTicks
       DEF IInv, TypeOK, WaitInv, FedInv, Loop
<1> QED
  BY <1>4, <1>5 DEF Check

LEMMA ServeInv == ASSUME IInv, Serve PROVE IInv'
<1>1. {got', active', fed', faulty'} \subseteq BOOLEAN
  <2>1. active' \in BOOLEAN
    BY Zenon DEF Serve, Command, IInv, TypeOK, sessionVars
  <2> QED
    BY <2>1, Zenon DEF Serve, IInv, TypeOK, clockVars
<1>2. /\ task = "serve" /\ left = 0
      /\ UNCHANGED <<got, work, starved, fed, faulty>>
  BY DEF Serve, IInv, WaitInv, clockVars
<1>3. /\ task' \in {"read", "write"} /\ left' \in Nat
      /\ writes' \in 0 .. 3 /\ after' \in {"read", "serve"}
      /\ bytes' \in 1 .. MaxText
      /\ task' = "write" => /\ writes' > 0 /\ bytes' = MaxText
                            /\ left' = WriteWait /\ after' = "read"
      /\ task' = "read" => left' = Poll
  BY WholeTicks, TimingAssumption
     DEF Serve, Respond, Enter, Unsaid, FrameWrites, IInv, TypeOK
<1>4. age' \in Nat /\ (active' => age' = 0 \/ (active /\ age' = age))
  <2>1. (active' => age' = 0 \/ (active /\ age' = age))
        /\ (age' = 0 \/ age' = age)
    <3>1. CASE UNCHANGED sessionVars
      BY <3>1 DEF sessionVars
    <3>2. CASE age' = 0
      BY <3>2, Zenon
    <3> QED
      BY <3>1, <3>2 DEF Serve, Command
  <2> QED
    BY <2>1 DEF IInv, TypeOK
<1>5. AgeInv'
  BY <1>2, <1>3, <1>4, TimingAssumption, WholeTicks, BytesSpent
     DEF IInv, TypeOK, AgeInv, AgeAt, Written, Loop
<1> QED
  BY <1>1, <1>2, <1>3, <1>4, <1>5, TimingAssumption, WholeTicks
     DEF IInv, TypeOK, WaitInv, FedInv, Loop

(* A call that ends late has been waited for; those of the bytes it took   *)
(* that could have been waited for one by one are not any more.            *)
LEMMA WriteInv == ASSUME IInv, Write PROVE IInv'
<1>1. /\ {got', active', fed', faulty'} \subseteq BOOLEAN
      /\ active' = active
  BY Zenon DEF Write, IInv, TypeOK, sessionVars, clockVars
<1>2. /\ task = "write"
      /\ UNCHANGED <<after, got, age, work, starved, fed, faulty>>
  BY DEF Write, SomeTaken, TextOver, sessionVars, clockVars
<1>3. CASE SomeTaken
  <2>1. /\ task' = "write" /\ writes' = writes /\ left' = WriteWait
        /\ bytes' \in 1 .. bytes - 1
    BY <1>2, <1>3 DEF SomeTaken, OneLess
  <2>2. bytes \in 1 .. MaxText /\ bytes' \in 1 .. MaxText
    BY <2>1, TimingAssumption DEF IInv, TypeOK
  <2>3. AgeInv'
    <3>1. Spent(bytes) + WriteWait <= Spent(bytes')
          /\ Spent(bytes) \in Nat /\ Spent(bytes') \in Nat
      BY <2>1, <2>2, BytesSpent
    <3> QED
      BY <1>1, <1>2, <2>1, <3>1, TimingAssumption, WholeTicks, BytesSpent
         DEF IInv, TypeOK, WaitInv, AgeInv, AgeAt, Written, Loop
  <2> QED
    BY <1>1, <1>2, <2>1, <2>2, <2>3, TimingAssumption, WholeTicks
       DEF IInv, TypeOK, WaitInv, FedInv, Loop
<1>4. CASE TextOver
  <2>1. /\ writes' \in 0 .. 2 /\ writes' = writes - 1 /\ left' \in Nat
        /\ bytes' = MaxText
        /\ \/ writes' > 0 /\ task' = "write" /\ left' = WriteWait
           \/ writes' = 0 /\ after = "read" /\ task' = "read" /\ left' = Poll
           \/ writes' = 0 /\ after = "serve" /\ task' = "serve" /\ left' = 0
    BY <1>2, <1>4, WholeTicks DEF TextOver, OneLess, Enter, IInv, TypeOK
  <2>2. AgeInv'
    <3>1. /\ Spent(bytes) \in Nat /\ Spent(bytes) + WriteWait <= TextWait
          /\ Spent(bytes') = 0
      BY <2>1, BytesSpent DEF IInv, TypeOK
    <3> QED
      BY <1>1, <1>2, <2>1, <3>1, TimingAssumption, WholeTicks, BytesSpent
         DEF IInv, TypeOK, WaitInv, AgeInv, AgeAt, Written, Loop
  <2> QED
    BY <1>1, <1>2, <2>1, <2>2, TimingAssumption, WholeTicks
       DEF IInv, TypeOK, WaitInv, FedInv, Loop
<1> QED
  BY <1>3, <1>4 DEF Write

(* Time passes: waiting is accounted to what is waited for, and computing  *)
(* to the turn.                                                            *)
LEMMA TickInv == ASSUME IInv, Tick PROVE IInv'
<1>1. /\ {got', active', fed', faulty'} \subseteq BOOLEAN /\ active' = active
  BY Zenon DEF Tick, Idle, Busy, IInv, TypeOK
<1>2. UNCHANGED <<task, writes, bytes, after, got, faulty>>
  BY DEF Tick, Unsaid
<1>3. age' \in Nat /\ (active => age' = age + 1)
  BY DEF Tick, Aged, IInv, TypeOK
<1>4. CASE Idle
  <2>1. /\ left > 0 /\ left' = left - 1 /\ starved' = 0 /\ ~fed'
        /\ work' = work
    BY <1>4 DEF Idle
  <2>2. TypeOK'
    BY <1>1, <1>2, <1>3, <2>1, TimingAssumption DEF IInv, TypeOK, Loop
  <2>3. WaitInv'
    BY <1>2, <2>1, WholeTicks DEF IInv, TypeOK, WaitInv
  <2>4. AgeInv'
    BY <1>1, <1>2, <1>3, <2>1, TimingAssumption, WholeTicks, BytesSpent
       DEF IInv, TypeOK, WaitInv, AgeInv, AgeAt, Written, Loop
  <2>5. FedInv'
    BY <1>2, <2>1, TimingAssumption DEF IInv, TypeOK, FedInv
  <2> QED
    BY <2>2, <2>3, <2>4, <2>5 DEF IInv
<1>5. CASE Busy
  <2>1. /\ left = 0 /\ left' = left /\ work < MaxWork /\ work' = work + 1
        /\ starved < WatchdogTicks /\ starved' = starved + 1 /\ fed' = fed
    BY <1>5 DEF Busy
  <2>2. TypeOK'
    BY <1>1, <1>2, <1>3, <2>1, TimingAssumption DEF IInv, TypeOK, Loop
  <2>3. WaitInv'
    BY <1>2, <2>1 DEF IInv, WaitInv
  <2>4. AgeInv'
    BY <1>1, <1>2, <1>3, <2>1, TimingAssumption, WholeTicks, BytesSpent
       DEF IInv, TypeOK, AgeInv, AgeAt, LatestEnd, Written, Loop
  <2>5. FedInv'
    <3> DEFINE bound == IF task = "read" /\ left < Poll THEN 0 ELSE MaxWork
    <3>1. fed' = fed /\ (~fed => starved <= work + bound)
      BY <2>1 DEF IInv, FedInv
    <3>2. ~fed' => starved <= work + bound
      BY <3>1, Zenon
    <3>3. starved <= work + bound => starved' <= work' + bound
      <4>1. bound \in Nat
        BY TimingAssumption
      <4> HIDE DEF bound
      <4> QED
        BY <2>1, <4>1, TimingAssumption DEF IInv, TypeOK
    <3>4. ~fed' => starved' <= work' + bound
      BY <3>2, <3>3, Zenon
    <3> QED
      BY <1>2, <2>1, <3>4 DEF FedInv
  <2> QED
    BY <2>2, <2>3, <2>4, <2>5 DEF IInv
<1> QED
  BY <1>4, <1>5 DEF Tick

(* The warning makes the watchdog count again and changes nothing else.    *)
LEMMA WatchdogInv ==
  ASSUME IInv, TaskWatchdog PROVE IInv'
<1>1. /\ UNCHANGED <<task, left, writes, bytes, after, got, active, age,
                     work, fed, faulty>>
      /\ starved' = 0
  BY DEF TaskWatchdog, AfterWatchdog, loopVars, sessionVars
<1>2. TypeOK' /\ WaitInv' /\ AgeInv'
  <2>1. TypeOK'
    <3>1. {got', active', fed', faulty'} \subseteq BOOLEAN
      BY <1>1, Zenon DEF IInv, TypeOK
    <3> QED
      BY <1>1, <3>1, TimingAssumption DEF IInv, TypeOK
  <2>2. WaitInv' /\ AgeInv'
    BY <1>1 DEF IInv, WaitInv, AgeInv, AgeAt, Written
  <2> QED
    BY <2>1, <2>2
<1>3. FedInv'
  BY <1>1, TimingAssumption DEF IInv, TypeOK, FedInv
<1> QED
  BY <1>2, <1>3 DEF IInv
-----------------------------------------------------------------------------
LEMMA StepInv == IInv /\ [Next]_vars => IInv'
<1> SUFFICES ASSUME IInv, [Next]_vars PROVE IInv'
  OBVIOUS
<1>1. CASE Boot \/ SafetyInit \/ ProtocolInit
  BY <1>1, StartInv
<1>2. CASE Restart \/ Reset
  <2>1. StartsAgain /\ faulty' \in BOOLEAN
    BY <1>2, Zenon DEF Restart, Reset, IInv, TypeOK
  <2> QED
    BY <2>1, StartsAgainInv
<1>3. CASE Read
  BY <1>3, ReadInv
<1>4. CASE Check
  BY <1>4, CheckInv
<1>5. CASE Serve
  BY <1>5, ServeInv
<1>6. CASE Write
  BY <1>6, WriteInv
<1>7. CASE Tick
  BY <1>7, TickInv
<1>8. CASE TaskWatchdog
  BY <1>8, WatchdogInv
<1>9. CASE Settle \/ UNCHANGED vars
  <2>1. UNCHANGED <<task, left, writes, bytes, after, got, active, age,
                    work, starved, fed>>
    BY <1>9 DEF Settle, vars, loopVars, sessionVars, clockVars
  <2>2. faulty' \in BOOLEAN
    BY <1>9, Zenon DEF Settle, vars, IInv, TypeOK
  <2>3. {got', active', fed', faulty'} \subseteq BOOLEAN
    BY <2>1, <2>2, Zenon DEF IInv, TypeOK
  <2>4. TypeOK'
    BY <2>1, <2>3 DEF IInv, TypeOK
  <2> QED
    BY <2>1, <2>4 DEF IInv, WaitInv, AgeInv, AgeAt, Written, FedInv
<1> QED
  BY <1>1, <1>2, <1>3, <1>4, <1>5, <1>6, <1>7, <1>8, <1>9
     DEF Next, Firmware

(* The inductive invariant of the timed loop, for every tick rate.         *)
THEOREM TimingInvariant == Spec => []IInv
<1> QED
  BY InitInv, StepInv, PTL DEF Spec

(* The types of the timed loop.                                            *)
THEOREM TypeCorrect == Spec => []TypeOK
<1>1. IInv => TypeOK
  BY DEF IInv
<1> QED
  BY <1>1, TimingInvariant, PTL

(* A session ends within the deadline and one turn of the loop.            *)
LEMMA AgeBounded == IInv => ExpiredInTime
<1> SUFFICES ASSUME IInv, active PROVE age <= LatestEnd
  BY DEF ExpiredInTime
<1>1. /\ Spent(bytes) \in Nat /\ Spent(bytes) + WriteWait <= TextWait
      /\ TextWait \in Nat
  BY BytesSpent DEF IInv, TypeOK
<1> QED
  BY <1>1, TimingAssumption, WholeTicks
     DEF IInv, TypeOK, WaitInv, AgeInv, AgeAt, Written, LatestEnd, Loop

(* Whatever the station sends, in however many parts a text is taken and   *)
(* however late each of them, no session outlives its deadline by more     *)
(* than a turn (factory_protocol_run, usb_write_all).                      *)
THEOREM NeverActiveTooLong == Spec => []ExpiredInTime
<1> QED
  BY AgeBounded, TimingInvariant, PTL

(* At the watchdog's limit a byte must have come: without one the idle     *)
(* task was kept waiting for two turns' computing at most.                 *)
LEMMA StarvedMeansFed == IInv /\ starved = WatchdogTicks => fed
BY TimingAssumption DEF IInv, TypeOK, FedInv

(* No warning lands among the frames on a line that is silent, whatever    *)
(* the tick rate, if the poll is a whole tick (PROTOCOL_POLL_MS).          *)
THEOREM SilentLineUnwarned == Spec => WarningNeedsFlood
<1>1. IInv /\ [Next]_vars => [TaskWatchdog => fed]_vars
  BY StarvedMeansFed DEF TaskWatchdog
<1> QED
  BY <1>1, TimingInvariant, PTL DEF Spec, WarningNeedsFlood
=============================================================================
