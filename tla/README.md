# A TLA+ model of the S5 Node-OTBR factory-test firmware

The firmware (`src/main/`, C on ESP-IDF, ESP32-C6) tests one printed circuit
board at a time. A station talks to it over USB, one JSON object per line. The
firmware restores the board's safe outputs, keeps a *session* for the unit
under test, keeps a write-once *manifest* of test results, and tells the
station whether the unit passed. It runs as one FreeRTOS task that never
returns. Everything hard about it comes from around that task: the station may
send anything at any time, time passes between any two steps, restoring an
output may fail, memory and the USB line may fail, and the chip may restart.

This directory holds the model, the TLC runs and the TLAPS proofs.

## 1. Inventory

| component | state | operations | who calls it |
|---|---|---|---|
| result codes, `factory_types.c` | none | `factory_apply_error_cleanup`, the spelling of the codes | `process_line` |
| manifest, `factory_manifest.c` | `s_entries`: status and evidence per test | `reset`, `record`, `get`, `summary` | session, protocol |
| session, `factory_session.c` | `s_session` (state, unit, two times, counters), `s_cleanup` | `init`, `start`, `touch`, `expire`, `finish`, `abort`, `snapshot`, `is_active` | protocol |
| outputs, `factory_safety.c`, `factory_safety_esp.c`, `factory_board.h` | `s_backend`, `s_verified`, the GPIO registers | `init`, `apply`, the two backend functions | `app_main`, protocol, and the session through its cleanup callback |
| protocol, `factory_protocol.c` | the line buffer, `length`, `discard` (locals of the loop), the cJSON objects of a reply | `init`, `run`, one branch of `handle_request` per command, `send_response` | `app_main` |
| request parser, `factory_request.c` | the request being filled in | `factory_request_parse`, the UTF-8 scan | `process_line` |
| identity, `factory_identity.c` | none | `factory_identity_read` | `identity`, `session.start` |
| boot, `app_main.c` | none | outputs, then USB driver and session, then the loop; restart on failure | the chip |
| configuration, `build-phase1/config`, `build-verify/config` | none | tick, watchdogs, brown-out, panic, console, logs | the kernel |

How they meet: the protocol calls the session and the manifest *separately*
(a result is recorded in the manifest first, the session is touched
afterwards). The session resets the manifest and caches its counters in
`s_session`. The session restores the outputs through a callback that may fail
in the middle of a transition, and `process_line` restores them once more after
any error. So most operations are sequences of steps of several components of
which any one may fail, and the reply says what became of all of them. The reply
itself is put together on a heap that may run out, and travels as three writes
over a line that may stall and that console text shares.

What must hold, component by component:

- **manifest**: a result is written once, by its owner, and only disappears
  with the whole table;
- **session**: every result belongs to the unit and the session named in
  `s_session`; completed means every test passed in that session, and the
  counters say so; nothing is started over an active session;
- **outputs**: no driver is enabled before its latch is safe, one failing pin
  costs no other, `s_verified` is never stale, what is driven stays driven;
- **request parser**: the requests the protocol document describes are accepted
  and no others (two departures: section 3), and no line is answered under a
  sequence number of its own and a command that is not, or the reverse;
- **protocol**: what a reply says of outputs and verdict is so when it is sent;
  missing members never make a reply say something else; a line is taken whole
  or not at all; an overdue session is neither served nor revived; every
  deadline is resolved, and in time; no object leaks;
- **identity**: never partly read and told as whole;
- **boot**: the loop is reached once faults cease;
- **whole**: a board passes only out of an open session whose tests all passed,
  and the station hears of it only what is so.

The behaviours that are hard to test here are listed with their lines under
`hazards` in `PROJECT.json`: failures half-way (cleanup, one pin, an allocation,
a write), cached or checked values that are stale when used (counters,
`s_verified`, the deadline, a snapshot), long legal call sequences, restarts
between a step and its reply, late replies, and boundaries (buffer, UTF-8,
string capacities, clock, ticks).

## 2. The modules

```
FactoryTypes
  |-- FactoryManifest -- FactorySession --+-- SessionCalls     any caller
  |                                       |-- FactoryProtocol  whole firmware
  |                                       |     `== implements UnitVerdict
  |                                       |-- FactoryReplies   replies, by key
  |                                       `-- FactoryStation   board and station
  |                                             `== implements RemoteCall
  |-- FactorySafety    registers and pins   (run on FactoryBoard's table)
  `-- FactoryRequest   one line taken apart
FactoryTiming          the loop in ticks    (run on FactoryBuilds' tick)

SessionCalls_proofs  FactoryProtocol_proofs    FactorySafety_proofs
FactoryReplies_proofs  FactoryStation_proofs    FactoryTiming_proofs
          \                /                    FactoryRequest_proofs
        FactorySession_proofs
```

**FactoryTypes** — the result codes and the relation `ErrorCleanup`
(`factory_apply_error_cleanup`: an error is reported after a cleanup, a failed
cleanup replaces it). A callee that may be handed a cleanup function says what
became of it: not called, succeeded, failed.

**FactoryManifest** — `entries` is `s_entries`. `RecordCheck` is the chain of
early returns of `factory_manifest_record`, in its order. Evidence is opaque
here, storable or not (non-finite or too long).

**FactorySession** — `session` is `s_session`, `hasCleanup` is
`s_cleanup != NULL`. One action per function; its parameters are the
arguments, the fate of the cleanup callback and the result. The history
variable `made` keeps, for each result, the unit and start time it was recorded
under, so that "whose result is this?" can be asked.

**SessionCalls** — `FactorySession` and the manifest under any caller: every
function of their headers that changes state, in every order, with all arguments
and any timestamps, negative and decreasing ones included. That includes a second
`factory_session_init` and a `factory_manifest_reset` in the middle of a session,
which the firmware never makes and nothing in the code refuses. What holds here
owes nothing to the protocol. The history variable `discarded` says that the table
was reset under the session that is completed: its counters then still tell of
results that are gone.

**FactorySafety** — the registers of every pin, and the loop of
`factory_safety_apply`, one ESP-IDF call per step. Each call may fail, and a
read-back may disagree. `pc`, `next` and `call` say where the loop is.
**FactoryBoard** has the pins of `factory_board.h` and the table of safe
outputs, which the run uses, with the assumption that they fit: every signal a
pad of its own, every output with a safe level in the table.

**FactoryProtocol** — the task: `pc` walks from `boot` through the loop
(`read`, `expire`, `byte`), into a command (`handle`, `mark`, `touch`,
`snapshot`) and out of it (`cleanup`, `respond`). Each label is a point between
two calls where the clock may advance or the chip be reset. `rx` is what the
read returned. `length` and `discard` are the locals of the loop, with
`MaxFrame` for 767; a byte is the line's end, a carriage return or another, and
the history variable `received` counts the line's bytes whatever became of them.
What the line held is chosen when it is processed: a request of any command, or
the code the parser refuses it with. Restoring the outputs is one step here: it
runs inside one call of the task with nothing in between, and `FactorySafety`
shows what its result means.

**UnitVerdict** — the promise the station relies on, in five actions over a
phase and a sheet of verdicts. It knows no commands, clocks or outputs.
`FactoryProtocol` implements it with the phase read off the session's state.

**FactoryRequest** — `factory_request_parse` check by check: frame, UTF-8 byte by
byte with the locals of `valid_utf8`, JSON, duplicate keys, sequence number and
command, allowed fields, the fields. The line is chosen as the checks come to
look at it. What cJSON makes of the text is external: text that is no JSON,
trailing text, or an object. Strings are compared by name and length, numbers by
integral part, wholeness and finiteness, and whether all the characters of a
string are those of a unit id (`plain`), which the parser does not look at and the
document does. `well` is a history variable: what was
accepted so far is well-formed by Unicode's table, which `WellFormed` states
independently of the validator's arithmetic.

**FactoryReplies** — every reply as the function from keys to values that is
sent, for all commands, refused lines and both events. Adding a member silently
fails for want of memory (`Losses`), creating an object visibly. `heap` has the
objects allocated for this reply, `identity` the structure the three reads of
the chip fill in or leave zero. It is a view of the same handlers as
`FactoryProtocol`, with the data of the replies kept and the clock and the line
left out.

**FactoryStation** — a board and a station with the line between them. A text
has two parts, so that a write may end between texts or inside one; `wire` is
what arrived of the line in progress; the board answers in three writes, each
made whether or not the one before got through. Console text and the boot texts
of ROM and bootloader go down the same line. The station does what
`docs/factory_protocol.md` asks: it skips what is no frame, matches `seq` and
`cmd`, uses every sequence number once, and may give up at any time. The history
variable `performed` has what each request came to, `lost` those performed before
the last reset or time-out, and `lostBy` the same as it was when a request that
passed was performed.

**RemoteCall** — what a station may rely on: a request is performed at most
once, now, later or never; an answer taken is what performing that very request
came to. `FactoryStation` implements it.

**FactoryTiming** — the same task in ticks of the kernel: start, read, check,
serve, write. A text is written by as many calls of the driver as it takes, each of
which takes some of its `bytes` and is followed by a new wait for the rest, until
one takes nothing. `left` is how long the current call may still wait, `work` what
this turn has computed, `age` the time since the session's last activity,
`starved` the watchdog's count, `fed` whether a byte came in meanwhile. The wait
for a tick lets the idle task run; computing does not. **FactoryBuilds** has what
the four generated configuration headers say of tick, watchdogs, panic,
brown-out, timer, console and logs, with the assumption that the builds agree.

The `MC*` modules give the constants of the runs. A definition named
`Something_Variant` and commented as a mutant is no part of the model: it is a
plausible mistake in the definition after it, kept to show that a property
depends on that definition.

`PROJECT.json` maps every definition to the lines it models. Of the 4341 lines
counted as implementation 2976 are the four generated `sdkconfig.h`, two pairs
that are the same text; of the program's own files nearly every line is modelled.

## 3. The runs

| run | distinct states | question |
|---|---|---|
| `session_calls` | 6.5 thousand (symmetry) | do session and manifest keep their promises under any caller? |
| `safety` | 886 thousand | do the outputs stay safe, call by call, whatever fails? |
| `protocol` | 590 thousand | is what the firmware says so, is a line taken whole, and does it implement `UnitVerdict`? |
| `protocol_phase1` | 42 thousand | can the shipped phase, with tests nothing implements, pass a board, and is every deadline resolved? |
| `request` | 430 thousand | which lines are accepted, and under what is each answered? |
| `replies` | 707 thousand | do replies say what is so when memory runs out anywhere in them? |
| `station` | 3.01 million | what does a station know of its requests over a line that tears and mixes? |
| `timing` | 38 thousand | how late is a deadline noticed, who starves whom, does the board come up? |
| `claim_*` | | four statements of the documents the program does not keep |

What they show:

- **session_calls**: `Traceable`; `CompletedSound` (completed means that every
  test passed in this session, while nobody resets the table under it);
  `ResultImmutable` (a result is never rewritten, and results of an active session
  go only all together, in a second `init` or in a `factory_manifest_reset` from
  outside), with two units, tests of both owners, a unit id that is refused, an
  unknown test, evidence that cannot be stored, five clock values of which one is negative,
  and a time-out of two.
- **safety**: `DrivenSafe` and `StaysDriven` between any two calls,
  `VerifiedExact`, and `KeepsGoing`: one failing pin never costs another and
  never gets lost. The table is the board's own (six outputs and PSW_EN), so
  no bound is involved.
- **protocol**: `SafeWhenSaid`, `PassTold`, `OverdueNeverServed`, `InCommand`,
  `LineExact` (a line of `MaxFrame` bytes is processed, one more discards it,
  and no byte of one line ends up in another) and the refinement of
  `UnitVerdict`, with three tests, two units, a refused unit id, an unknown
  test, rejected lines, a time-out of three ticks and a clock of four, failing
  outputs, heap, USB line and identity, and resets at any label.
- **protocol_phase1**: `UnimplementedPending`: the station cannot vouch for
  a test the firmware owns and does not implement; `DeadlineResolved`: no station
  keeps a session active past its deadline, by flooding the line or by silence.
- **request**: `TextAccepted` and `TextRefused` hold the validator to Unicode's
  table in both directions; `ParsedAsDescribed` holds the chain of checks to the
  document's description of each command, in both directions, and names the two
  places where the parser departs from it (`AnyUnit`, `EmptyText`: see the remarks
  below); `AnsweredAsAsked`: a line is answered under its own sequence number and
  command when both are good and no key comes twice, and otherwise under -1 and
  "unknown", even when one of the two could have been read.
- **replies**: `VerdictsAgree` (whatever members are missing, those left never
  claim a pass that is none or hide an error under `ok`), `SessionToldAsIs`,
  `NeverFabricated`, `ListWhole`, `CompleteWithMemory`, `NothingLost`.
- **station**: `NoFrameForged`, `UndisturbedHeard` (a torn text costs the line it
  tore and no other), `PassBacked` (a pass that is heard was earned in this very
  order by this station's requests, none of them performed before a reset or in a
  session that timed out before the finish), and `ImplementsRemoteCall`.
- **timing**: `ExpiredInTime` (the latest end of a session, when the station takes
  three texts byte by byte and every byte as late as it may,
  to the tick: the run fails with one tick less), `WarningNeedsFlood` (only a line
  that never falls silent can trigger the watchdog's warning) and `ComesUp`.

**Bounds, and why they are enough.** Two units and two station tests tell
"another unit's result" and "another test's result" apart; a third adds nothing
any property distinguishes. The clock (`MaxTime`) stops within a boot at one tick
past the time-out, so a session can be started at time 0 or 1, expire at its
deadline or after it, and be touched in between; a reset starts it again. It is
the reason that `DeadlineResolved` speaks of deadlines within the bound.
`MaxFrame` is 1 or 2 instead of 767: a full, a too long and an in-between line
all occur. Commands, labels, failures and resets are not bounded in these runs.
`request`: the bytes are those on both sides of every boundary of the table; a
frame has at most five bytes after its prefix, more than the longest character;
an object has every combination of the fields, each absent, right with
texts at their longest, or wrong (out of range, one too long, empty, of characters
the document does not allow, of a wrong type; of `unit_id`, `unit` and `detail` one
wrong at a time), and each object once more with its first field given again;
`INT32_MAX` is 7.
`replies`: at most `MaxFailures` = 2 allocations of one reply fail, enough for
every pair of members and for a member together with an object.
`station`: a unit with one test takes three calls from start to finish, so that
`MaxCalls` 4 lets a session time out with a result in it, or a finish be repeated,
and a second session be started and finished (start, record, time-out, start,
finish); requests and faults together are at most `MaxEvents` = 4, so that a
history with a fault has three calls (start, record, reset, finish); `MaxInbox` 2
lets a retry wait behind a request already given up; `MaxHeard` 1 and `MaxFaults` 1
(a cut write, a text in between, a reset) keep it within minutes.
`timing`: the waits are the program's, 20 and 100 ms at 100 Hz; the 300 s and 5 s
are scaled to 15 and 12 ticks, still longer than one wait of a write; a text has
`MaxText` = 2 bytes, so that it is taken in one part, in two, or not at all; and a
turn computes `MaxWork` = 2 ticks at most. The proofs (section 4) have none of these
bounds where they reach.

Deadlock is checked in every run but two: in `request` the parser returns, and in
`station` the station has made its calls.

**Fairness.** Only liveness needs it, and it assumes two things: the task runs
whenever it can (`WF(Firmware)`: it is the application's only task, it blocks
only in reads and writes that time out after 20 and 100 ms, and in
`vTaskDelay`), and time passes (`WF(Tick)`); in `FactoryTiming` also that the
watchdog's interrupt is taken. Nothing is assumed of the station, of faults or of
resets: a station may stay silent for ever or send without end, every restore
may fail, and a board whose outputs can never be restored restarts for ever.
`ComesUp` therefore has its condition in the formula: faults cease. Which step
of the task is taken (which byte, which result) is never fair.

### Where documents and code disagree

1. *Sequence 0* (`claim_sequence_zero`). `docs/factory_protocol.md:18` reserves
   it for `ready` and `session.timeout`. An oversized line is answered under it
   too (`factory_protocol.c:338`), as is a lack of memory (`:55-60`).
2. *Cleanup failure aborts* (`claim_cleanup_failure`).
   `docs/factory_protocol.md:107` says so. An incomplete `session.finish`
   whose cleanup fails, a recorded FAIL whose restore fails, and a refused
   command whose error cleanup fails answer `cleanup_failed` and leave the
   session active.
3. *Every error path leaves outputs safe* (`claim_error_frame`,
   `CODEX_IMPLEMENTATION_PLAN.md:530` and `:686`). When a line grows too long
   the result of restoring the outputs is dropped (`factory_protocol.c:356`),
   and `frame_too_long` is answered whether it succeeded or not.
4. *Every response echoes `seq` and `cmd`* (`claim_echo`,
   `CODEX_IMPLEMENTATION_PLAN.md:93-94`). The parser takes over both or neither
   (`factory_request.c:137-145`): a request with a valid `seq` whose `cmd` is a
   string that is too long, or empty, is answered under -1 and "unknown", and its
   sender cannot match the answer.

Remarks that are not runs. `docs/factory_protocol.md:59-60` describes the
characters of `unit_id`; the parser takes any, and `factory_session_start` refuses
the id (`valid_unit_id`, `factory_session.c:9`) under another error code. `:75`
allows `unit` "up to 15 bytes" and `detail` "up to 95 bytes"; one that is there and
empty is refused with the whole request (`factory_request.c:94`).
`factory_session_init` looks at no state (`factory_session.c:32`) and
`factory_manifest_reset` is public (`factory_manifest.h:37`): either takes the
results of an active session with it; the firmware calls the first once, before its
loop, and the second only through the session. `docs/factory_protocol.md:27` says
what "every response includes"; a member that there is no memory for is left out
without a trace (`factory_protocol.c:65-78`), so `CompleteWithMemory` has "while
there is memory" as its condition. `docs/factory_protocol.md:101` measures the deadline from "the
last valid active-session command"; in the code only `session.list`, an accepted
`fixture.record` and `session.start` move it. And a lost reply to a successful
`session.finish` cannot be asked for again, because every command that shows the
session requires an active one; `RemoteCall` promises no more.

## 4. The proofs

Everything here is proved for every value of the constants: any finite table of
tests with any owners, any units, any deadline greater than zero, any clock
bound, any length of frame, any injective table of outputs and any levels, any
tick rate at which the poll is a whole tick, any bytes and objects in a line, any
number of failed allocations, any number of requests, cuts and resets on the
line. The assumptions are the named `ASSUME`s of the modules, which TLC evaluates
in the runs: `ManifestAssumption`, `SessionAssumption`, `CallsAssumption`,
`ProtocolAssumption`, `SafetyAssumption`, `TimingAssumption`,
`RequestAssumption` (bytes are below 256, objects are sequences of members),
`RepliesAssumption` (the order of the table names every test),
`StationAssumption` and `NothingAssumption` (no code and no frame is the mark for
none).

**The session** (`FactorySession_proofs`, `SessionCalls_proofs`). The inductive
invariants are

    SessionBase == SessionTypeOK /\ IdleBeforeInit /\ Traceable
    SessionInv  == SessionBase /\ VerdictSound
    CallsInv    == SessionBase /\ (~discarded => VerdictSound)

The firmware keeps `SessionInv`. Callers of the headers keep `CallsInv`: a table
that is reset from outside leaves a completed session its old counters, so that
`VerdictSound` returns only with the session's next state, while the rest of the
invariant never needed it.
`Traceable` needs the types (a `Tag` is made of the unit and start time).
`VerdictSound` needs `Traceable`: at the moment of a successful finish the
counters only say that every result is PASS, and `Traceable` that each was
recorded in this session. `IdleBeforeInit` is needed for `init`, which blanks
the table. `FactorySession_proofs` has one lemma per call (that it preserves
`SessionBase`, and `SessionInv` where that held, whoever calls it), so that every
specification that makes the calls cites the same lemmas. `SummaryComplete` is the step from counters to tests: no pending and no
failed entry in a finite table means that all passed. Theorems:
`SessionInvariant`, `TypeCorrect`, `ResultsTraceable`, `CompletedMeansPassed`,
`RecordedOnce`.

**The outputs** (`FactorySafety_proofs`). The properties are not inductive: that
enabling a driver is safe depends on the calls made before it, and that the
result means what it says depends on the pins already passed. The invariant
`IInv` adds how far the loop has come: `OutputProgress` and `ReleaseProgress`
(which registers of the current pin are already set), `PassedConfigured` (every
pin behind the loop is configured unless one of its calls failed) and
`ErrorKept` (the result is OK exactly while no call failed, and `s_verified`
is only set between two applies). `OutputStep` and `ReleaseStep` say
what each ESP-IDF call changes; the rest never looks at a call again. Theorems:
`SafetyInvariant`, `TypeCorrect`, `NeverDrivenUnsafe`, `VerifiedMeansConfigured`,
`FailureIsolated`, `DrivenForGood`.

**The firmware** (`FactoryProtocol_proofs`). The invariant `IInv` adds to
`SessionInv`: `ClockInv` (the session's time never lies ahead of the clock, so
touching cannot fail), `LineExact`, `BootInv`, `LabelInv` (which commands reach
which label, with the session still active), `SayInv` (what a success will say holds from
where it is decided to where it is sent, through ticks and the second cleanup)
and `OverdueInv` (an overdue session is overdue when it is checked and over
afterwards). One lemma per part. `VerdictStep` shows every step of the firmware
to be a step of `UnitVerdict` or a stutter; with `FirmwareInvariant` it gives
`KeepsPromise`. Theorems: `FirmwareInvariant`, `TypeCorrect`, `SaidIsSo`,
`ToldIsReached`, `NeverServedLate`, `CommandKeepsSession`,
`NoPassUnimplemented`, `LinesExact`, `KeepsPromise`. Two more are stated only
here: `ResultsKept`, that no step but a start or a restart touches a recorded
result, its evidence included (`UnitVerdict` knows only the verdicts); and
`MarkNeverRefused`, that the recording of the identity tests succeeds whatever
the tests are, so that leaving out the abort the code has for its refusal leaves
out nothing.

**The parser** (`FactoryRequest_proofs`). Two invariants that meet in the middle.
`TextInv` is about the scan: between two characters nothing is left over, and
inside one the bytes read are a beginning (`Begun`) whose code point is the
number they spell, so that the comparisons of the code with `0x800`, `0xd800` or
`0x110000` become statements about the second byte, which is how Unicode's table
puts them. `LeadBytes` and the lemmas after it are that arithmetic, for all
bytes. `ChecksInv` is about the checks: at each label, what the ones behind have
established of frame, object and request. `ParsedAsDescribed` follows at the end
of the chain, and in the other direction from the check that failed; that the
envelope is taken over exactly from an object that is `Identified` rests on the
absence of duplicate keys, which makes the field that is looked up the only one of
its name. Theorems:
`RequestInvariant`, `TypeCorrect`, `AcceptsOnlyWellFormed`,
`RefusesOnlyIllFormed`, `ParsesDescribed`, `AnswersAsAsked`.

**The replies** (`FactoryReplies_proofs`). None of the properties is inductive:
each speaks of the moment a reply has gone out. `HeapInv` says which objects exist
at each label, `PhaseInv` which command is there with which result, `ListInv` that
the items so far are true and as many as the loop has come to, `DoneInv` that the
data are true of the session the command left (`Told`) and, while no allocation
failed, complete; `RootInv` that the envelope has its fields right. `AddedFields`
(what a series of additions leaves, whichever were lost) and `LossCount` serve
every step; `ReturnedBare` and `ReturnedFields` every handler, so that a handler's
own lemma only has to show its fields true. Theorems: `RepliesInvariant`,
`TypeCorrect`, `VerdictsNeverDisagree`, `SessionTold`, `NoIdentifierFabricated`,
`ListIsWhole`, `CompleteReplies`, `NothingElseLost`.

**Board and station** (`FactoryStation_proofs`). `FramesInv` holds a frame to be
true wherever it is: being written, in parts on the line, heard. It survives
because what was performed never changes and a request is performed only once,
which `QueueInv` gives (requests wait in order behind all that were performed).
`DueInv` ties an undisturbed reply to what is on the line. For the verdict,
`OpenInv` says that an open session was opened by the last start that was
performed, that its passed tests were recorded since, and that none of these
requests is among those `lost`; `EarnedInv` that what a finish earned stays earned,
with `lostBy` the `lost` of that moment, which no later step changes; `ToldInv` joins it to the request the station waits
for. Every step is then a step of `RemoteCall` or a stutter. Theorems:
`StationInvariant`, `TypeCorrect`, `FramesTrue`, `PassIsBacked`,
`UndisturbedIsHeard`, `ServesCalls`.

**The time** (`FactoryTiming_proofs`). How old a session may be depends on how
far the turn has come: `AgeAt` gives the largest age at each stage, made of the
age that passes the check, what was computed since, the texts already waited for
(`Written`), the bytes of this one already waited for (`Spent`) and the wait in
progress. A call that takes several bytes spares the waits of the others, so the
bound is that of a station which takes them one by one (`BytesSpent`). `AgeInv` bounds `age` by it, and one turn adds up to
`LatestEnd`. `FedInv` does the same for the watchdog: without a byte the read
between two turns waits at least a tick, so the idle task misses two turns'
computing at most, which `TimingAssumption` puts below the watchdog's time.
Theorems: `TimingInvariant`, `TypeCorrect`, `NeverActiveTooLong`,
`SilentLineUnwarned`.

**Only model-checked**: `DeadlineResolved` and `ComesUp`, because
liveness under fairness is out of the prover's reach. Every other property of the
passing runs has its theorem. What a violation run refutes needs no proof: its
counterexample is one.

Each inductive invariant was checked on the states of its run before it was
proved.

## 5. What is not modelled, and why

- *The text of JSON*: cJSON reads and prints it and is external; of a string only
  its name and length, of a number what the checks look at. The UTF-8 scan in
  front of it is modelled byte by byte.
- *The digits of an identity*: no property depends on them. Which read fails and
  what the caller is then left with is modelled.
- *The driver's rings*: how ESP-IDF treats a text larger than its transmit
  buffer, and what it drops when its receive buffer is full. `FactoryStation` lets any
  write be cut anywhere, but requests reach the board whole: a station that waits
  for replies has at most one line of 767 bytes under way. How many parts the
  driver makes of a text is not known either: `FactoryTiming` allows one per byte, so
  that `LatestEnd` is a bound with any driver, and far from what a station that
  reads would see.
- *Tick rates below 50 Hz*: the poll of 20 ms would be no tick at all. The builds
  have 100 Hz, and `TimingAssumption` asks for a poll of a whole tick.
- *Output safety, two early returns*: a backend without functions and an apply
  before any backend, which the firmware never takes and which change nothing
  but a result.
- *ESP-IDF*: what its calls do to registers is external and modelled as
  documented there. Two facts about it matter and lie outside this repository:
  the level read back from a pin in `GPIO_MODE_OUTPUT`, whose input path is off
  (`factory_safety_esp.c:17`), and the pull-up that `gpio_reset_pin` enables on
  PSW_EN until the pull mode is set two calls later (`:27`). The model lets
  the read-back agree or fail, and lets the pull-up appear.
- *A clock that goes back or overflows 64 bits* is left out of
  `FactoryProtocol` (`esp_timer_get_time` is monotonic); `SessionCalls` covers
  decreasing and negative timestamps.
- *The rest of the build configuration*: of some 700 generated options per header
  only those the program's behaviour rests on are in `FactoryBuilds`.
- *Tests and build files*: no run-time behaviour.

## 6. Plan

Done: manifest and session under any caller, the outputs, the whole firmware and
its promise, exact framing, the parser, the replies, the station, the time.
Every safety and action property the runs check, and both refinements, are
proved but for liveness. What remains, in order:

1. **One promise for every view** — `FactoryReplies` and `FactoryStation` shown to
   implement `UnitVerdict` too, so that the three views of the handlers agree on
   what becomes of a board.
2. **Safety as a component** — `FactorySafety` shown to implement the one-step
   restore of `FactoryProtocol`, as a refinement.
3. **Ends, by counting** — for the loop over the table and for the scan of a line,
   a rank that every step lowers: the part of "it ends" that needs no fairness.
