# Specifications of the access-control unit

The program in `src/` runs a gate: a card is held against a reader, the unit
looks the card's owner up with the server or in its local copy of the
database, decides, opens the door with a relay, shows and sounds the result,
takes a picture, and records the visit. It has to go on doing so while the
network is away, while the power fails, and for years without anybody touching
it. It is a dozen threads of C++ that share objects with few locks, and this
directory is a model of them: TLA+ modules of the components, the TLC runs that
check them on small instances, and theorems that TLAPS has checked for
instances of any size.

`PROJECT.json` is the index: components, runs, the source lines of every
definition, the hazards and which property watches which, and the theorems.

## 1. The system

| Component | State | Operations | Threads |
|---|---|---|---|
| MainDelegator (`maindelegator.cpp`) | flags `m_bProcessingRfidData`, `m_serialRfidRuning`, `m_bTimeAvailable`, `m_bNetworkAvailable`; the LEDs and the relay; `cbTimer`'s `count` | constructor, `onData` (a card), `cbTimer` (every minute), `checkNetwork`, `displayNetworkStatus`, `getSeverTime`, `checkValidate`/`checkZone`/`checkDate` | constructor, card reader, debug console, timer |
| EmployeeInfoMgr (`employeeinfomgr.cpp`) | the cache `m_vectorEmployeeInfo`, `m_bUpdated`, files `employee.xml`, `employee_temp.xml` | `updateLocalDB`, `getInfo`, `searchDB`, `deleteCache`, `fillEmployeeInfoes` | timer and constructor; card readers |
| TimeSheetMgr (`timesheetmgr.cpp`) | list `m_listTS`, spool directory `timesheets/` | `insert`, `upload` | card readers; timer |
| WebService, WebApi (`web/webservice.cpp`) | a socket, a status and a result per request | `request_*`, `processCmd`, `run`, `parsing` | the caller's, or the request's own |
| SwitchGpio (`hardware/switchgpio.cpp`) | the pin, `m_timer`, `mtx` | `on()`, `on(msec)`, `on(arr, repeat)`, `off()` | card readers, timer, one thread per Timer |
| Timer, Condition, Mutex (`tools/`) | `m_active`, `m_repeat`, `m_bWait` | `start`, `stop`, `run`, `run_array` | one thread per Timer |
| LogService, Queue (`tools/logservice.cpp`, `tools/queue.h`) | the queue of entries, `m_available` | `sendMessage`, `push`, `pop`, `exit`, `run` | all threads write, one reads |
| SerialRfid (`serialRfid*.cpp`) | the last card and its time | `run`, `requestData` | its own |
| CameraStill (`camera/`) | the OpenMAX components, a semaphore, the picture | `takePicture`, the encoder's callbacks, the delay-off timer | card reader, OpenMAX, a Timer |
| WavPlayer (`tools/wavplayer*`) | the flag `bPlaying`, one buffer and the device for all its threads | `play`, `stop` | card reader, one thread per sound |
| FifoService (`fifoservice.cpp`) | a pipe | the debug commands, one of which is a card | its own |
| Settings, INI, base64, file system, network, serial ports, Qt front end | tables, buffers, widgets | reading, conversion, system calls | - |

How they interact. The constructor of MainDelegator builds the components one
after the other; the card reader's thread is started *before* the employee
manager, the time sheets, the camera and the player exist. The reader's thread calls
`MainDelegator::onData`, which calls `EmployeeInfoMgr::getInfo` (a request to
the server, or the cache), `checkValidate`, the LEDs and the relay, the player,
the camera, `TimeSheetMgr::insert` and `displayNetworkStatus`. The housekeeping
timer calls `cbTimer` a minute after it has last returned: at counts 6, 7 and 8
of ten it reports the status, uploads the sheets and updates the database, but
not while `m_bProcessingRfidData` says that a card is being processed. There
are no locks between these two threads except the ones inside a component.

What is hard here:

* **interleaving**: `onData`, `cbTimer` and the constructor share flags, LEDs
  and components without a lock; `Timer` and `SwitchGpio` take two mutexes in
  opposite orders; a condition variable is signalled only if a flag says that
  somebody waits.
* **objects that are gone**: a timer's callback deletes the timer it runs in;
  `searchDB` hands out a pointer into a cache that another thread empties.
* **failure**: a request may fail before or after the server has acted on it,
  it may never return, and the power may be lost at any step of a swap of files
  or of a write into the spool.
* **numbers**: dates that are compared field by field, zone codes read from a
  table, offsets into a text that is sent in parts, a check sum whose expression
  does not compute one, and a code whose last group is a special case.
* **numbers of the system that are used again**: a descriptor or a `pthread_t`
  that one request still holds may be another request's by then.

What makes each component correct:

* *Time sheets*: no visit disappears unaccounted for; none is recorded twice
  without a failure; each is recorded in the end; a visitor is not made to
  wait for ever while sheets are sent.
* *Employee database*: a broken download is never loaded; what the gate says of
  a card was true in some version of the database not older than its cache; a
  failed update takes nothing away; the cache catches up.
* *Pins*: every pulse ends; nothing ends a pulse early; switching off returns.
* *Log*: what is accepted is written, in order, and the end of the log ends its
  thread.
* *Gate*: the flag that holds up the housekeeping is always put back; the
  housekeeping's jobs recur; only one reader is started; the display shows what
  the program believes; nothing is used before it is built.
* *Camera*: a picture shows the visitor it is recorded for; the camera is not
  switched off under a capture, and is switched off after it; the card handler
  gets its thread back.
* *Requests*: a call that returns a value has had its request carried out, one
  that throws leaves that open; nothing is carried out twice; the object, the
  socket and the thread of a request are its own.
* *Card readers*: what is reported is a card that is there, once per visit, and
  a card that is there is recognised.
* *Sounds*: a sound is cut short only by a stop.
* *base64*: what is decoded is what was coded, and the code fits its buffer.
* *Rules*: those are admitted whom the rules admit, and a contract is one
  stretch of days.

## 2. The modules

| Module | Models | Run by | Proved in |
|---|---|---|---|
| `Outbox` | abstract: an at-least-once outbox | (refined by `TimeSheet`) | |
| `TimeSheet` | TimeSheetMgr, its two requests, the spool directory, power losses | `MCTimeSheet` | `TimeSheetProofs` |
| `SwitchGpio` | a pin, its Timers and their threads, Condition | `MCSwitchGpio` | `SwitchGpioProofs` |
| `EmployeeDb` | EmployeeInfoMgr, its downloads, files and cache, power losses | `MCEmployeeDb` | `EmployeeDbProofs` |
| `Fifo` | abstract: a first-in first-out channel that can be closed | (refined by `LogQueue`) | |
| `LogQueue` | LogService, Queue and Condition | `MCLogQueue` | `LogQueueProofs` |
| `Gate` | MainDelegator: constructor, card threads, housekeeping, status display | `MCGate` | `GateProofs` |
| `CameraStill` | CameraStill, the encoder's capture threads, the delay-off Timer | `MCCameraStill` | |
| `Request` | abstract: what callers of WebService count on | (refined by `WebApi`) | |
| `WebApi` | WebService's requests: WebApi, its thread, socket and answer, Thread, itoa | `MCWebApi` | `WebApiProofs` |
| `CardReader` | SerialRfid with its three devices, AsyncSerial | `MCReception` | |
| `WavPlayer` | the sound player's threads | `MCReception` | |
| `Reception` | composes `CardReader` and `WavPlayer` by `onData` | `MCReception` | |
| `Base64` | the encoders and the decoder, as functions | `MCBase64` (extended by `MCWebApi`) | `Base64Proofs` |
| `AccessRules` | checkValidate, checkZone, checkDate, the comparisons of Date | `MCAccessRules` | `AccessRulesProofs` |

`Gate` is the module in which the components meet. It keeps of each component
what its callers can tell: whether it has been built, and whether a call can
hold its caller. What happens inside the call is the component's own module:
the steps "getInfo", "record" and the jobs of `Gate` are one call each of
`EmployeeDb`, `TimeSheet` and `AccessRules`, and its pins are `SwitchGpio`s.

Each of these modules states its type invariant `TypeOK`. That of `TimeSheet` is
in its run, and it is proved for every module that has a module of proofs; those
of `CameraStill`, `CardReader`, `WavPlayer` and `Reception` hold in their
instances and can be put into their `.cfg` files, but nothing else depends on
them.

In every module a step is what one thread does between two points at which
another thread can see or change something: between two lock operations, two
accesses to a shared flag, two file operations, or the sending of a request and
its answer. Variables carry the names of the code's members. A variable that is
commented "history" does not exist in the code and no guard reads it; it
remembers what a property needs.

### TimeSheet

`insert` is two steps, because the sheet exists before it can take `mtx`.
`upload` is a program counter: it lists the spool directory, sends the files
one by one and deletes those that the server took, then takes `mtx`, tries each
queued sheet and erases those that the server took. A failed request for a
queued sheet writes it to a file named by its time stamp *and leaves it in the
list*, hence it is sent twice at least. A step of the server (`Stores`) may
happen even when the request then fails. `Reboot` empties the memory and keeps
the directory; between `OpenFile` and `SaveFile` it leaves a torn file.

What the properties say:
`Accounted` (every sheet is queued, in its file, at the server, lost with the
memory, or in a file that is torn or that another sheet of the same second has
replaced), `DuplicateOnlyAfterFailure`, `LastCopyKept` (no step drops the last
copy except a loss of power and the shared file), `OutboxSpec` (the refinement of
`Outbox`), `Delivery`, `InsertReturns`.

The model shows what is *not* true of the code, as the exceptions in these
properties: two sheets of the same second share a spool file; a torn file is
refused for ever, and as the exception ends the round, nothing behind it is
ever sent (`Jammed`).

### SwitchGpio

One pin and the `Timer` objects that exist for it at a time. `off` is two steps
(`OffLock`, `OffStop`): it holds the pin's `mtx` while it waits for the timer's.
A timer's thread waits, times out, fires its callback under its own mutex, and
returns. `notify_one` reaches a thread only in the wait and only if `m_bWait` is
set. `cbOnTimer` deletes what `m_timer` points to, which after a second `on` is
another thread's timer; what `Timer::run` then writes into the deleted object
hits either nothing or the Timer allocated there since.
A wait may run out at any moment: `timedwait` counts in `CLOCK_REALTIME`, which
`getSeverTime` sets, so that no wait has a length one could rely on.
`UsesAssumption` says that no pin both pulses and blinks, which is how
`maindelegator.cpp` uses its pins (lines 185, 195, 203, 204 and 453).

`PulseEnds`: every pulse ends, however pulses overlap: the door is never left
open. `PulseHasTimer`: a pin that a pulse has set is waited for by a thread of a
Timer, which its callback deletes and no other's unless pulses overlap.
`PulseIntact`: only an overlapping pulse is cut short. `OffReturns`: `off` is
held up by nothing but `LockInversion`, the state in which it holds the pin's mutex and wants the
timer's, while the timer's callback holds that and wants the pin's. This state
*is* reachable: a card at the very end of the LEDs' 1.5 seconds stops the card
reader for ever. `StoppedBlinkEnds`: the blinking timer ends although its
notification may be lost. `use`, chosen in the initial state, says whether the
pin is one that pulses or one that blinks.

### EmployeeDb

The server's table goes through versions. `updateLocalDB` is: begin, download
(into `employee.xml` if there is none, else into `employee_temp.xml`), delete,
rename, `deleteCache`, `fillEmployeeInfoes`; each step may fail, hang or be cut
by a loss of power. `getInfo` asks the server, or, if that fails,
`searchDB` finds a record under the lock and copies it after the unlock.

`WholeFileLoaded`, `MissOnlyWhileReloading`, `Converges` and
`AnswerJustified`: each answer is true of a version between the cache's when
the card was read and the server's, except in the code's two windows: between
`deleteCache` and `fillEmployeeInfoes` every card is unknown, and a record
deleted between `searchDB` and the copy may be read as another card's.

### LogQueue

`sendMessage` (stamp, then `push`), `push` and `exit` with `notify_one`, and
`run` with `pop`'s wait, its check, and the write. Spurious wake-ups are
included here: the wait is in a loop. `NoSleepOverEntries`: the writer never
sleeps while entries are queued. `FifoSpec` (the refinement of `Fifo`: nothing
accepted is lost, doubled or overtaken, and nothing comes after the end),
and `Drained`: whatever was accepted is written, and `exit` ends the thread.

### Gate

The constructor is a list of `Stages`; every card thread is a program counter
through `onData`; `cbTimer` is one through its nine tests. `displayNetworkStatus`
is three steps (test the flag, tell the listener and the LED, set the flag) that
any of them may be in at once. Members without an initialiser start with any
value. Using a component that is not built ends the program (`crashed`); a
thread in `hung` is one that a request or a pin never gives back. The player is
a stage like the others: `play` may be called before it is built, since it does
not use its object, but the thread it starts then prepares a device that is null
(`PrepareSound`, `sounding`), and with `UseSound` (`m_bSound`) that ends the program.

`FlagsRight` (the housekeeping is held up only while a card is processed, and
one reader at most is started), `OneResult`, `OnlyEarlyCardsCrash` (the program ends
only before the player, the last of the components, is built, by a card that uses
one that is missing or by the sound of such a card), `LedAgrees` (display, LED and
flag agree unless two threads changed the status at once), `JobsRecur`, `TimeIsSet`:
the flag is TRUE in the end, and it was FALSE before, or the constructor has set
it; it does not stand at the value that the memory happened to hold, with nobody
asking. The code has one behaviour in which it does, which the formula states as
its exception: the memory held TRUE and the constructor's own request never
returns.

### CameraStill

`takePicture` takes `mtx`, stops the delay-off Timer if it is active, makes the
camera ready, starts a capture and its thread, gives `mtx` back, resets the
semaphore and waits. The capture's thread offers the one buffer, waits for
`sem_EventComplete`, looks at `m_bufferStatus`, posts a frame to `takePicture`,
and at the end of the stream starts the Timer, whose callback `returnResources`
switches the camera off and deletes it. What OpenMAX does in between is
external: `stream` is what it has still to deliver, each piece at any time or
never.

`OwnPicture` and `NotUnderCapture` are action properties with two excuses, both
reached. `mixed`: an earlier capture was not over when this one began (its call
has timed out and another visitor has come); the threads of the two then share
one buffer, one status and one semaphore, and a frame may be taken for another
visitor's. `strays`: `stop` notifies a thread only in its wait, so a thread that
has just timed out, or has not begun to wait, fires after all; and a notified
thread that wakes up late clears `m_active` of the timer started since, which
the next `takePicture` then does not stop. `TakePictureReturns` excuses
`Wedged`: the same lock inversion as in `SwitchGpio`, here between `mtx` and the
Timer's mutex; a `change_state` whose event a capture's thread has taken; and
the end of the program in `cbEndOfStream` of a deleted camera.

### WebApi

A call builds its text (`Call`, `itoa` digit by digit into its static buffer,
`BuildHeader`), creates the thread (`CreateThread`; `m_thread` is assigned in the
next step, `AssignThread`, and the thread may be over by then), and joins or
detaches it. A synchronous call takes `m_status` and deletes the object:
`CloseSocket`, the destructor's own second join, `DeleteApi`. The thread is
`Socket`, `Connect`, `Send`, `PollIn`, `Parse`, `Receive`, and for a request with
a callback `DeleteThis`. Each may fail; `Parse` may follow a null pointer in an
answer that has not come whole, and `Receive` never ends when the connection is
lost. Descriptors and `pthread_t`s are the smallest free and any free one, and
are used again. The server processes a whole text, refuses a garbled one, answers
in parts, and may close.

`poll` may fail for every request and time out for a synchronous one. A `send` on
a connection that the server has closed may end the process with a SIGPIPE that
nobody handles (`BrokenPipe`, an outcome of `Fault` as the use of a deleted object
is; it may also be the error that `Send` returns).

Two things go wrong in the code and are reached by the run. `~Thread` joins once
more a `pthread_t` that `processCmd` has already joined (`tools/thread.h:99`); if a
new request's thread has it by then, the wrong call waits, and the right one
returns at once and deletes a WebApi whose thread is running (`reused`). And a
status of `RET_FCNTL_FAIL` is not thrown: the call goes on with a deleted object,
and closes its descriptor, which may be another's, once more. `Sound` says that
neither has happened.

* `UsedAlive` names who uses a deleted object: the call of an asynchronous
  request, whose thread may delete the WebApi before `processCmd` has read it; a
  request with the status `RET_FCNTL_FAIL`; and one in `reused`. Each excuse is the
  request's own: what happens to one excuses no other.
* `NoLeak`: a request whose call has returned and whose thread is over has closed
  its descriptor, whatever its status, unless it is in `reused`: its early join lets
  `~WebApi` close before `run` has opened.
* `RequestSpec` (the refinement of `Request`) and `OwnDescriptor` are promised
  while `Sound`: a stray close or join hits whoever has the number by then, so one
  such request may harm the others.
* `SentWhole` is promised while `Sound` for a text that was sent in one or two
  parts, since from the third on the offset is wrong; that the header tells the
  right length is promised always.

`errno` is each thread's own and 0 when `run` begins, so that a `connect` which
succeeds at once is taken for a failure (`Connect`).

### CardReader, WavPlayer, Reception

The 1356M and the 900M answer a request; the 1356M2 sends a frame by itself. The
line is a sequence of pieces of frames, two to a frame; a read brings all that
has come, or all but a last piece. `Open` leaves the rest of the device's answer
on the line. `Read` is `requestData` from the read on: length, header or check
sum, the comparison with the last number, and the six seconds. The check sum is
computed as C++ reads the expression, with `^^` on bytes.

`FreshCard`: a report is of a card that was in the field since the request (it
holds because an answer that does not come in time ends the program, which the
mutant that catches the exception shows). `OncePerVisit`, `GoodFrameTaken`. They
excuse `tangled`, a line that has got one answer ahead, from `open`'s rest or
from two frames read at once, and a clock that was set. Two or three frames that
come together in mode 1356M2 are refused or mixed; and without a port this mode
waits on descriptor -1 for ever. `CutByStop`: a sound's thread ends early only
after a stop. The converse is false: `play` sets the flag again, and a thread that
has not looked at it since the stop plays on beside the new one.

### Base64

Functions from sequences of bytes to sequences of letters and back. `base64e`
compares with `>` where `>=` was meant and reads a byte behind the data: `past`
is that byte, and it makes no difference to what is decoded. `MCBase64` tries the
functions as `ASSUME`s, which TLC evaluates in the run `web_api`.

### AccessRules

One gate, one employee, any days. `Card` asks `checkValidate`; `LaterDay` and
`ClockSetBack` move the date. A record without a type has an uninitialised one,
which may be any. `GrantMatchesRules` compares `checkZone` with its table turned
round (the zone codes by location instead of the locations by zone code) and
`checkDate` with the calendar's count of days. `OneStay`: who was admitted and
then refused is not admitted again unless the clock goes back.

## 3. The runs

| Run | Instance | Shows |
|---|---|---|
| `timesheet` | 2 sheets, 2 stamps, 2 inserting threads, 1 power loss | all of TimeSheet's properties, with the refinement of `Outbox` |
| `leds` | 2 threads, 3 Timers, `on(msec)` and `off`; 2 threads, 2 Timers, blinking and `off` | relay and result LEDs; the yellow LED |
| `employee_db` | 2 cards, 1 reader, 2 changes at the server, 1 power loss | all of EmployeeDb's properties |
| `log_queue` | 2 threads with 3 entries each | all of LogQueue's properties |
| `gate_safety` | 2 possible readers, the console, the timer, the constructor | Gate's safety |
| `gate_live` | 1 reader, the timer, a constructor that may hang | `JobsRecur`, `TimeIsSet` |
| `gate_local_db` | 1 reader, `LOCAL_DATABASE` set | a violation, see section 6 |
| `camera_still` | 1 card thread, 2 captures, 2 Timer threads | the camera's safety |
| `camera_live` | 1 card thread, 1 capture at a time, 2 Timer threads | `TakePictureReturns`, `CameraReturned` |
| `web_api` | 2 requests: one POST in 3 pieces with a time limit, one that may be asynchronous or reads its answer to the end; 2 descriptors, 2 `pthread_t`s | WebApi's properties with the refinement of `Request`; base64 on short data |
| `reception` | 2 cards, all 3 readers, 2 requests unanswered, 2 frames on the line, 2 players of 2 buffers | the card readers and the player |
| `access_rules` | 13 zone codes or none, 6 locations, 2 lists, 8 dates | the rules |

Why these bounds are enough to be interesting:

* *2 sheets, 2 stamps*: two sheets that share a second and hence a file, or do
  not; *2 gate threads* so that an insert can come between any two steps of
  another; *1 power loss* is what separates memory from disk, and a second one
  starts from a state that the first can reach. (The invariants hold with three
  sheets too, in 1.7 million states; that is too many for the liveness
  properties in one run, so the run has two.)
* *3 Timers*: two overlapping pulses and the returning thread of a third, which
  is the most that can touch one `m_timer`. A Timer identity is used again when
  nothing refers to it, so pulses go on for ever.
* *3 versions*: a cache, a download and a server that all differ. *2 cards*: a
  card and the one whose record it may be mistaken for. One reader, as readers
  do not see each other; `UseLocalDB` is FALSE, the case with more behaviours
  (with TRUE `getInfo` goes to the cache at once, as it does after a failed
  request).
* *3 entries for each of 2 threads*: the queue empties and fills again around
  `exit`.
* *2 readers in `gate_safety`*, so that a second one could be started;
  `MayHang = {}` there, because for safety a held thread is one that takes no
  further step, and every behaviour in which it does not is already there. In
  `gate_live` only the constructor may hang: the properties excuse a held card
  or timer thread (`Stuck`) and so would say nothing about it. `UseSound` is TRUE in
  `gate_safety`; in `gate_live` it is FALSE, because all that a sound can do to the
  gate is to end the program early, which `Stuck` excuses too.
* *2 requests*: one can hold what the other is given; three pieces are the least
  that garbles a text. Each is called once: a further call finds nothing that a
  call of the other has not left. The digits' counts differ, 1 and 2, so that one
  call's digits can lie in front of the other's.
* *2 cards* before a reader: the one reported and the next; one of the two has
  a number whose first three bytes have the sum zero, the case in which the
  check sum's expression is at its most fragile. *2 requests unanswered*: a late
  answer and the one it is taken for. *2 players*: the old one and the new.
* base64: all lengths of the last group after none, one and two whole ones.
* *2 captures* in `camera_still`: one may run on under the next. A third adds
  only a second one that runs on, which `mixed` already excuses. A capture's
  identity is used again when nothing of it is left; `Lock` waits while all are
  in use, which is a bound. *2 Timer threads*: the timer's and a stray;
  `cbEndOfStream` waits for one that is free, a bound too. With one capture in
  `camera_live` captures do not overlap, and of the excuses of its properties it is
  the lock inversion that occurs; a `change_state` whose event another capture's
  thread takes (`ReadyHangs`) needs one that runs on, as in `camera_still`. So
  `camera_live` shows that nothing *else* holds a call up.
* *8 dates*: both ends of a month and of a year, in two years; all pairs of a
  first and a last day, and "none".

Deadlock is checked except where the system stops: `gate_*` (an early card ends
the program), `log_queue` (all entries made, `exit` called), `employee_db`
(all changes made and every request hung), `leds` and `camera_*` (the lock
inversions are real deadlocks), `web_api` (the calls are over, or one waits for
ever), `reception` (an uncaught time-out ends the program).

### Fairness

* `TimeSheet`: `upload` is called again and again by the timer (WF); a gate
  thread gets `mtx` in one of the gaps between rounds, which are minutes long
  (SF); the network is not away at every attempt for a given sheet or file (SF).
* `SwitchGpio`: timers' threads run, their waits are finite, and a mutex that is
  free again and again is got by the thread that wants it (SF on each timer's
  thread and on the step of `off` that wants the timer's mutex).
* `CameraStill`: the same for the calls that have begun, the captures' threads
  and the Timer's (SF on each thread, which does nothing else while it waits).
  OpenMAX owes nothing: no fairness on `FillBufferDone`. Nobody is forced to
  call.
* `EmployeeDb`: the thread of `updateLocalDB` runs (WF); ticks are a minute plus
  the time of the requests apart, so that on some day one falls in the minute
  3:00 of the forced update (SF on `Begin(TRUE)`); the network is not away at
  every attempt (SF). The readers need no fairness.
* `LogQueue`: the writer's thread runs (WF). Nobody is forced to log.
* `WebApi`, `Reception`: safety only, no fairness. A call may in fact wait for
  ever, in `Receive`.
* `Gate`: every thread runs (WF on each); ticks do not *all* come while a card is
  processed (`NotAlwaysBusy`; the code gives no such guarantee at a gate that is
  always busy, where the housekeeping really starves); the server is not away at
  every tick (SF), and does not answer every request for the time with an empty
  text (SF).

## 4. What is proved

TLAPS has checked the following for every value of the constants; the
assumptions are the `ASSUME`s of the module (the special values differ from the
real ones, bounds are naturals, the dates' months and days have two digits).

**`TimeSheetProofs`**: `Typing`, `SheetsAccounted`, `NoNeedlessDuplicate`,
`KeepsLastCopy`, `Refinement`. None of the properties is inductive.
`Accounted` needs to know *where* a sheet can be, so the invariant is
`IInv == TypeOK /\ RoundInv /\ PlaceInv /\ SpoolInv`: `RoundInv` is the shape of
a round of `upload` (who holds `mtx` when, that the erase list has been stored,
that the file about to be deleted holds a stored sheet, that a torn file is the
current sheet's while it is being written); `PlaceInv` says that a sheet is on
at most one gate thread and then nowhere else, that a file holds only a sheet of
its own stamp for which a request has failed, and that a stored sheet is still
queued only if it waits to be erased or has failed before; `SpoolInv` says what
can have become of a spooled sheet. One lemma per conjunct, one step per
action. The refinement maps the outbox to the list plus the directory; only
`EraseAndUnlock`, `DeleteFile`, `SaveFile` and `Reboot` take something out of
it, and lemma `ForgetsStored` says that without a power loss it is something
the server has.

**`LogQueueProofs`**: `Typing`, `NoLostWakeup`, `Refinement`.
`IInv == TypeOK /\ NoSleepOverEntries /\ PlaceInv /\ SentinelInv`: every accepted
entry is written, in the writer's hand, or in the buffer, in this order
(`PlaceInv`, by position in the sequences), and behind them stands the NULL of
`exit` until it has been popped (`SentinelInv`). The refinement follows: `push`
is `Fifo`'s accept, `write` its delivery, `runEnds` its end, and all others
stutter.

**`AccessRulesProofs`**: `DateOrder` (the comparison field by field is the
calendar's), `Typing`, `Rules` (`GrantMatchesRules`) and `Stay` (`OneStay`). The
invariant adds that a stay has begun on a day on which the employee was
admitted, and that one that is over ended after his last day; that needs
`DateOrder`, since the days in between are only known to be ordered.

**`EmployeeDbProofs`**: `Typing`, `WholeFileIsLoaded`, `AnswersAreJustified`,
`MissesOnlyWhileReloading`, for any cards, readers, changes and losses of power.
`IInv == TypeOK /\ FileInv /\ ReaderInv /\ AnswerJustified`. `FileInv` follows the
two files through `updateLocalDB`: what has been downloaded and is about to be
swapped in is a whole version, so that a torn file is never under the name that
`fillEmployeeInfoes` opens when it opens it; and once something has been loaded,
the cache is empty only at "fill", which is all that
`MissesOnlyWhileReloading` needs. `ReaderInv` carries `AnswerJustified` over the
steps in between: a reader that has left `searchDB` and not yet copied has found
its card in a version that the answer may stand for (and if the record goes
before the copy, `stale` is set). The server only adds versions, so what was
justified stays so.

**`SwitchGpioProofs`**: `Typing`, `PulsesHaveTimers`, `OffUsesALiveTimer`,
`PulsesStayIntact`, for any users and timers. `PulseHasTimer` is inductive only
with three facts beside the types: on a pulsed pin every timer runs `Timer::run`
(`KindInv`, from `UsesAssumption`); unless pulses overlap, the one timer whose
callback is still due is `m_timer` (`OwnTimer`), so that `cbOnTimer` deletes its
own; and `m_timer` never dangles and is there as long as `off` waits
(`OffHasTimer`). No run lists the last; it says that `off` never calls `stop` on a
null pointer or on a Timer that its callback has deleted, although `off` looks at
the timer and stops it in two steps.

**`GateProofs`**: `Typing`, `FlagsAreRight`, `OneResultOnly`, `OnlyEarlyCardsEndIt`,
`LedShowsTheNetwork`, `UnknownOnlyFromLocalDb`, for any readers and consoles and
whichever threads may hang. `ThreadInv` says who runs when: the timer from stage
8 on, after the player, card threads after stage 1, no reader unless
`m_serialRfidRuning`, one at most, and a sound without a device only before the
player is built; `OnlyEarlyCardsEndIt` follows, since the player is the last
component that is built (`PlayerIsLast`), and by the time the housekeeping runs
all that it uses is there. `FlagInv` names the thread for which the flag is set.
`ResultInv`: while cards do not overlap, one is processed and no result is lit
before its own is known. `LedInv` is the argument for a display without a lock:
while no two threads are between test and store, at most one is, what it is
about to tell differs from what is remembered, and only between its two steps is
the display ahead. `UnknownOnlyFromLocalDb` limits the finding of section 6: with
`LOCAL_DATABASE` off (the hypothesis `~UseLocalDB`), `bServerActive` is not -1
when it is told, because `getInfo` has then always asked the server
(`ServerInv`).

**`WebApiProofs`**: `Typing`, `UsedWhileAlive`, `TextsAreSentWhole`,
`NothingIsLeftOpen`, `DescriptorsAreOwn`, `CallsAreRequests` (the refinement of
`Request`), for any number of requests, descriptors and thread identities, any
lengths, and any number of calls at once. `IInv == TypeOK /\ CourseInv /\ ItoaInv
/\ AnswerInv /\ SoundInv /\ OwnerInv /\ FreshInv /\ DeletedInv /\ MisusedInv /\
UsedAlive`. `CourseInv`, `ItoaInv` and `AnswerInv` hold whatever is mixed up: how far a call and its thread can be;
that `itoa`'s shared buffer holds each finished call's digits (they are written
by position, and position 0 never, so two calls at once get the right *length*,
lemma `LengthIsRight`); and that an answer is there only if the request has been
processed or the answer says otherwise. `SoundInv` is what holds while `Sound`,
which once false stays false (`SoundBack`): a `pthread_t` is its creator's from
`CreateThread` to the one join that ends it (`Identity`), a status that a call
takes is its own thread's (`Outcome`), a descriptor belongs to a request exactly
while its object still has to close it (`SocketInv`), and what has been sent is a
prefix of the text until a third part is sent from the wrong offset (`Sent`).
That none of these is true without the others is why they are one invariant: the
descriptor is own because the thread was joined, the thread was joined because
the identity was own. `UsedWhileAlive` and `NothingIsLeftOpen` do not rest on
`Sound`: `FreshInv` says the same of *one* request that is not in `reused`, whatever
the others do. While it needs its `pthread_t` that is its own and every other
request that has ever had it has returned (`Alone`), so its call is past the join
only when its thread is over (`Past`), and a descriptor it has is still to be closed
by its object (`SocketIn`). That other requests' threads cannot give this `pthread_t`
back needs `OwnerInv`: a thread that runs owns what its object holds, although joins
and detachments may go astray. `DeletedInv` says that a call that goes on after it
has deleted its object has the status `RET_FCNTL_FAIL`. The refinement maps `Call` to `Ask`, `Serve` to `Process`,
and `CloseSocket`, where a synchronous call takes its status, to `ReturnValue` or
`Throw`; all else stutters, or ends `Sound`.

**`Base64Proofs`**: `RoundTrip`, `RoundTripOfBase64e2`, `BufferHolds`, `HttpCode`,
`HttpRoundTrip`, for data of any length. The argument goes letter by letter: a
sextet of three bytes is less than 64 (`SextetOf`), the decoder's table undoes
the encoder's (`Tables`), a position is a group and a place in it (`Grouping`,
`Position`), the three bytes of a group come back from its four sextets
(`First`, `Second`, `Third`, the last with the padding), and the padding counted
is what the length lacks (`EncodeLen`, `EncodeBlanks`).

## 5. What is only model-checked

* *Liveness everywhere*: `Delivery`, `InsertReturns`, `PulseEnds`, `OffReturns`,
  `StoppedBlinkEnds`, `Converges`, `Drained`, `JobsRecur`, `TimeIsSet`,
  `TakePictureReturns`, `CameraReturned`. The proof system has no rule for
  fairness.
* *The camera*: `OwnPicture`, `NotUnderCapture`. Their invariant would have to say
  whose frame the semaphore counts, over captures that run on; it is not written
  yet.
* *Card readers and sounds*: `FreshCard`, `OncePerVisit`, `GoodFrameTaken`,
  `CutByStop`. The check sum of the readers is computed with `Bitwise`, whose
  operators are recursive, and the prover loses its arithmetic in a module that
  reaches a recursive operator.

## 6. What the models found

*A finding.* `maindelegator.cpp:177` says of `bServerActive` "-1:unknown, 0:dead
1:alive". With `App::LOCAL_DATABASE` set nothing is asked of the server and the
value stays -1; line 234 passes `(bool)bServerActive`, which is true: every card
switches the display to "Server ON", also when `checkNetwork` has just found the
server away. Run `gate_local_db` violates `UnknownNotShown`.

*Exceptions the properties had to make*, each a behaviour of the code that the
runs reach: the shared and the torn spool file (`TimeSheet`); the lock inversion
of `off` and `cbOnTimer`, and the deletion of a later pulse's timer
(`SwitchGpio`); the record read after its deletion, the empty cache while
reloading, and requests that hang (`EmployeeDb`); the card that comes before the
constructor has finished, in a component or in its sound's thread, the flag
`m_bTimeAvailable` that happens to be TRUE in the memory while the constructor's
request hangs, and the status changed by two threads at once (`Gate`); overlapping captures, the missed stop and the wedged calls
(`CameraStill`); the `pthread_t` joined twice, the status that is not thrown, the
deleted WebApi of an asynchronous request, the third part of a text (`WebApi`: the
first three excuse the request they happen to in `UsedAlive`, only the first does in
`NoLeak`, and the first two end what `RequestSpec` and `OwnDescriptor` promise);
the line that is an answer ahead and the clock that is set (`CardReader`); the
record without a type (`AccessRules`). The code, its comments and its tests
promise nothing about them, so they are listed as hazards; the `note` of each of
these hazards says that the code meets it and what its properties show beside it.

*base64.* `base64d` does not know the `-` that `base64e2_http` writes for 62, and
takes it for 63. `tools/test/test_base64.cpp` codes with the one and decodes with
the other: it gets its picture back only if the code has no `-` (`HttpRoundTrip`
and `HttpCodeIsOneWay`). The program itself never decodes that code.

## 7. What is left out

* *In modelled parts*: wording, formatting and the content of messages; the
  photo; a spurious wake-up of `Timer`'s wait, which POSIX allows and which the
  code would take for a stop (the pulse would then never end); failures of
  `rename` and `file_delete`, and writes that the disk has not kept at a loss of
  power; an answer 200 without a table for the whole database; further outcomes
  of undefined behaviour than those named in the modules. A blinking timer
  stopped by a lost notification runs to the end of its array and leaves the pin
  high: the model has it and no property forbids it. `getSeverTime` returns true
  for an answer that is not a time: the model has it, and `m_bTimeAvailable`
  therefore does not say that the clock is right. In `EmployeeDb` readers start
  when the constructor has returned; that the real reader's thread starts earlier
  is what `Gate`'s `OnlyEarlyCardsCrash` is about.
* *In `WebApi`*: the tags of the answers, which the parsing follows by `strstr`
  without a test for null (an answer without them ends the program, as `Parse`
  has it for one that is cut short); `request_SendFile`'s text, to which no NUL is
  added, so that what lies behind it in memory is sent too; that two requests
  share `cout`; a `pthread_create` that fails, after which the call joins whatever
  its object holds; and a late `pthread_detach` of a `pthread_t` that a third
  request's thread has got (with the two requests of the run there is no third).
* *In `Gate`*: a sound device that cannot be opened ends the program at its start
  (`throw 1` at `tools/wavplayer.cpp:36`, which nobody catches).
* *In `CardReader` and `WavPlayer`*: errors of `poll`, after which
  `AsyncSerial::read` returns no value; the descriptor that a failed `open`
  leaves; a sound file that is missing (`fread` from a null pointer); the file
  that stays open when the device cannot be prepared.
* *Parts not modelled*: `Settings`, the INI reader (vendored), `utils`,
  `network`, `filesystem`, `property`, `memory`: tables, conversions and system
  calls (`itoa` and its buffer are in `WebApi`); the port's parameters in `Serial`,
  and `Gpio`: pure I/O; the OpenMAX components: they
  drive hardware, and `CameraStill` has only what they deliver; the Qt front end, which displays what it is told (its one
  race, the photo deleted by the reader's thread while the GUI decodes it at
  `qt/acu/mainwindow.cpp:85` and `:137`, is noted here); the manual test programs.

## 8. Plan

The order was by what matters most at a gate; all are done.

1. `TimeSheet` with `Outbox` and its proofs
2. `SwitchGpio`
3. `EmployeeDb`
4. `LogQueue` with `Fifo` and its proofs
5. `Gate`
6. `AccessRules` and its proofs
7. `CameraStill`
8. `WebApi` with `Request`
9. `CardReader`, `WavPlayer` and `Reception`
10. `Base64` and its proofs

The proofs of `EmployeeDb`, `SwitchGpio`, `Gate` and `WebApi` came after these.
What is left: an invariant for `CameraStill` (`OwnPicture`, `NotUnderCapture`) and
its proof; `CutByStop`, in a module of its own beside `WavPlayer`; liveness of
`WebApi` under a server that answers; and the integration of `WebApi`'s outcomes
into `TimeSheet` and `EmployeeDb` as a refinement instead of by hand.
