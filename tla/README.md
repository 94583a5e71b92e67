# ModbusCrawler in TLA+

ModbusCrawler samples the registers of Modbus devices at fixed periods, collects
the samples and the failures of a reporting period, and writes them to a file
when the period is closed.  This directory holds TLA+ modules of that program,
the TLC configurations that check them on small instances, and proofs that TLAPS
checks for every value of the constants.  Paths are relative to the repository.

    tlc -workers 2 -config SchedulerSteps.cfg MCPeriodicScheduler
    tlapm PeriodicSchedulerProofs.tla

`PROJECT.json` lists the components, the runs, the mutants, the hazards, the
theorems, and for every definition the source lines it models.

## 1. The system

| Component | Source | State | Operations | What makes it correct |
|---|---|---|---|---|
| PeriodicScheduler | `crawler/periodic_scheduler.*` | the tasks with a timer each, the queue of the io_context | `addTask`, `run`, `start`, `execute`, `start_wait`, `cancel` | a task's chain of waits neither breaks nor doubles; it is called for each of its instants once; late calls are caught up with; only the clock, set back during a first call, can repeat an instant |
| Reporter | `crawler/meas_reporter.*` | per measure: samples of the period, failures of the period and in total; `period_id_`; the report files | `configure_measurement`, `add_measurement`, `close_period` | every sample is in one report; totals add up; no report is lost to another |
| Executor | `crawler/meas_executor.*` | `slaves_` | constructor, `add_schedule`, the task of a measure | every call leaves one trace in the Reporter; the right value is compared with the right limits |
| Measurement mode | `crawler/main.cpp` 293-353 | the objects above | configure, add the tasks, run | nothing is sampled by a program that was set up in part |
| Command line | `crawler/main.cpp` 126-292 | options | `getopt`, usage, dispatch | the operation the user asked for is called, and no other; a command line is refused with a reason |
| LogRotator | `crawler/main.cpp` 331-348 | `progr`, the files of the log | rename the log | lines are kept for five rotations; `current_log` leads to the newest, unless the log path is relative |
| Measurement configuration | `crawler/meas_config.*` | none kept, but `errno` | `read_config`, `from_json`, `suval` | limits are those given and fit their type; what is enabled runs, each with its period; what is wrong is refused |
| Register conversion | `common/modbus_slave.hpp` 23-88, `common/modbus_types.hpp` | none | `to_val`, `reg_size`, `value_in_range` | value and sign survive any size and word order |
| Slaves | `common/modbus_slave.hpp` | a libmodbus context; `RandomSlave`: generators by address | connect, read, write, chunked write | requests and answers belong together; a read asks the right server; chunks cover the data |
| One-shot operations | `common/modbus_ops.cpp` | none kept; the device's registers and flash | `single_read`, `single_write`, `file_transfer`, `flash_update`, `registers_from_file` with `CRC32` | the device ends up with the file, or the caller is told and nothing is mixed |
| `pwrmeter_client` | `pwrmeter_client/main.cpp` | options | `getopt`, usage, dispatch | as the command line of the crawler |
| JSON support, `compiler.hpp`, CMake, doctest | - | none | conversions, build, tests | - |

**How they interact.**  `main()` reads the configuration, makes every measure
known to the Reporter, adds the task that closes the periods and the one that
rotates the log, lets the Executor connect to the servers and add one task per
measure, and calls `PeriodicScheduler::run()`, which does not return.  From then
on the program is one thread inside `asio::io_context::run()`: a timer expires,
its handler calls the task, the task reads registers over the line (blocking)
and calls `add_measurement`, or calls `close_period`.  Nobody catches what these
throw: an exception out of a task ends the program.  Nothing survives the
program but the report files and the log, and no state is read back from them.

The other modes of the crawler, and `pwrmeter_client`, call one of the one-shot
operations and end.  These talk to one device by a sequence of requests; an
exception at any of them ends the operation.  What does survive is the device:
the next operation, or the same one tried again, finds it as it was left.

**What is hard here.**
- A task rearms its own timer, from inside its own handler, and `expires_at`
  aborts a wait that is outstanding.  One misplaced call ends the sampling of a
  measure for ever, and only a line on standard output tells.
- One thread: a device that does not answer delays everything.  Instants are
  then served late, several of one task in a row, and interleave with the
  instants of reports.  The instants given to tasks are nominal.
- Timers are wall-clock timers, and the wall clock may be set, also between the two
  readings of it that the start of a task makes.
- What `close_period` resets and what it keeps shows only one report later.
- Files: opening or writing a report may fail, and the name is only as fine as
  a minute.
- Conversions between 16-bit words and 64-bit integers, signed and unsigned,
  limits given as strings, an `errno` nobody clears.
- Devices: lost, late, cut and garbled answers, writes that were applied but not
  confirmed, lines that cannot be written to, several servers on one line, addresses and numbers of registers at their ends.
- A file of any length in lines of 128 bytes, each in two writes, or in chunks of
  123 registers: the last line or chunk is different, and may be empty.

The list with lines and properties is `hazards` in `PROJECT.json`.

## 2. Modules

| Module | What it is |
|---|---|
| `Metronome` | abstract: what the scheduler promises a task, in instants only |
| `PeriodicScheduler` | the scheduler over its io_context and the clock |
| `PeriodicSchedulerProofs` | theorems about it |
| `Statistics` | `Reporter::calculate_stats`, an operator |
| `Reporter` | the Reporter with its files |
| `ReporterProofs` | theorems about it |
| `Crawler` | the measurement mode: instances of PeriodicScheduler and Reporter, composed |
| `CrawlerProofs` | theorems about it, composed of those about its parts |
| `RegisterValue` | from limits and registers to a sample |
| `RegisterValueProofs` | theorems about it |
| `SerialBus` | reads over lines that servers share, with late and lost answers |
| `SerialBusProofs` | theorems about it |
| `MeasConfig` | `read_config`: from the file to what runs |
| `Slaves` | extends it: from the configuration to the slaves, and whom a read asks |
| `FlashPromise` | abstract: what an update of the flash promises its caller |
| `FlashUpdate` | the protocol of `flash_update` over a device |
| `FlashUpdateProofs` | theorems about it and about `FlashFile` |
| `FileRegisters` | `registers_from_file` and `CRC32`, operators |
| `FlashFile` | composes the two: from the bytes of a file to what the device starts from |
| `OneShot` | `single_read`, `single_write`, `file_transfer` and the calls of `RTUSlave` they are made of |
| `OneShotProofs` | theorems about it |
| `CommandLine` | `main()` of both programs, up to the operation it calls |
| `Logging` | extends it: the log of the crawler, its link and its rotation |
| `StartProofs` | theorems about what `main()` does first: CommandLine, Logging, MeasConfig and Slaves |
| `MC...` | constants for TLC |

An operator commented `Faulty` is the body a definition might have had after a
plausible mistake (a wait not begun, a counter not reset, a clock read instead of
an expiry).  It is not part of the model; each property of a run is shown to
fail when one of them takes the place of its definition (`mutants` in
`PROJECT.json`), so that a property that could not fail would be noticed.

### Metronome and PeriodicScheduler

`Metronome` has one variable, `labels[t]`, the instants the task `t` was called
for.  They form an arithmetic progression of step `Interval[t]`.  The one
exception comes from `start()`: a task that is executed at once has its timer
set after its first call, so the second instant is late by the length of the
first call.  It follows that a wall clock that is set back during that call (`rewound`
holds the tasks this happened to) lets the task begin anew at any instant, the same
one or an earlier one included: the code reads the clock for the first instant, calls
the task, which blocks, and reads it again for the timer (`periodic_scheduler.cpp:64-70`).

`PeriodicScheduler` has the code's state: `tasks`, `ops` (the handlers queued in
the io_context), `waiting` (timers with an outstanding `async_wait`), `expiry`,
and the `clock`.  `AddTask` is the constructor of `scheduled_task`, which posts
`start(mode)`, before or after `run()` was called; `StartAligned`, `StartImmediate`, `StartSkipping` are the three
branches of `start`, `Execute` and `Cancelled` those of `execute`, and `Rearm`
is `expires_at` with `start_wait`.  A handler is one action that takes `d` ticks.
`StartImmediateReset` is `StartImmediate` with the clock set between its two readings;
the other handlers read the clock once or not at all, so that `SetClock` before or
after them is enough.
asio is external and modelled as used: handlers run in the order they were
queued; the timers are looked at when the queue is empty (`Poll`), and the waits
expired by then complete together in order of expiry, ties in any order.
`Tick` lets time pass between handlers, `SetClock` sets the clock between them.  `Cancel` is
an operation the code has and `main()` does not use.

A second is `Second` ticks, since expiries have the resolution of the clock and
the instants given to tasks have that of a second: `Seconds` is the cast.

### Reporter and Statistics

`data[m]` is `result_t::data`, `configured` the keys of `results_`, `files` what
the directory holds, by the minute in the name.  `configure_measurement`,
`add_measurement` and `close_period` are the three methods, `Result` what is
written of a measure and `reset` is `data_t::reset`.  The outcome of writing a
file (`written`, `unopened`, `truncated`) is chosen freely and has no effect on
the Reporter, because the code never looks at the stream.  `reports`, `added` and
`cuts` are history variables.  `calculate_stats` is exact: a mean is a
numerator and a denominator, the deviation is given by its square, and the
rounding of doubles is left out.

### Crawler

`S` and `R` are instances of PeriodicScheduler and Reporter.  The steps of
`main()` are actions of their own (`ConfigureMeasure`, `AddReportGenerator`,
`AddLogRotator`, `ConnectServer`, `AddMeasure`, `RunScheduler`) because each may
end the program and leave the rest undone.  A handler that calls a task is one
step with what the task does to the Reporter: it is so in the code, where one
thread runs both.  `meas_task` abstracts a reading to its outcome;
`RegisterValue` says how the outcome comes about.  A configuration is abstracted
to its servers in order, each with its enabled measures; `Measured` and
`Executed` are what the two loops over it come by.  A measure has one name in the model;
in the code both loops form a key from the name and the id of its server and its own
name, and that the two keys agree is not checked.  `FirstCallReset` is a call of a task
at its start with the clock set meanwhile.

### RegisterValue

`Configure` is `from_json` of a source register with `assign_from_string`,
`assign_min`, `assign_max`; `Read` is the task's reading with `to_val` and the
comparison.  Integers keep their widths, in units of the `Word` values of a register.
The text of a limit is abstracted to what the code sees of it: white space other than
' ' before the number, a minus sign, and the number.  The check for a minus sign
(`MinusFound`) skips ' ' only, `strtoumax` skips all white space and wraps a negative
number around.

### SerialBus

A read of `RTUSlave` blocks the thread, so there is one at a time, and `at` says where in
libmodbus it is.  Every server has a context of its own, with its own timeout, but
the bytes that arrive on a line are in one `input`.  libmodbus is external, and
modelled as its calls here use it, with the `LINK` and `PROTOCOL` recovery that the
constructor asks for:

- `Request`, `Sent`: it writes the request without looking at the input.  While that
  fails (`WriteFails`, `WriteAgain`) it waits a response timeout, discards the input and
  tries again, without end; `MaxResends` bounds the failures of one read in the model.
- `TakeAnswer`: it takes the first answer there and compares slave, function and
  length, which are all a Modbus RTU answer tells.  An exception of the right slave
  fails the read at once; another slave or shape after a recovery.
- `TakePart`: there is only a part of an answer, and the rest is waited for during a
  byte timeout, half a second as nobody sets it.  `TakeGarbled`: the checksum is wrong, and
  the input is discarded.
- `Timeout`: nothing came, or not the rest.  After that, `Recover` waits another
  response timeout and discards the input.  `LineFails`: the line itself cannot be read.

`response_timeout` is how the constructor splits the answering time, and what
libmodbus makes of the two parts.  An answer takes one of `Delays` or never comes.  Its
bytes arrive together, or its rest is lost (`cut`): an answer that trickles in piece by
piece is left out, and could take a byte timeout for each of its bytes.  The identity
of an answer (`id`), `resent`, `parts`, `faulty` and `late` are known to the properties only.

### MeasConfig and Slaves

`ConvertPart` is the conversion of one server or measure, in the order of the
file, with the limits and the `errno` they leave: `next` is the descriptor that is
next and `part` the part of it (0 is its server).  `Insert` is the body of the loop
over the descriptors, `Stored` what it puts into the map; a measure keeps the place it
has in the file as its key, because the code erases those that are not enabled and
then looks at nothing but the order of the others.  `moved_from` is what C++
leaves of a descriptor after `std::move`: strings and vectors empty, a duration as
it was, and on the latter the default sampling period depends.  `errno` (`inherited`)
is anything when the conversion begins, after the JSON was parsed
(`meas_config.cpp:194`): the parser sets it with the numbers it reads, and nobody clears it.

`Create` is the loop in the constructor of Executor, in the order of the map:
`CreateRTU` opens a line or throws, `CreateRandom` makes a generator for every
address (`Decides`: the first measure that names it).  `Read` is a read of a
measure, down to the slave it asks.  libmodbus is external: it refuses ids
beyond 247 without telling anyone who listens, and asserts at the first request
that there is one.  The draws of a generator are cut at `Spread` deviations.

### FlashPromise, FlashUpdate, FileRegisters and FlashFile

`at` is the call that is next, named after its register; `cursor` holds the local
variables of `flash_update`.  `FullLine` and `LastLine` are the loop and what
follows it, one disjunct per call, `HandOver` the registers that end an update.
`Call` is the fault model: a call takes effect and is confirmed, or it throws, and
took effect or not (the answer was lost, or the request).  After that the update is
over, as in the code, and `Begin` may start another on the same device.  The
device is external: registers, a buffer, a flash, and what it was told to start
from; `write_segment` and `done` do what their registers say.  That it starts from the
flash only when it is told so, and if the checksum matches, is an assumption about it.  `strict` devices
refuse a write of no registers, as the Modbus specification has it; others take it.
`FlashPromise` knows the outcome and `installed` only.

`registers_from_file` gives the registers of a file and their checksum, as the code
does, padding included.  Bytes and checksums have as many bits as the constants say;
a checksum is the set of its bits that are 1.  `FlashFile` gives the images of
FlashUpdate this way.

### OneShot

A command begins with its checks and ends with its calls.  `write_multiple_registers`
is the loop over chunks with the write of what remains; `Wire` is what libmodbus
does to an address, `Refused` what a device does not take.  Requests and answers
get lost as in FlashUpdate.  A file is no longer than the address space
(`OneShotAssumption`); the code does not ask for that.  `before` remembers the device as the command found it.

### CommandLine and Logging

One action per kind of option, `Dispatch` with one operator per operation.  A text
is a sequence of characters only where the code looks into it: as a register
specification and as a value, and is chosen when the options are over (`Parsed`), since nothing
looks at it before.  getopt is external; `MaxOptions` bounds the options.
Numbers are those of `strtol` with base 0: octal after `0`, hexadecimal after `0x`,
with white space and a sign before them; a text has nine characters at most, so
that its number fits an int.  A line configuration is one of three kinds, by what
`serial_line` makes of it (`OnLine`): it is well-formed, or `std::invalid_argument` is
thrown, which `main()` answers with the usage, or `std::out_of_range`, which nobody catches.
`single_read` of an empty text is an assertion in a debug build and an exception
otherwise: both are allowed.

The log is made at the end of the options (`OptionsEnd`), whatever the mode, and
any of the three calls for it may fail.  The result of `unlink` is not looked at:
`refused` is true only when the file or the link was not made, so that a first run,
with nothing to remove, is none.  The link holds the path as it was given: with a
relative one other than `.` it leads nowhere (`Target`).  `Rotate` is the task: a line, then the
renaming, which may fail, too.  loguru is external: it has the file open and finds
out at a line, a second or more after it last looked, that the name is gone.
In between, lines follow the file to its new name (`looked`, `rested`).
Rotations are a second apart or more: `-t 0` and rotations that are caught up
with in one go are left out.  Lines are logged while the program measures only.

## 3. Runs

| Run | Question | Bounds and why they are enough |
|---|---|---|
| `scheduler_steps` | Does a task keep its chain and its time under overload, a set clock and a cancellation? | three tasks, one of each mode, intervals 1, 2, 3; a call of the shortest may last longer than its interval; two ticks per second; clock to 7, set once to any value, between handlers or during a first call, one cancellation: every handler kind meets every other in the queue, and a task is up to three instants late |
| `scheduler_timely` | Is no task ever an interval late if the calls of a round fit in every interval, and those of the others do with a second to spare? | intervals 4, 3 and 3 seconds of 2 ticks, costs 2 each: both parts of the hypothesis (`FastEnough`) hold with equality for the short ones, and with one more tick for the call of the report task `NoBacklog` is violated; clock to 52, two periods of the common multiple of the intervals, from a start at any phase |
| `reporter_periods` | Is every sample in one period and do totals add up? | two measures (one with raw samples), two calls each, two periods: a sample before, between and after the reports, every failure kind, every outcome of the file, both minutes, every order of the operations with the illegal ones |
| `crawler_steps` | The whole program: is nothing sampled by half a program, every call counted, no report replaced? | two servers with a measure each; configurations complete, with a server that has no measures, with a duplicate measure, and empty; overload; the clock set once, during a first call too; several reports within the horizon |
| `crawler_timely` | On a fast enough machine: does a report hold the samples of its period, and is every sample reported? | sampling periods 2 and 3, report period 3, costs that use up the shortest interval, three full periods, a start at any phase; every read succeeds, since one that fails takes as long and leaves no sample (those are in `crawler_steps`) |
| `register_samples` | With which limits does the program run, and is what becomes a sample the device's value, and classified rightly? | registers of 4 values (`Word`): every value of every type (up to 256), both word orders, 23 texts of limits at and around every type's bounds, negative ones after a tab among them, each possible for minimum and maximum, `errno` set or not |
| `flash_update` | Whatever is lost and however often it is tried again, does the device start from a whole file, with the right checksum, never from a mixture? | lines of 8 registers (64 in the code); files of 0, 8 and 44 bytes, of which two have an odd length: no line; half a line, which ends with an empty write; two lines, a chunk and a rest, with offsets that need both registers; bytes of 2 bits and checksums of 10, so that these, too, take two registers; updates without bound, each broken off at any call |
| `one_shot` | What does the device hold after commands of which any request may be lost, and which commands fail? | chunks of 2 registers, reads of at most 4, 7 addresses, files of 0, 4 and 5 registers (none, whole chunks, a rest), addresses -1, 2 and 5: within the space, across its end at a chunk's border and inside a chunk; commands without bound |
| `serial_bus` | Whose answer does a read return, when does it fail and how long does it block, if devices answer late, wrong or not at all? | three servers on two lines, one with measures of two shapes; answering times longer than a second, shorter and none; delays in time, between one and two timeouts, beyond, and never; answers that are right, exceptions, garbled or cut; one failed write for each read; lines that fail; three reads: an answer of each of the first two may be in the input of the third |
| `meas_config` | From the file to the reads: what runs, what is refused, whom does a read ask? | two descriptors with two measures each, every combination of disabled, duplicate, broken, with and without periods, limits inside, outside and beyond every integer, either `errno`; ids -1, 3, 247, 248; measures that share an address |
| `command_line` | Is what runs what the user asked for, and are the lines of its log kept? | both programs, every sequence of up to three options (two modes and a server, in any order), line configurations of every kind, texts of up to two characters and some longer, in three bases; log paths absolute, relative and `.`; three names for rotated files (five in the code), four rotations, so that names come round, seven lines |
| `unsigned_samples` | Are narrow unsigned values classified rightly? No: see below | as `register_samples` |

`CHECK_DEADLOCK FALSE` stands where the model really may stop: the Reporter is a
passive object whose calls are bounded, one reading ends RegisterValue, SerialBus
stops after its last read (`MaxCalls`), a program that refuses its configuration
or is aborted ends Slaves, and an operation that is called ends CommandLine (or
the bound on its lines does, `MaxLines`).
Elsewhere deadlock is checked; `Horizon` and `Over` are the only steps of a
behaviour that has come to the bound of the clock, and they are possible only
then, or when the program has ended, so that a thread that hangs earlier would
be found.

**Properties.**
- `OneChainPerTask`: an added task has exactly one handler queued or one wait
  outstanding, until it is cancelled.
- `NeverCancelled`: no wait is aborted but by `cancel()`.
- `KeepsTime`: the scheduler implements `Metronome` (a refinement; the mapping
  is the history variables `labels` and `rewound`): steps of an interval, except for the
  second instant of a task executed at its start.  `ReportsOnGrid`: aligned instants are multiples.
- `EveryInstantServed`: every instant up to the horizon is served in the end,
  overload or not.  `NoBacklog`: none is late by an interval when the machine is fast enough.
- `SamplesOnce`, `TotalsChain`: what reports hold follows on without gap or overlap.
- `AllOrNothing`, `EveryCallCounted`, `ReportsKept`, `ReportWindow`,
  `SamplesReported`: of the program as a whole.  `EveryCallCounted` has the instants of
  the samples of a measure grow, but for the first one if the clock was set back during
  that call.  `SamplesReported` holds of samples before the last report within the horizon.
- `LimitsAsGiven`: the limits the program runs with are in their type's range and the
  numbers given, but for a negative one after a tab, which wraps around once if the
  type is unsigned.  `NoWrongSample`, `SignedClassified`: of values.
- `WholeOrNothing`: FlashUpdate implements `FlashPromise` (a refinement): an update
  that returns installed its file, one that throws installed it or changed nothing.
  `ProgrammedInOrder`: no register of the flash is programmed before its turn or
  beyond the file.  `FailsOnlyHalfway`: which files a strict device cannot be
  given.  `UpdateEnds`.  `DeviceHoldsFile`, `ChecksumOfFlash`: the bytes the device
  starts from are those of a file, and the checksum it was given is theirs, by the
  definition of a CRC, bit by bit.
- `PrefixWritten`: the device holds a prefix of the file and is otherwise as it was.
  `CompletedWhole`: a command that returns wrote everything.  `FailsOnlyDoomed`:
  the reasons for which a command fails when nothing is lost, no more and no fewer.
- `OwnAnswer`: a read gets the answer to its own request unless one on its line took
  twice its answering time or more; and again when that has passed.  `RightServer`:
  never that of another server or shape, however late.  `FailsOnItsOwn`: a read fails
  because its own answer is none, late or not right, its line fails, or an answer before
  it on the line was so late.  `BlocksNoLonger`: a read takes two answering times, one more
  for every failed write of its request, and a byte timeout for every part of an answer;
  no more than one and the failed writes if nothing was wrong with its answer.
- `ConfigAsMeant`, `FilesRefusedRightly`: what read_config returns and when it refuses.
  `FirstDecides`, `RightServerAsked`: of reads.
- `RunsAsAsked`, `RefusedRightly`: what is called, what refused, and what ends in an exception.
  `LogKept` has two parts.  `LinesKept`: no line of the log is lost before its time, whichever file it went to.
  `CurrentLog`: the link, made once, leads to the newest line, rotations or not; or
  nowhere, if the log path is relative.

**Fairness.**  `Spec` of PeriodicScheduler has weak fairness of `Run` (`main()`
calls it), of `Thread` (the one thread does not stop while it has a handler or a
timer due; each handler ends) and of `Tick` (time
passes).  That each handler ends is so because a read has a timeout, and it is an
assumption where the code has none: while a request cannot be written, libmodbus
sends it again without end (`BlocksNoLonger` counts this), and a line that stays so
stops the thread, which liveness here excludes.  Nothing is assumed of `SetClock` and `Cancel`.  `TimelySpec` restricts
the steps: time passes only inside handlers or while there is nothing to do,
nobody sets the clock and all tasks are added before `run()`.  That is the assumption of a machine that is fast enough;
with it goes the choice of the constants, which satisfy `FastEnough`: the costs of all
tasks together fit in each interval, and so do those of the other tasks and a second.
The second is needed because `start` aligns the expiry of the report task from an
instant that was cut to a second (`aligned_up`), so that it may begin up to a second
in the past.  `ReportWindow` and `NoBacklog` are false without
it, and are claimed only with it.  `ReportsKept` needs a reporting period
of a minute or more: `main()` accepts less, and then reports replace each other.

FlashUpdate has weak fairness of `Update`: the thread waits for an answer no longer
than the timeouts of libmodbus, and then goes on or throws, provided again that its
requests can be written in the end.  Nothing is assumed of
`Begin`: nobody need start an update, and nothing of losses: they may never end.

## 4. A finding

`unsigned_samples` violates `UnsignedClassified`.  `to_val` returns the value of
one or two registers sign-extended, and says that "it's up to the consumer to
convert to unsigned if desired" (`src/common/modbus_slave.hpp:27-28`).  The
consumer casts to `uintmax_t` (`src/crawler/meas_executor.cpp:92-93`) and so
turns a UINT16 of 0x8000 into 0xFFFFFFFFFFFF8000, above every maximum: the upper
half of the range of UINT16 and UINT32 is always an overflow.  No wrong value
enters a report (`NoWrongSample`); UINT64 and the signed types are right
(`SignedClassified`).

Observations that have no run of their own:

- flash_update and write_multiple_registers end with a write of no registers when
  the file ends in the middle of a line (`modbus_ops.cpp:360`) or with a whole chunk
  (`modbus_slave.hpp:507`).  A device that refuses it can never be given such a file
  (`FailsOnlyHalfway`), or the command fails though all is written (`FailsOnlyDoomed`).
- A clock set back during the first call of a measure gives its second sample an instant
  that is not after that of the first (`periodic_scheduler.cpp:66`, `70`); the exception is
  part of `KeepsTime` and `EveryCallCounted`.
- The text of an unsigned limit is looked at for a minus sign "to be able to detect
  negative values for all supported types" (`meas_config.h:138-140`), but behind spaces
  only, while `strtoumax` skips all white space.  A tab and `-5` are 2^64 - 5, a limit
  that UINT64 can have.  What is taken this way is in the range of the type
  (`LimitsAsGiven` has it as an exception).
- The link `current_log` is made with the path of the log as it was given
  (`main.cpp:220`), and a relative path is followed from the directory of the link: with
  `-l logs` it leads to `logs/logs/...`.  The program logs "Current log file
  symlinked from" nevertheless, since the link exists (`CurrentLog` has it as an exception).
- While a request cannot be written, `LINK` recovery (`modbus_slave.hpp:366`) has libmodbus
  try again without end: one line that fails this way stops all tasks.
- The result of `modbus_set_slave` is ignored (`modbus_slave.hpp:376`): a server with
  an id beyond 247 is accepted, and its first read aborts the program.
- `errno` is read and never cleared (`meas_config.h:122`): `FilesRefusedRightly` holds
  because it says that a left-over `ERANGE` is a reason to be refused.
- A register specification like `13l` is read as one register instead of being
  refused: the first character is the number, the second the order, the last is
  checked (`modbus_ops.cpp:127-163`).
- The test of RandomSlave (`modbus_slave.hpp:538-553`) expects a draw within one
  deviation of the mean, which a normal distribution gives in two cases of three.

## 5. Proofs

`PeriodicSchedulerProofs`, for any finite set of tasks, any modes, intervals,
costs and bounds (`SchedulerAssumption`):

- `TypeCorrect`: `Spec => []TypeOK`.
- `OneChain`, `NoStrayCancellation`: neither property is inductive alone, since
  `Rearm` behaves differently when a wait is outstanding.  The invariant `Chain`
  carries both with the facts that a task whose handler is queued has no wait
  outstanding, that no two handlers of one task are queued, and that the waiting
  tasks were added.  `Poll` needs that the order it chooses is one without
  repetition; the handlers need that the head of the queue is the only entry of
  its task.
- `TimeIsKept`: `Spec` implements `MetronomeSpec`, the exception of a clock set back
  during a first call included.  `AllInTime` ties the expiry of a timer that is armed
  to the next instant of the metronome, for each mode; then a call is a beat, and every
  other step a stutter.
- `OnTheGrid`: from the same invariant.

`ReporterProofs`, for any measures, values, instants and bounds
(`ReporterAssumption`):

- `ReporterTypes`: `Inv` adds to `TypeOK` the type of reports, and that a measure
  that is not configured has neither data nor samples (without it, `close_period`
  would cut a measure it neither reports nor resets).
- `EverySampleOnce`: `Inv /\ SamplesOnce` is inductive.  Adding extends the slice
  that waits and leaves those of reports alone; closing moves it to the new report.
- `TotalsAddUp`: `Inv /\ TotalsChain` is inductive.

`FlashUpdateProofs`, for any images, size of a line, width of a register and size of
the flash, as long as the bytes of a line fit in a register, those of an image
in two, and an image in the flash (`FlashAssumption`):

- `UpdateTypes`, `OnlyHalfwayFails`: from `IInv`.
- `UpdateKeepsPromise`: `Spec` implements `FlashPromise`.  `IInv` follows the words of
  the file: `Cursor` says how far the program is, `Sent` what of the line is in
  the buffer and in the registers of the device, by the call that is next,
  `Programmed` that the flash holds all lines before the present one, `Told` what
  the registers hold of length and checksum.  At `done` they give the image; a
  call that throws before leaves `installed` alone, and one at `done` has either
  outcome that the promise allows.  The promise itself is no invariant: it needs
  that what an earlier update left in buffer and flash is overwritten before it counts.
- `ProgramsInOrder`: a line that is programmed begins at the offset in the
  registers of the device, which `Sent` ties to the cursor; the lengths of lines
  add up to the file (`Geometry`).
- `FlashHoldsAFile`, `ChecksumIsRight`, for any files, any width of bytes and
  checksums and any polynomial (`FileAssumption`, `FlashFileAssumption`): the device
  starts from one of the images (`IInv`), and the rest is about `registers_from_file`
  alone.  `RegistersHoldBytes` says that the registers give the padded bytes back.
  `ChecksumOfStarted` is the induction over the bytes: the checksum after `k` bytes, inverted,
  is what the division has after `k * ByteBits` bits.  Its step is `ByteAtOnce`, an
  induction over the bits of one byte: a division is linear in its argument
  (`DividedLinear`) and a shift where the lowest bit is not set (`DividedShift`), so that
  the low byte may be divided apart, which the table has done before.
  The prover cannot apply the library's induction theorems, so `Induction` is
  proved here from `<` being well-founded on Nat, for sets instead of predicates, and
  `RecursionExists` says that the recursive functions of `FileRegisters` are there.

`OneShotProofs`, for any files, addresses, address space, and chunks of two
registers or more (`OneShotAssumption`):

- `OneShotTypes`, `DeviceHoldsPrefix`, `TransferIsWhole`, `OnlyDoomedFail`: the invariant
  ties the cursor to the chunks that were written and the registers of the device
  to the prefix they make.  `Place` is the lemma on wrapping addresses: a request
  that is not refused stores its registers where counting from the first address,
  modulo the address space, has them.  `DoomedWrite` shows that the requests
  made so far were all taken, so that the last one decides.

`PeriodicSchedulerProofs` also has, for a thread that is never idle with work to do
(`TimelySpec`) and a machine that is `FastEnough`:

- `NeverBehind`: no task is an interval late.  `RoomLeft` bounds the clock by the expiry
  of every task that is pending, what the calls of all tasks cost, and a second, less what
  those cost that expire no later and have yet to be called; `InOrder` says
  that the thread takes them by expiry.  `Load`, the cost of a set of tasks, is
  a choice among the functions that add up, which exist for finite sets
  (`LoadExists`).  `FastEnough` has no slack: see the run `scheduler_timely`.

`CrawlerProofs`, for any configurations, measures, periods and costs
(`CrawlerAssumption`), uses the theorems about the scheduler and the Reporter through
instances of their modules: every step of the crawler is one of the scheduler or
leaves it alone (`SchedulerStep`), and calls one operation of the Reporter or none.

- `NothingHalfStarted`: the invariant `Stage` says how far `main()` has come and
  which measures are configured, tasks added and servers connected by then; that
  nothing is called before the loops are over is what a task's labels being empty says.
- `CallsLeaveOneTrace`: a call that `Execute` makes is a sample or a failure of that measure
  (`CallEffect`), and the labels grow by one.  That the instants of samples grow is `Spaced`:
  those of a task are an interval apart, but for the first one of a task in `rewound`.
- `NoReportReplaced`, if the reporting period is a minute or more: each report carries
  the instant of its call (`ReportsTimed`), and instants of an aligned task are an interval
  apart (`Spaced`, from `TimeIsKept`), however the clock is set.  With a shorter period, which
  `main()` accepts, it is false.
- `ReportsHoldTheirPeriod`: with `TimelySpec` and `FastEnough`, calls are made in the order
  of their instants (`Ordered`), a report cuts off the samples before it (`Covered`), and
  no handler runs before `main()` is done (`Setup`).

`SerialBusProofs`, for any servers, lines, times, delays and number of failed writes
(`BusAssumption`):

- `NeverTheWrongServer`: `ResultFits`.
- `OwnAnswerReturned`, `NoReadFailsAnother`: `LinesInOrder` says that a line on which nothing
  came too late is empty, with nothing under way (`QuietLine`), or that a read is going
  on there and its answer is all there is, due before a recovery would end
  (`BusyLine`); `AnswerComes` that an answer that is right and in time has come or
  will before the read gives up, so that a read that takes a part of an answer or recovers
  is not one whose answer was right.
- `BlockingBounded`: `WaitBounded`.  `Spent` says what a read has waited for so far, a
  response timeout for every failed write, and `Listened` adds the byte timeouts; the
  timeout and its recovery are each at most the answering time (`Time`).

`RegisterValueProofs`, for registers of any even number of values, any limits and any
scale (`RegisterAssumption`):

- `LimitsAreAsGiven`, `SamplesAreRight`, `SignedAreClassified`.  The lemmas carry the
  weight: a text that is accepted is its number, or wrapped around once; `to_val` undoes what a device does to a value (`ValueRead`, from the digits
  of a number in base `Word`), whatever the order of the words; what is compared with
  the limits is the value, or is above every limit (`ValueCompared`).
  A register has `Word` values, not a number of bits: the prover knows nothing of `^`.

`StartProofs`, for any texts, options, lines and names (`LoggingAssumption`):

- `RunsWhatWasAsked`, `RefusesOnlyWrongCalls`: `Remembered` ties `mode` and `options` to
  the last option given that sets them.  That single_read reads the number its
  specification means is about numerals: those of a base are read back (`NumeralReads`)
  in decimal, in octal after a zero and in hexadecimal after `0x`, up to the 125
  registers of a request.
- `LogIsKept`: `LogInv`.  `Counted` orders the rotations by the lines they came after,
  `Closed` says that a name that was rotated away got its last line before the next
  rotation was over, and that names whose turn has not come are empty.  It holds although loguru
  goes on writing to a renamed file: each rotation logs a line of its own.

and for any files, of whatever length, whose parts have the fields that are read, with
any numbers for identifiers and addresses (`ConfigAssumption`, `SlavesAssumption`):

- `ConfigurationIsAsMeant`, `FilesAreRefusedRightly`: `ConfigInv`.  While the file is
  converted, the parts before the one that is next are right and `errno` is what it was
  (`Converting`); after that all are, and the map holds exactly the running descriptors
  that the loop has passed, each `Stored`, no two with one identifier (`Inserting`).
  Whoever refuses has just seen the reason.
- `FirstMeasureDecides`, `RightServerIsAsked`: `SlavesInv`, on top of it.  A slave that
  exists is the one its server should have (`Made`), and the last read was of a measure
  of the configuration and asked that slave (`ReadRight`).  The rest is that the first
  of the measures with one address exists (`LeastElement`), and so does the least
  identifier without a slave (`LeastInteger`): both from well-founded induction over sets,
  since a file may have any length.

Only model-checked: liveness (`EveryInstantServed`, `SamplesReported`, `UpdateEnds`), because
the prover has no rule for fairness.

`UnsignedClassified` is no theorem: the run `unsigned_samples` shows it violated.

## 6. Not modelled

- JSON support (`json_support.*` and the layout of reports), compiler attributes,
  the build: no state.
- RandomSlave's reads of several raw registers: nothing calls them.
- `calculate_stats` as a loop: `Statistics` is its result.  The rounding of doubles;
  memory running out while samples collect.
- Intervals of zero or less: excluded by `SchedulerAssumption`.  The code does
  not exclude them, see the hazards.
- Answers that arrive in several pieces, each within a byte timeout of the one before.
- Files longer than the address space in a transfer (`OneShotAssumption`), and devices
  that start from what they were not told to (FlashUpdate).
- That the keys under which `main()` configures a measure and the Executor reports it agree.
- The texts of log lines and of the usage, the printing of what was read.
- `3rdParty/doctest/doctest.h`, the vendored test framework, has two thirds of the
  lines of the repository (6580 of about 9600); of the program's own three thousand
  the definitions here stand for about two thirds.

## 7. Plan

Done, in this order:

1. `Metronome`, `PeriodicScheduler`, its proofs.
2. `Reporter`, `Statistics`.  3. `Crawler`.  4. `RegisterValue`.  5. `ReporterProofs`.
6. `FlashPromise`, `FlashUpdate`, its proofs; `FileRegisters`, `FlashFile`.
7. `OneShot`, its proofs.
8. `SerialBus`.
9. `MeasConfig`, `Slaves`.
10. `CommandLine`, `Logging`.
11. The proofs of Crawler, SerialBus, RegisterValue, FlashFile, CommandLine, Logging,
    MeasConfig and Slaves.

What is left: an abstract ledger of samples that Crawler implements; SerialBus composed with the tasks of Crawler, so that the cost of
a task is the time its read blocks.
