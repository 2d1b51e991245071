# A formal model of dbtail

dbtail follows database logs, parses the lines into events and sends them to
ClickHouse. This directory holds TLA+ models of the parts of dbtail that run
concurrently or must survive a crash, TLC configurations that check them on
small instances, and proofs, checked by TLAPS, that hold for every value of the
constants. Paths are relative to the repository; `PROJECT.json` maps every
definition to the lines it models.

## 1. The system

```
 files of a glob ──> glob watcher ──> one stream (chan string) per segment
                       │ starts, retires, stops
                       ▼
      tailer ─Lines─> reader ─lines─> [line sampler] ─> ProcessLines ─> toBeSent
        ▲  Tell          │ last save                                      │
        └── ticker ──────┴──> state file                                  ▼
   modifiers ─> newSent ─> forwarders ─> realToBeSent ─> sender ─> libclick Work
                                            ▲ toBeResent, delaySending     │
                                            └──── response handler <── responses
```

| Component | State it keeps | Operations | Interacts through |
|---|---|---|---|
| Segment tailing (`tail/tail.go`, vendored `hpcloud/tail`) | file position, line in hand, tomb, watch, `State`, state file | open and seek, read a line, wait for a change, send, save, stop, stop at EOF | unbuffered `Lines` and `lines`, the shared `tail.Tail` and `State`, the state file across runs |
| Glob watcher (`tail/watch_entries.go`) | known files, the active tailer | first listing, scan, delete, discover, hand over, cancel | the unbuffered channel of streams, `Stop`, `StopAtEOF`, state files |
| Line sampling (`WatchSampledEntries`) | none | drop a line | one goroutine between `lines` and the parser |
| `ProcessLines` of nine parsers | grouped lines, `foundStatement`, workers | group, parse, send, return | `rawEvents` (unbuffered), two WaitGroups, `toBeSent` |
| Event pipeline (`leash.go`) | channels and worker counts of every stream | parse, modify, forward, send, resend, handle a response, shut down | bounded channels, WaitGroups, the one responses channel |
| libclick (not vendored), muster, limitgroup | Work channel, batch, batches in flight | add, time out, fire, respond, close | `Work`, `responses` |
| Response statistics (`response_stats.go`) | counters and totals | update, log and reset, final log | a mutex, tickers |
| State file naming (`getStateFile`, `cleanupStaleGlobStates`, `validateConfiguration`) | the state files by name | name, clean up, validate | the file system, every tailer |
| MySQL server polling (`mysql.go:207`) | `readOnly`, `replicaLag` | ask, store | pointers the workers read |
| Options (`main.go`) | `GlobalOptions` | defaults of the parser, backfill, refuse | everything after `main()` |
| Event munging (`modifyEventContents`) | none | drop, scrub, add, shape, sample | the event, between parser and sender |
| Dynamic sampling (`dynsampler-go`) | counts, rates, `haveData` | count and look up, update | a lock, a ticker |
| Time stamps (`httime`, `parseTimestamp`) | none | choose a field, infer a year | the parsers |
| Line parsing (regular expressions, JSON, key=value, mongodb's values) | none | data transformations | — |
| Event record, schemas, packaging, scripts | none | — | — |

What is hard about it:

* **interleavings**: the ticker, the reader and the tailer share a position, a
  struct and a file without a lock; cancellation takes the reader away from
  under the tailer; the handlers of all streams share one channel;
* **crashes and restarts**: the state file is truncated and written in place,
  and the position in it is ahead of what the parser was given;
* **files that change identity**: a state file says inode and offset, a tailer
  has an open file, and the watcher knows names;
* **names of files that stand for files**: state names forget the directory, and
  clean-up removes what a pattern could have given;
* **options that undo each other**: three samplers, of which exactly the right
  ones must run, and steps on fields whose order decides what leaves the host;
* **bounded channels**: each stage blocks on the next, and with back-off the
  last stage feeds the first;
* **shutdown**: three waits in `run()` must happen in the right order, and each
  must end.

What makes each part correct:

* segment tailing: no line skipped, repeated or reordered; a position never far
  ahead of the parser; streams that close and files that are released;
* glob watcher: one follower, every file found, no file read twice but by a tailer
  that is about to end, replaced tailers end, no state files of removed logs;
* `ProcessLines`: events are whole statements, each sent once, and it returns;
* pipeline: no event lost, invented or duplicated; no send on a closed channel;
  `run()` returns with everything answered;
* response statistics: the total counts every response once;
* state files: a file is resumed where it was saved, a new one is read whole, and
  states are kept where `--tail.state_file` says;
* server polling: no worker reads through a nil pointer;
* events: nothing that is to be hidden is sent, nothing else is changed, the rate
  says how the event was sampled, and the time is the line's;
* dynamic sampling: the rates send the goal of a busy window and not more than one
  event beyond it for each small key, and are 1 when there is little traffic.

## 2. Modules

| Module | What it is | Lines of the code |
|---|---|---|
| `LineFeed` | abstract: what the tail package promises to the parser of one file | — |
| `TailFile` | one segment, its tailer, reader, ticker and state file, over several runs | `tail/tail.go`, `hpcloud/tail` |
| `MCTailFile` | its liveness properties and the refuted claims | |
| `WatchEntries` | the glob watcher with its tailers, files and inodes | `tail/watch_entries.go` |
| `MCWatchEntries` | a refuted claim | |
| `StateNames` | state files by name, for several paths, over restarts | `tail/`, `main.go` |
| `MCStateNames` | the configurations TLC looks at | |
| `ServerState` | the polled MySQL server and the two pointers | `parsers/mysql` |
| `ProcessLines` | grouping and parallel parsing; extends `ServerState` | `parsers/*` |
| `EventLedger` | abstract: what happens to an event | — |
| `Pipeline` | `run()` and libclick's batches | `leash.go`, `muster`, `limitgroup` |
| `Options` | the options that decide about an event | `main.go` |
| `EventTime` | `GetTimestamp` and the years of mongodb's dates | `httime`, `mongodb.go`, `mysql.go` |
| `MongoEvent` | what mongodb makes of a line's values | `mongodb.go` |
| `DynSampler` | the dynamic sampler | `dynsampler-go` |
| `Sums` | the sum of a function, for `Pipeline` and `DynSampler` | — |
| `Events` | the way of one event through these four | `leash.go`, `main.go`, `parsers/*` |
| `MCEvents` | the scenarios TLC looks at | |
| `TailFileProofs`, `WatchEntriesProofs`, `StateNamesProofs`, `ProcessLinesProofs`, `ProcessLinesStatements`, `PipelineProofs`, `SumsProofs`, `EventsProofs` | theorems and their proofs | |

Names of actions are those of the code where there is one (`StopAtEOF`, `Tell`,
`SendEvent`, ...). A definition followed by a comment that starts on its first
line with `\*` is a faulty variant of the action after it; no specification
uses it. It is there to show that a property notices such a fault.

### TailFile

Offsets count half-lines: even offsets are after a newline, so a writer that
appends 1, 3, ... half-lines leaves a half line at the end. One process at a
time (`up`), `MaxRuns` times; `Start` creates an empty state file as
`tailSingleFile` does, and chooses the start location as `startWatchedFile`,
`getTailer` and `getStartLocation` do. `tailFileSync` is the program counter
`tpc`, the reader `rpc`, and the two calls of `updateStateFile` that may overlap
(the ticker's and the reader's last) each have a program counter `upc[u]` and a
local `reg[u]`; they share `state` and the file, as in the code. `Truncate` and
`Write` are separate steps, so a crash or the other call may come between;
`Garbled` is a shorter text written over a longer one. `Stop` and `StopAtEOF`
set the tomb's reason, which the tailer looks at only after a line (`CheckDying`,
for `Stop`) and while waiting (`WakeDying`, for both). `given` remembers, across
runs, how far the parser has been fed. The segment only grows here.

### WatchEntries

The goroutine of `watchEntries` is the program counter `w`; between its steps
logfiles are created, written and removed, tailers run, and the process may
crash. A name has an inode, a new one each time it is created. A tailer is one
record: the name it was started for, the inode it has open, its offset, whether
it follows, its tomb, the inode it watches and whether its state file still has
a name. `Save` writes the inode *of the name* and the offset *of the open file*,
as `updateStateFile` does; a save after `removeStateFile` changes a file without
a name. Names in `Reused` can be removed and created again at any time, the others
are created once. `MaxWritten` and `MaxCancelled` only keep the run small: which
files are written to, and how many may be created after cancellation. The details of one tailer are left to `TailFile`: a line goes to the
parser in one step, a position is saved in one step, and a tailer that is being
stopped always closes (`TailFile` shows when it does not).

### StateNames

A logfile is a directory, a stem and whether it ends in `.log`; a path, exact or a
glob, matches directories, stems and a suffix. `Matches` is the library's `filepath.Glob` and `Match`; `StateName` is `getStateFile`: the
stem alone, in the temporary directory or the one of `--tail.state_file`, or that
path itself for a single file. `Start` is a start of the process with its
validation, first listing and clean-up; `Open` is `startWatchedFile`; `Scan` is the
ticker of one glob. A state file is missing, empty, or says a file and an offset;
saves are atomic here and each logfile is created once (`TailFile` and
`WatchEntries` have torn saves and names used again), and tailers end only with the
process. Standard input and the `.leash.state` files that `removeStateFiles` takes
out of a glob's listing are left out.

### ServerState

`Init` asks the server once for its name and its role; `Poll` is one
half of a tick, `read_only` and then `replica_lag`, each of which sets its pointer
or clears it. The server may stop to answer, become a primary or stop to replicate
(`ServerChanges`), which makes the question come back without a value. A worker
tests and reads a pointer in two steps (`TestPointer`, `Dereference`), without a
lock, as the code does. What the pointers point to is left out, and so is
`hostedOn`, which, unlike the comment at `mysql.go:206` says, is never updated.

### ProcessLines

The log is a sequence of entries, an entry a sequence of line kinds, a group or
an event a span of the log; a stream may start and end in the middle of an
entry. `MySQLLine` and `PostgreSQLLine` are the two loops that group lines;
groups go over an unbuffered channel (`TakeGroup`) to workers, which turn them
into events (`MySQLEvent`, `PostgreSQLEvent`, `LineEvent`, `HandleEvent`). The
seven parsers of single lines have one and the same loop, for which `TakeLine` is
mapped to `keyval` and `LineEvent` to `mongodb`, which has the most ways to skip a
line. `TailSample` and `ParserSample` say who samples: the tail package drops
lines (`DropLine`) in front of every parser but mysql, which drops groups.

`HandleLine` is the loop of `handleEvent` on the lines of one group, folded by
`QueryOf`. Of the lines that are comments those with the user or the statistics
(`"comment"`) start the text again; those with the time, the schema or InnoDB's
figures, unknown ones and the server's header lines (`"note"`) do not. Both
come before the statement in a slow log, so that starting again is harmless.

### Pipeline

Events are counted, not named: a channel is the number of events in it. Each
stage of `NumSenders` goroutines is a count of those that hold an event and of
those that have not returned, which is all the WaitGroup and the closing of the
next channel depend on. The sender's three selects are three steps. muster's
worker, its batch, its limit of batches in flight and the blocking responses
channel are modelled from the vendored code; that a batch puts one response per
event into the channel is libclick, external. An event is dropped by the sampler, or
because `SendPresampled` returns an error (`Refusing`), which is only logged. `count` and `totalCount` are the
counters of the response statistics: a handler counts a response (`Update`), any
stream's ticker moves the count into the total (`Tick`), and `LogFinal` adds what
is left without a reset and prints the total. The other counters, and the summary
of an interval that `log()` prints, change nothing of this and are left out.

`EventLedger` knows four numbers: events that wait, that are with libclick, that
were answered and that were dropped. Under the refinement mapping `Waiting` is
everything between a logfile and the sender's hand, `toBeResent` included, summed
over the streams, and `Out` is everything from `Work` to the responses, summed over
the batches in flight (`Total`).

### Events

One event goes from `main()` to libclick. A field of it is a tuple of words, a
value says which of the parser's values it is and what was done to it: raw, hashed
or added. `opt` is what `Options` makes of the flags; the line, the flags and the
day are a scenario, a constant. The steps of `modifyEventContents` are taken in its
order; which parts a request has is any combination `requestShape` can find; a
field that should be shaped and is no text ends the program (`panicked`), as the
type assertion does. `factor` multiplies the rates of all samplers the event has
survived, and is compared with the rate on the event. Other events exist only in
the sampler they share (`SamplerStep`); the key of an event is chosen freely. One
stream has one sampler.

`DynSampler` calculates the rates of a busy window as `updateMaps` does, key by key
in the order of their names (`ShareKey`): a share in proportion to the logarithm of
the count, one event at least, an equal part of what earlier keys left over, and the
rate rounded up. Floating point is replaced by parts, `Unit` of which are one event,
and every division is rounded down to a part; the logarithms are a constant
function, 0 for 1 and positive otherwise. When all logarithms are 0 the rates are no
numbers (`NoNumber`), and the event that gets one ends the program. The quiet branch
assigns its map without the lock; as that is one pointer, it is one step.

Times are dates, without a time of day and in UTC. Of nginx the two fields it looks
for first are kept, and that with only one of its two time options it takes the
present time and deletes nothing (`LoneTimeOption`); of the other parsers
`GetTimestamp`. Of mongodb's values there are namespace, changelog and locks, each a
map or not; a namespace that is no text ends the program (`ParsePanics`). The
changelog's details, the command's query and the replica set are left out. Fields that the parser prefixes belong to the
line. The names a request is given come after dropping: `--drop_field
request_query` has no effect, and no property says it has.

## 3. What TLC checks

| Run | Instance | Shows |
|---|---|---|
| `tail_file` | 5 half-lines, writes of 2 or 3, 2 runs, follow or stop, `last`, globbed | `TypeOK`, `InOrder`, `SavedAtMostTwoAhead`, `SkipsAtMostTwo`, `ImplementsLineFeed` |
| `tail_live` | 4 half-lines, one run, polling | `EveryLineArrives`, `StreamCloses`, `FileReleased`, `StopReturns` |
| `watch_entries` | 2 names, one of them used again, 3 inodes, 2 tailers | `TypeOK`, `OneFollower`, `StatesOfKnownFiles`, `NoDoubleRead`, `Found`, `Released` |
| `state_names` | 4 logfiles, 17 configurations, 2 runs | `StatesWhereAsked`, `ResumesWhereSaved`, `NewFilesWhole` |
| `process_lines` | 3 entries, 2 workers, all three ways of parsing, sampled groups and lines; with a polled server 1 entry | `TypeOK`, `WholeStatements`, `EveryStatement`, `WholeQuery`, `SurvivesPolling`, `NothingAfterReturn`, `ParserReturns` |
| `pipeline` | 1 stream of up to 3 events, 2 workers per stage, capacities of 1, 2 retries, back-off, dynamic sampling, tickers | `TypeOK`, `NoSendOnClosed`, `DoneMeansDrained`, `SenderLeavesNothing`, `RunReturns`, `ImplementsLedger`, `FinalTotal` |
| `events` | some two thousand scenarios, 2 keys, windows of up to 3 events a key | `NothingHiddenIsSent`, `OthersUntouched`, `RateMeansRate`, `OnlyTimeFieldLost`, `YearRecovered`, `MongoValuesKept`, `QuietSendsAll`, `RatesMeetGoal` |

Deadlock checking is off everywhere: a run of the system ends when the process
has been started `MaxRuns` times, or when `run()` has returned.

The runs that end in a violation show where the code and its documentation part:

| Run | Claim | What happens |
|---|---|---|
| `tail_stop_loses_line` | `tail.go:35` "Last picks up where it left off" | The reader leaves on cancellation while the tailer offers a line; the saved position is past it. |
| `tail_stale_save` | `README.md:46`, `:83` stable final offset, races fixed | A tick being handled when the reader saves its last position overwrites it or tears the file. |
| `watch_rotated` | `tail.go:35` "if the file has not been rotated, otherwise beginning" | A save between rotation and reopening stores the new inode with the old offset; after a crash the new file is started in the middle. |
| `process_lines_ping` | `mysql.go:455` "this event is an administrative ping and we should ignore the entire event" | The ping's line begins the *next* group, and the next statement is ignored. |
| `pipeline_stall` | `leash.go:55` "if we can't send fast enough, we slow down reading the log" | With back-off, sender, worker, batches and handlers all wait, each for the next. |

### Bounds, and why they are enough

* Every interval the tailer can be in (before, at, inside and after a half line)
  exists within five half-lines; two lines in hand plus one more need six
  half-offsets at most, and a second run is what reads the state file of the
  first. Larger files repeat the same cases; `TailFileProofs` proves the safety
  properties without the bounds.
* Two names and three inodes give deletion, recreation, handover and retirement, and
  a retired tailer that reopens its name while discovery opens it too; two
  tailers are the active one and its predecessor. One line in the first file is
  what a tailer has to read to its end. Restarts, more tailers, more lines and more
  names are covered by `WatchEntriesProofs` for the safety properties.
* The logfiles of `state_names` are two in one directory, one of the same base name
  in another, and one of the same stem without `.log`: every way to share a stem.
  The configurations combine exact paths and globs alone, beside each other and
  overlapping, with each thing that the state path can be. One line is enough to
  tell the beginning from the end; the second run reads what the first saved.
* Three entries give a group before, between and after others; two workers give
  every overtaking. With the server one entry is enough, as the workers share
  nothing but the pointers.
* Two streams share the responses channel and libclick. What is safety in
  `pipeline` is proved for any number of streams; `RunReturns` and
  `ImplementsLedger` also hold with `Streams = {s1, s2}`, `NumSenders = 1` and
  `MaxEvents = 1` (793,208 states), which takes too long to be a run of its own.
  Capacities of 1 make every channel fill and empty; the code's multiples of
  `NumSenders` only make it take longer. Three events with batches of two give a
  full and a partial batch, and two workers a last one that closes the channel.
  `PipelineProofs` proves `ImplementsLedger` for any numbers.
* The scenarios of `events` are chosen per question: all flags on one line, all
  ways of dropping, scrubbing and adding a request and a field beside it on lines
  that hold names shaping would derive, all kinds of two time fields, all pairs of
  fifteen days around the turns of the year and of February, all locks. Two keys
  with up to three events make quiet, busy and all-singles windows, shares above and
  below one event, and something left over; twelve parts of an event can be divided
  by every count and number of keys. The goal rate is 3; with 0 and 1 `main()`
  refuses to sample dynamically.
* `pipeline_stall` takes seven events to fill all channels once.

### Fairness

Goroutines are scheduled (weak fairness of each goroutine's steps), the parser
takes the lines offered to it, and in `FairSpec` of `Pipeline` the server answers
every batch and the streams end (`--tail.stop`). The
watcher's ticker is part of its goroutine. Nothing is assumed of writers, signals,
crashes, restarts or whoever removes files. A `select` with two
ready cases is not assumed to be fair between them: the properties hold whichever
it takes. `StateNames`, `Events` and `ServerState` have no liveness property and no
fairness of their own. `EveryLineArrives` assumes polling (`--tail.poll`): with inotify a line
written between reading the end of the file and adding the watch waits for the
next write.

## 4. What is proved

All proofs assume only the named assumptions on the constants (`TailAssumption`,
`PipelineAssumption`, `WatchAssumption`, `StateNamesAssumption` and so on): any file
size, any chunks, any number of runs, names, tailers, streams, senders and workers,
any capacities, any configurations and any scenarios.

* `TailFileProofs`. `TypeCorrect` first. `LinesInOrder` is proved from an
  inductive invariant that adds to `InOrder` where the position is when a half
  line has been consumed and not given back (`tpc = "seek"`), and that a line in
  hand is not longer than a line. `SavedBound` needs more than the state file:
  every value on its way there, in `reg`, in `state` and in a resumed `loc`, is
  at most two lines ahead of `given`, because a position read by `Tell` is at most
  two lines ahead when it is read and `given` never decreases within a run.
  `SkipBound` is the step `SeekStart` from that invariant. `Implementation` maps
  every step to a step of `LineFeed` or to a stutter: `SeekStart` begins,
  `Deliver` delivers, `Exit` and `Crash` halt.
* `PipelineProofs`. `TypeCorrect`; `NothingLeft` (`SenderLeavesNothing`) from an
  invariant that says, stage by stage, that once all workers of a stage have
  returned the stages before it are empty; and `NothingOnClosed`
  (`NoSendOnClosed`) from the order of `run()`'s waits: past the first wait every
  parser that was started is done and hence its sender, past `LibclickClosed`
  the worker has exited with `work`, `batch` and all batches at zero.
  `TotalIsRight` (`FinalTotal`) from `Counted`: until `LogFinal` the count and the
  total together are the responses handled, so it does not matter when the
  tickers fire; only `LogFinal` ends `run()`.
  `NothingForgotten` (`DoneMeansDrained`) adds to these invariants that a handler
  that has returned has seen the closed, empty responses channel, so that past the
  last wait nothing is in the hand of anybody but in `toBeResent`.
  `PipelineImplementsLedger` (`ImplementsLedger`), step by step. A sum over
  streams or batches is the number of pairs of one of them and a number up to
  its summand, so that it is a fact about cardinalities (`TotalSplit`) what
  changing one summand does to it (`TotalUpdate`), and no induction over the set
  is needed; these lemmas are module `SumsProofs`, which `EventsProofs` uses
  too. Parser, modifier, forwarder and a waiting sender change no stream's
  number, so they stutter; so do the steps within libclick, from `Work` to the
  batch, to a batch in flight and to the responses, which keep `Out`.
  `SendEvent`, `DropEvent` and `HandleResponse` are the steps of the ledger.
  With `NothingForgotten` the ledger gives the balance at the end of `run()`
  (`EveryEventIsBooked`): the events the logfiles had are those answered, those
  dropped and those left in `toBeResent` or in a stream that was not started,
  whatever was retried.
* `WatchEntriesProofs`. `TypeCorrect`; `OneKept` (`OneFollower`): every tailer that
  follows and was not told to stop is the active one, the `previous` one that the
  goroutine still has in hand, or one it is retiring (`Handover`, `Followed`); `StatesAreKnown`
  (`StatesOfKnownFiles`): a state file, and a tailer that may still write one
  under its name, belongs to a known file or to the one being forgotten
  (`StatesOwned`), because removing the state file unlinks it from its tailer.
  `ReadOnce`: two tailers of a run never have the same file open when its name is
  not used again, or when the path is exact. Each file created gets a new inode, so
  an inode belongs to one name, and tailers that have the same one open were started
  for the same name (`InodesApart`). Of a name that is not used again there is one
  tailer (`OwnReader`): it is started when the name is not yet known, and a name
  stops being known, with its tailer still reading, only when its file is gone for
  good. An exact path has one tailer per run (`OnlyReader`).
  `ReadTwiceOnlyByEnding` (`NoDoubleRead`) is about names that are used again. A
  tailer that only reads its file to the end (`Drains`) never reopens, so its inode is
  its own (`Drained`: nobody else has it open, and its name is known as long as it has
  that inode); hence two that share an inode both follow the name. Of two
  followers neither of which is ending, one is the active tailer and the other the
  one it replaces, which stand for different names (`NamesApart`, from
  `Followed`): discovery starts only names that are not known.
* `StateNamesProofs`. `TypeCorrect`, `StatesAreWhereAsked`, `SavedPositionsCount`
  (`ResumesWhereSaved`) and `NewFilesAreRead` (`NewFilesWhole`) from one invariant:
  what is prepared before files are opened (`Prepared`: a path that has to be a
  directory is one, and only a single exact path does without), that all calls of
  `getStateFile` agree on a name (`Named`), that the state file of a file which is
  `Alone` and `Undisturbed` holds what was last saved (`Kept`), and that of a file
  not yet opened is missing (`New`).
* `ProcessLinesProofs`. `NoLateSend` (`NothingAfterReturn`): a worker that has
  returned holds nothing and takes nothing again. `PollingIsSurvived`
  (`SurvivesPolling`): as long as the server is what it was, a pointer a worker has
  found set stays set. `StatementsAreWhole` (`WholeStatements`), with
  `"postgresql" \notin Sampled` (section 5 says why): `LogOK`, the order of the lines;
  `Grouping`, what the group being read may hold, which rests on the shapes of the
  entries (lemmas `MySQLEntry`, `PostgreSQLEntry`, `LineEntry`); and `GroupsWhole`:
  a group that was completed has all text of an entry that has none still to come
  (`Over`), so that no later line can undo it. `TypeCorrect` (`TypeOK`).
* `ProcessLinesStatements`. `QueryIsLastStatement` (`WholeQuery`): `QueryOf` is a
  recursion over the lines of a group, so a predicate on line numbers is proved by
  `SetInduction`, which the least-element property of well-founded relations gives
  for a set of numbers. The recursion defines a function (`ReadingExists`), whose
  value after line m is `SoFar` (`ReadLine`): the text since the last `;` and the
  last statement, if comments and the naming of the database come before the
  statement (`Ordered`), which grouping sees to (`GroupOrdered`).
  `EveryStatementIsSent` (`EveryStatement`) from `Accounted`: groups do not overlap
  (`GroupsApart`), each line that has been grouped and makes an event is in the group
  that is offered, with a worker, sampled away or sent (`NoneLost`), and nothing
  else was sent (`SentWanted`). It assumes what the documentation takes for
  granted and the code does not give: no administrative ping in a mysql log
  (`process_lines_ping` shows what one does), and no lines sampled in front of
  postgresql's grouping (section 5).
* `EventsProofs`. `HiddenStaysHidden`, from a statement per stage of what may still
  be raw; `OthersArrive`; `RateIsTheSamplers`, from the options `main()` can leave
  together (never `tailSample` with `dynSample`, rate 1 with it); `YearIsRecovered`,
  for every pair of days, by comparing dates in lexicographic order;
  `OtherFieldsStay`; `QuietWindowsSendAll`; `TypesOfTheEvent`. `RatesKeepTheGoal`
  (`RatesMeetGoal`) has an invariant of the calculation key by key: what the keys so
  far send and what is left over are at most their shares and one event for each
  small one (`SharingInv`). A key takes its part of what is left over and gives back
  what it does not use, the rate being rounded up so that it never uses more than it
  has (`KeyIsShared`); at the end the shares together are at most the goal, since
  each is rounded down (`SharedOut`). `MongoValuesArrive`
  (`MongoValuesKept`) follows the values through the four steps of `Decompose`: no
  later step makes a field that an earlier one made, and no two locks share a field
  (`OwnLockField`), though `"w"` is tested twice and `"W"` keeps its letter. It
  assumes that the line has no field `database` of its own: beside a namespace
  without a dot such a field stays and looks like the namespace's. A scenario's
  values must be what mongodb's log can hold (`LineValues`).

Only model-checked: the liveness properties `EveryLineArrives`, `StreamCloses`,
`FileReleased`, `StopReturns`, `Found`, `Released`, `ParserReturns` and `RunReturns`, as
liveness and ENABLED are out of the prover's reach, and the claims that the code
refutes. Every safety invariant and action property of the runs that pass, and both
refinements, are proved; three with hypotheses beyond the assumptions on the
constants, `WholeStatements`, `EveryStatement` and `MongoValuesKept`,
each of them needed, as a run or section 5 shows. The other way round,
the type invariants of `StateNames` and `Events` are proved and in no run.

## 5. Further behaviour the models show

These are not runs of their own. Each can be seen by changing a constant.

* `Poll = FALSE` in `TailFileLive.cfg`: `EveryLineArrives` fails as said above.
* `NoDoubleRead` without its exception for a tailer that is ending fails in
  `watch_entries`: a name that is removed and created again between two scans is
  opened by discovery while the retired tailer of the old file reopens it by name,
  and until that one ends each line of the file is sent twice.
* Without `Alone`, or without `Undisturbed`, `ResumesWhereSaved` fails: `a/x.log`,
  `b/x.log` and `a/x` share a state file, and the clean-up of a glob `a/*.log`
  removes the states of other paths' files of the same place, as none of its own
  files wants them. `README.md:65` "Restart resumes each file from its own state
  file" holds under the two conditions only.
* A logfile matched by two paths is tailed twice, and both tailers save into one
  state file.
* `SurvivesPolling` allows a panic once the server has changed: a worker between
  test and use when a replica is promoted, stops to replicate or to answer
  dereferences nil. Without `changed` in it the property fails.
* A busy window in which every key was seen once makes rates that are no numbers,
  and `rand.Intn` panics: `RatesMeetGoal` fails without its condition `~Singles`. A key
  whose share is less than one event is given one, so a window with many such keys
  sends more than the goal: it fails without the term for `Small`. Until the first
  busy window every event is sampled at the goal rate, however few there are:
  `QuietSendsAll` fails without `haveData`.
* A changelog whose `ns` is no text makes mongodb's parser panic
  (`mongodb.go:251`), as does a shaped field that is no text: the
  stage `panicked` of `Events`.
* `GetTimestamp` deletes a time field that could not be parsed, if no other could
  either (third disjunct of `OnlyTimeFieldLost`).
* `"postgresql"` added to `Sampled` in `ProcessLines.cfg`: `main.go:235-239` samples
  lines for every parser but mysql, "because it has a multi-line log format"; so
  has postgresql, and `WholeStatements` fails: statements lose lines, or gain
  those of the statement before whose first line was dropped.
* Without its second disjunct `StopReturns` fails: when the reader leaves on
  cancellation the tailer waits for ever in `sendLine`, and `Stop()` for the
  tailer. The process ends by the 10 second timeout of `leash.go:108`.
* Without its second disjunct `RunReturns` fails: with back-off, more retryable
  responses than the retry channels hold, after the sender has ended, block the
  handler and with it `libclick.Close()`.
* A mongodb line with a field `database` of its own and a namespace without a dot, as
  a scenario, violates `MongoValuesKept`: `decomposeNamespace` leaves the field.
* A crash before the first save leaves an empty state file, and the next run
  starts at the end of the file (documented at `tail.go:42`).

## 6. Not modelled

* Of the response statistics, the durations, status codes and bodies, and the
  unlocked `log()` at the end.
* Truncation of a logfile, and reuse of inode numbers by the file system: with
  either, `getStartLocation` cannot tell the file from the one whose position was
  saved, and what it does then is no more than what it compares.
* `TailFile` together with `ProcessLines`: how many lines of a half grouped entry a
  crash loses is bounded by nothing in the code.
* `mongodb`'s cache of the replica set, mysql's `hostedOn` and role as values.
* `GetEntries`, `GetSampledEntries` (called only by tests) and standard input.
* The digits of floating point numbers: what the dynamic sampler's divisions and
  logarithms round to, beyond what any rounding to parts of an event does.
* What regular expressions, JSON and key=value decoding, time formats and the URL
  shaper compute from a text: data without state. What is then done with the fields
  is module `Events`.
* Reading flags and the configuration file; schemas, packaging, scripts; vendored
  libraries other than `hpcloud/tail`, `tomb`, `muster`, `limitgroup` and
  `dynsampler-go`.

## 7. Plan

Done, in this order: `TailFile` with `LineFeed` and its proofs; `Pipeline` with
`EventLedger` and its proofs; `WatchEntries`; `ProcessLines` and its proof; `Events`
with `Options`, `EventTime`, `MongoEvent`, `DynSampler` and their proofs;
`StateNames` and its proofs; `ServerState`; the proofs of `WatchEntries` and
`DoneMeansDrained`; the proof of `WholeStatements`; then the refinement of
`EventLedger`, `EveryStatement`, `WholeQuery`, `NoDoubleRead` and `MongoValuesKept`;
then the dynamic sampler's calculation, `NoDoubleRead` for names used again and
`RatesMeetGoal`.

What would come next: truncation in `TailFile`, with `reopen`; `TailFile` composed
with `ProcessLines`; an abstract specification of the watcher (which segments are
live) and the proof of its refinement.

## 8. Running

```
tlc -workers 2 -config TailFile.cfg MCTailFile.tla
tlapm TailFileProofs.tla
```

The module of each configuration is in `PROJECT.json` under `runs`.
