# dehash: specifications, model checks and proofs

dehash answers whether a file hash is in the NSRL, the NIST list of known
software. `etl` imports the NSRL SQLite database into a Pebble store, `server`
answers lookups from it over HTTP, `tui` is a terminal client, `blitz` and
`stress` are load generators, `start.sh` drives all of them. This directory
specifies that system in TLA+, checks it with TLC on small instances and
proves the most important properties with TLAPS for every instance.

Run everything from this directory: `tlc -config <cfg> <module>` for a run,
`tlapm <module>Proofs.tla` for the proofs. `PROJECT.json` lists runs, mutants,
the lines each definition stands for, hazards, findings and theorems.

## The system

| component | state | operations | interacts with | what makes it correct |
|---|---|---|---|---|
| hash keys (`internal/store`, `cmd/etl`) | none | `HashToKey`, `serializeRow`'s cells | the importer writes keys, the server reads them | both sides derive the same key from the same hash, in any spelling; no hit is false |
| store (`internal/store/store.go`) | the Pebble database, read-only | `Open`, `Lookup`, `Close` | handlers, server process | absent, invalid and unreadable are told apart |
| HTTP handlers (`internal/api`) | the semaphore `h.sem`; per request the results slice and its WaitGroup | `HandleLookup`, `HandleBulk`, `HandleFile`, `processBulk` | one goroutine per connection, one per hash of a bulk request | every answer is what the database says of each hash, in the batch's order; the slots are never lost or exceeded; no goroutine outlives its request |
| server process (`cmd/server`) | the listener, the signal channel, the shutdown goroutine | start, serve, `Shutdown`, deferred `Close`, exit | handlers, store, signals | a signal that finds it serving stops it; a request is dropped only by a stop, asked for or forced by an error of accept, never by a failed start |
| importer (`cmd/etl`) | two bounded channels, the workers, the open batch, Pebble's memtables | stream, serialise, close, write, commit, report, close | SQLite, Pebble | a finished import holds what it read, each record under all its hashes, but for the tail in memory; a record is installed whole or not at all, also after a crash; the pipeline ends |
| schema and package map (`cmd/etl`) | none | `detectSchema`, `loadPackageMap`, the row queries | SQLite, `streamRows` | each record carries the details of its own package; no file is left out; both schemas give the same records |
| terminal UI (`cmd/tui`) | the Bubble Tea model: state, focus, inputs, picker, answer | `Update` and its four handlers, `sendRequest` | the server, over HTTP | keys reach the highlighted field; the answer shown is the one to the request made; waiting ends unless the file to send does not |
| `blitz` (`cmd/blitz`) | two atomic counters, the stop channel, the samples of the display | workers, ticker and display loop, stop, 200 ms grace, report | the server | the report misses at most what was on its way; the samples add up; it ends on its own |
| `stress` (`cmd/stress`) | the workers' slices of latencies, the summaries | scenarios with warm-up and deadline, merge, percentiles, table | the server | what is summarised is what the workers measured, in their window; percentiles are of the samples |
| launcher (`start.sh`) | the scratch database, the Pebble directories and their locks, the script's variables | convert, import, start, by any number of terminals | all programs | what a terminal imported whole is what it serves; no import in progress is served; no record comes from a file that was not imported; a served database does not change |
| example client (`examples/client`) | none | `lookupSingle`, `lookupFile`, `demoAll` | the server | the counts it shows add up to the file it sent, unless the server refused it |
| record type, `wrk` scripts, Makefile | none | requests, build targets | the server | - |

The hard behaviour is in seven places: the goroutines of concurrent bulk
requests on one semaphore; shutdown against requests in flight; the three-stage
pipeline with its two channels and the order they are closed in; crashes of an
import that runs without a write-ahead log; runs of `start.sh` that share a
scratch file and directories; messages that reach the UI in another state than
the one that caused them; and load generators that measure while their workers
are still being answered. `PROJECT.json` lists each hazard
at its line, with the properties that cover it.

## The modules

| module | models | composes / implements |
|---|---|---|
| `HashKeys` | texts, `HashToKey`, the importer's keys | |
| `Answers` | `Store.Lookup`'s outcomes, `parseHashLines`, the replies | extends `HashKeys` |
| `LookupService` | abstract: every request gets one legal answer, in one step | extends `Answers` |
| `Handlers` | the router, the handlers, `processBulk` and its goroutines | extends `Answers`, implements `LookupService` |
| `DehashServer` | `main` of the server, signals, shutdown, exit | extends `Handlers`, implements `Handlers` |
| `Writes` | what a store holds after a sequence of writes | |
| `Import` | abstract: what an import may do to a database | extends `Writes` |
| `EtlPipeline` | the importer's goroutines, Pebble's durability and its stalls | extends `HashKeys`, `Writes`, implements `Import` |
| `PackageMap` | the schemas, the four queries, the records they lead to | |
| `Client` | what the example client shows of the replies | extends `Handlers` |
| `Blitz`, `Stress` | the load generators, called as `LoadFlags` says | extend `LoadFlags` |
| `Latencies` | the merge of the slices, the percentiles | |
| `Tui` | the terminal UI | |
| `Deployment` | `start.sh` in several terminals, from the menu to the server | uses what `Import` and `DehashServer` promise of the programs it runs |
| `MC*` | the instances TLC checks | |
| `Induction` | induction over sets, sums and enumerations, for the proofs | |
| `*Proofs` | theorems and their proofs | extend the module or the instance they are about |

### HashKeys and Answers

A text is a record: the bytes its trimmed body decodes to (`NotHex` if none),
whether white space surrounds it, whether it has capitals. That is everything
the code tells apart. The server picks the key prefix by the decoded LENGTH,
the importer by the table COLUMN, and the importer neither trims nor checks the
length; `Reachable` and `NoCrossHit` say when the two still agree.
`Lookup(t)` is the set of outcomes of `Store.Lookup`: one, or two for a key in
`Unreadable`, whose Get or whose decoding may fail. An outcome carries the
error VALUE a handler compares: `ErrInvalidHash` is only ever returned wrapped,
so it is a value of its own, "wrapped ErrInvalidHash".

### Handlers

One action per step another goroutine can come between:

| action | code (`handlers.go`) |
|---|---|
| `Receive`, `BodyTooBig` | fasthttp: a request comes; one over `MaxRequestBodySize` (`cmd/server/main.go:33`) is refused before the router |
| `MethodNotAllowed`, `UnknownPath`, `Health` | the router in `cmd/server/main.go:53-74` |
| `HandleLookup` | 33-68, one Get and the answer |
| `HandleBulk`, `HandleFile`, `ProcessBulk` | 76-112, and 115-120 |
| `Dispatch` | `wg.Add(1)`, `h.sem <- struct{}{}` (blocks while full), `go` |
| `BulkLookup` | the goroutine's lookup and its write to `results[idx]` |
| `ReleaseSlot`, `WgDone` | its deferred `<-h.sem`, then `wg.Done()` |
| `Finish` | `wg.Wait()`, `Collate`, `writeJSON` |

`looking`, `holding` and `leaving` are the sets of goroutines between those
steps; a goroutine is named by its connection and index. `Collate` is the code's
loop over the results, turn by turn (`Sorted`), and the reply made of it;
`LookupService` says the same answer declaratively, by sets and a selection in
order. The run `handlers` shows on its instance that one implements the other,
`HandlersImplementService` proves it for all.

### DehashServer

`main` is a program counter over open, notify, listen, serve, close, exit, and
the ways to die. `Sigterm` may come at any time: before `signal.Notify` it
kills the process, later it fills the one-place channel or is dropped.
`listener` is what `ListenAndServe` has: `Shutdown` closes it (`TakeSignal`), and
`AcceptFails` is any error of accept but a timeout (too many open files), after
which it returns as well (`ServeReturns`), with no signal and whatever requests
are being served; those come over open connections until the process is gone. The
handlers' actions are guarded by the process being alive, and become `Panic`
if they would read the store after `main` has closed it. Signals are
bounded by `MaxSignals`.

### EtlPipeline and Import

A row is its number in `Source`. `rowCh` and `kvCh` are bounded sequences; a
worker holds the message it has to send, `Ready` or `Done`. A message is the
function from the row's keys to the row, as `serializeRow` makes one slice with
one value. `mem` is the sequence of committed batches not yet flushed,
`durable` the flushed messages in order, and `Contents` what a reopened
database would hold: under every key the value of the last write that sets it
(`Writes`). Close does not flush: what `mem` holds when the process ends, in
whatever way, is lost (`Unflushed`). The faults of a run are chosen by `Faults`: a fatal error
while loading, a stream error, a refused `Set`, a failed `Commit`, a kill at
any point. `crew` is what `--workers` starts, none of them included, and
`compactors` half the CPUs (`main.go:458`). `WritePairs` counts a record, the
turn that makes `CommitEvery` full leads to `PeriodicCommit`. A commit of
something waits for `Room`: a `Flush` takes a batch out of memory and adds a
run to level 0, `Compact` empties level 0, and is never scheduled when
`compactors` is 0. `Load` abstracts what comes before: the tables and the
package map are the subject of `PackageMap`, and `Source` is the rows it streams.

### PackageMap

The tables are sets of rows with `Null`s, the queries set expressions.
`PackageMaps` is the SET of maps a modern or minimal database may lead to, since
SQLite takes the ungrouped columns of `GROUP BY package_id` from any one row;
`FileRows` is the stream, with `NoPackage` (0) where the modern query coalesces
and the `Null` where the minimal one does not; `Scans` is what `rows.Scan`
accepts. A text is a number, so that `MIN` has an order; a file name is the
sequence of its parts, because concatenation with a `Null` is `Null`. The four
hash columns stand together as one: what is done with each is in `HashKeys`.
`Flatten` writes a modern database in the minimal schema, each file once for
each of its own packages, for the property that the importer makes the same
records of both. (It once gave every file the packages of all of them. With links
for one file only the run could not tell the difference; the proof of
`SchemasGiveTheSame` could, and the instance now links two files.) `Null` is
assumed to be neither a text nor a name (`NullAssumption`).

### Client

`FileShows` and `SingleShows` are what `lookupFile` and `lookupSingle` print of a
reply; they look at no status, and a field the reply lacks reads as zero. They
are applied to the answers `Handlers` gives, so the client's own count of the
file's lines and the server's split of it are compared on every request.
`CountLines` stops at the first of the `LongLines`, as `bufio.Scanner` does at
a line over 64 KiB, whose error `countLines` does not ask for; the server splits
the whole body, so it reports more than the client announced.

### Blitz and Stress

In `Blitz` time is in seconds: `Second` lets one pass and puts a tick into the
ticker's channel unless one is still there, `Display` is one turn of the loop
that takes it, with the end of the test a choice for the tick of the last
second (`start` is taken after the ticker is made). `Ask` and `Answer` are the two
halves of a worker's turn; `LoadTotal` and `LoadErrors` read the two counters
one after the other while workers may still be answered. With `--duration 0` the
progress bar has the length `int(+Inf)`, which Go leaves to the machine:
negative on amd64, and then `strings.Repeat` panics; both outcomes are allowed.

In `Stress` time is the phase of the scenario, `warmup`, `measure` or `over`,
read by a worker before it asks and again when it is answered. `local` is the
length of a worker's slice, `perWorker` of the one handed over, `Summarise` is
`wg.Wait`, the merge and the summary of `runScenario`; `Summary.hashes` is the
rate of hashes of the table without the division by the duration. `sent`,
`asked` and `answered` are bookkeeping; `MaxSent` and `MaxAsked` bound the
requests. `MCLoad` extends `Blitz`, takes an instance of `Stress` and runs either.

### Latencies

`Percentile` is `percentiles` with its truncated index, `NearestRank` the
textbook definition it is compared with. A sample's `Place` in the sorted slice is
the number of samples not after it. The code computes the index in floating point; up
to some 10^13 samples, where the product with 99 is exact and the quotient not
within rounding of the next integer, that is the integer division written here.

### Tui

`Update` dispatches on the state when a message ARRIVES. Keys are grouped by
what they do: `MoveFocus`, `Arrow`, `Space`, `Enter` (five things, by focus),
`Edit`, `CancelPicker`, `PickFile`, `Back`, `Save`, `QuitKey`; `Response`
is the answer of the request goroutine, handled in whatever state the UI is in
then. `tea.Quit` queues a message, so other messages may be handled between
the key and the end (`quitting`). `FormRequest` is the request the form
describes at this moment; sending captures it. What `doRequest` makes of it depends
on the request: an answer or an error (`Answers`), nothing ever if the file is
one of the `Endless`, a FIFO or device whose `os.ReadFile` does not return
(`Hangs`), and for a file sent to a `Refused` host and port the end of the
program (`Crash`): `http.NewRequest` fails, its error is discarded and the nil
request used (`cmd/tui/main.go:457-458`).

### Deployment

A terminal's `at` is the place its script waits or works at, `job` the
script's variables. `ChooseImport`, `Discard`, `OpenScratch`, `ConvertSome`,
`ConvertEnds` are `start.sh:89-139`. etl takes four kinds of steps, with other
terminals in between: `StartEtl` opens SQLite and loads the package map, `OpenPebble`
takes the directory's lock, `QueryRows` runs the row query, whose snapshot is what
the import is of, `EtlInstalls` writes records, in any order and groups
(what `etl` shows of `EtlPipeline`). `EtlEnds` is its exit with status 0, which
does NOT mean that all is written: a stream error is only logged and the
tail in memory is lost, so whatever is in `todo` then is left out. `StartServer`
is the two `exec bin/server`, `Listen` its `ListenAndServe`. `Leave` is every other
end: `die`, a failed command under `set -e`, a directory or address in use, a signal.

`scratch` is the number of the file at `data/nsrl_import.db`, `files` who has
written what into each: a removed file is still written to by whoever has it
open. Three variables are bookkeeping of the properties and guard nothing.
`job.whole` says that an import is of one writer and has left out nothing;
`history` how the last such import of a file into a directory went, "complete",
"short" (ended, rows left out) or "aborted"; `tainted` the directories that
got what another terminal may have converted.

## The runs

| run | expects | properties | instance and why it is enough |
|---|---|---|---|
| `records` | pass | `EverySpellingFound`, `NoFalseHit`, `PackageDetailsGenuine`, `NoFileLeftOut`, `EitherSchema`, `PercentilesNear` | one input at a time: every column x cell x query text over one byte string per length that matters, the empty one, one of a wrong length and `NotHex`; NSRL databases of two files, up to two packages and two applications in the same package or in two, each with up to two links to everything, with `Null`s, and sets of tables with and without what is needed; 0 to 12, 20, 21, 50 and 99 to 101 latencies, where the truncated index changes |
| `handlers` | pass | `TypeOK`, `LookupsBounded`, `NoOrphans`, `ResultsSettled`, `NoFalseAlarm`, `ImplementsService`, `ClientAddsUp` | 2 connections, 2 slots, requests covering every branch, with a file over the limit and one with a line too long for the client; batches of up to 3 hashes with duplicates, spellings, invalid, absent and unreadable ones. 3 hashes on 2 slots make a dispatch block within one request, two connections make it block on another's |
| `handlers_read_error` | violation | `NotFoundMeansAbsent` | same instance |
| `server` | pass | `ServerTypeOK`, `DropsOnlyWhenStopped`, `SignalWhileServingStops`, `AnsweredOrStopped` | 2 connections on 1 slot, 2 signals and an error of accept at any moment, single and bulk lookups: before, between and after each step of `main` |
| `server_graceful` | violation | `GracefulShutdown` | same instance |
| `server_early_signal` | violation | `SignalStops` | same instance, fair |
| `etl` | pass | `TypeOK`, `NothingLostInFlight`, `DoneButForMemory`, `SiblingsAgree`, `ImplementsImport` | 0 to 3 workers, 1 or 2 CPUs, channels of 2, a commit every 2 records, 2 batches in memory and 2 runs in level 0 until Pebble stalls, 6 rows: twins of one file in two packages, a CRC32 collision, an undecodable hash, a NULL; the stream fails or the process is killed at any step |
| `etl_live` | pass | `Terminates` | 0 to 2 workers, 1 or 2 CPUs, channels of 1, a commit for every record, so that three rows fill memory and level 0; stream, `Set` and commit failures |
| `etl_tail` | violation | `DoneMeansImported` | no fault at all |
| `load` | pass | `TypesKept`, `MissingBounded`, `HistoryHonest`, `RunsItsTime`, `LeakBounded`, `SummaryExact`, `Ends` | 3 workers, `--duration` 0 to 2, at most 5 requests, an empty hash file or one of 2; a single scenario, then a bulk one with two of the workers, batches shorter than, as long as and longer than the file. Each property relates a worker's last request to main's steps: more requests repeat what two of a worker show |
| `tui` | pass | `TypeOK`, `AnswerMatchesForm`, `OneFieldListens`, `PickedFileIsSent`, `LoadingEnds` | two values for every input but the port, a host that makes no URL, a path that can be picked and one that can only be typed, a FIFO: two different requests can follow each other, which is what could confuse their answers |
| `deployment` | pass | `TypeOK`, `ImportedIsServed`, `ServedImportsEnded`, `NothingForeign`, `ServedUnchanging` | 3 runs in 2 terminals, 2 directories, 1 address, 2 dumps with a record in common and a binary database: one run may leave a partial database or a scratch file that the other two, at the same time, meet |

Deadlock is checked in `handlers`; the other systems really stop (the process
exits, the import ends, the user quits, no run is left, no input is left). The
bounds in guards are `MaxSignals`, `MaxRuns`, `MaxSent`, `MaxAsked` and, in
`Blitz`, that the clock stops a second after the duration; all others are in the
instances only. Every property has a
mutant in `PROJECT.json`, a plausible slip in one mapped definition that the
run catches.

### What the runs found

* `handlers_read_error`: a Get that fails, or a record that does not decode,
  is listed under `not_found` with status 200. A known file is then reported as
  unknown, against `README.md:9` of the repository. `NoFalseAlarm` shows this is the
  only way: a record that can be read is never reported missing.
* `server_graceful`: `ListenAndServe` returns as soon as the listener is
  closed; `main` returns while `Shutdown` still waits, closes the store and
  exits with requests unanswered, or panics in one that reads the closed store.
* `server_early_signal`: a SIGTERM between `signal.Notify` and the listener is
  consumed by a `Shutdown` with nothing to shut down; the goroutine that reads
  signals is gone and the server can no longer be stopped by one.
* `etl_tail`: with the WAL disabled and no flush, the records counted as
  imported may not be on disk when the process ends normally, though nothing
  failed. `etl` shows (`DoneButForMemory`) that these last records are all that is
  missing, and that what is there is exact.

Divergences met without a run of their own, the properties of the passing runs
saying what does hold. In the importer: an error of the stream is only logged
(`cmd/etl/main.go:115`), the import says "Done.", exits with 0, and
`start.sh:153` says "ETL complete"; `--workers 0` imports nothing and says the
same (both are named in `DoneButForMemory`), so that the server is started over
a database with rows left out, and nobody is told (`history` calls such an import
"short"; `ImportedIsServed` and `ServedImportsEnded` claim nothing of what it left out); on a machine with one CPU
`NumCPU()/2` allows no compaction, and a large import stands still for ever
(`Stalled`, the exception in `Terminates`); a row with a NULL column is counted
neither as imported nor as skipped (`cmd/etl/main.go:328`), which in the minimal
schema drops the files without a package that the modern one keeps (`EitherSchema`
names them); the least OS name and the least OS version are taken on their own
(line 210), so a record may show a pair that no system has
(`PackageDetailsGenuine` claims the version of an application with one system
only). In the load generators: a request sent in the warm-up and answered after
it is counted, against "sent but not counted" of `cmd/stress/main.go:40`, at most
one for each worker, as many past the deadline (`LeakBounded`); the rate of
hashes is overstated when the file is shorter than `--batch`
(`SummaryExact`); failed requests appear nowhere in the summary, whose
`errors` field is never set; `blitz --duration 0` may panic. In the example
client: an error reply, such as that to a file over 32 MB, reads as a file with
nothing found and nothing suspicious, and a line over 64 KiB ends the count the client
announces, not the one it reports (`ClientAddsUp` names both).

In the server and the rest: an error of accept, such as too many open files, ends the
process and drops the requests in flight with no signal (`cmd/server/main.go:48`,
`DropsOnlyWhenStopped`); `handlers.go:55` compares with
`==` an error that is always wrapped (`store.go:96`, `109`), so the answer to an
invalid hash is a 500, never the 400 of line 56; a second server on the same
address cannot listen while the first one does (`Listen`), so the update of
`README.md:437-440`, which starts the new one before the old one gets its
SIGTERM, is not without a downtime; two terminals that convert dumps at the
same time may import each other's scratch file (`start.sh:128`,
`ImportedIsServed` names the condition), also when it is rewritten after etl has
opened it and before it queries the rows, minutes later; a file sent by the UI
to an address that makes no URL ends the program, a FIFO keeps it waiting
(`cmd/tui/main.go:435`, `449`, `457`, `LoadingEnds`); in the file picker
Ctrl+C goes back to the form, where `README.md:352` says it quits; Space neither
opens the picker (`README.md:350`) nor reaches a text input, so a path with a
space can only be picked, not typed.

### Fairness

`Handlers` and `EtlPipeline` `Spec` are safety only. The liveness runs assume
what the Go scheduler gives: weak fairness of each goroutine's next step
(`main`, the shutdown goroutine, each handler, each lookup goroutine, each
worker, the closer, the writer). `Dispatch` has strong fairness: whether it can
proceed depends on the other connections' slots, and senders blocked on a Go
channel are woken in arrival order, so one that could proceed again and again
is not passed over. Nothing is assumed of clients, signals or faults. In
`EtlPipeline` Pebble's background goroutines are fair too: a memtable is flushed
in the end, and level 0 compacted if a compaction may be scheduled at all. In
`Blitz` only `main` and time are fair, so `Ends` holds with a server that never
answers and workers that never run; in `Stress` the workers are, and their answers,
by the client's timeouts of 30 s (`cmd/stress/main.go:51`), because `main` waits for
them. In `Tui`, weak fairness of `Response \/ Crash` is the HTTP client's
120 s timeout, and says nothing of a request whose file is never read to its end: neither
is enabled for it. That of `Quit` is Bubble Tea's queue; no key need ever be pressed. In
`DehashServer` no error of accept has to come, and none is ruled out.

## The proofs

All theorems hold for every value of the constants that meets the named
assumptions (`RawAssumption`, `StoreAssumption`, `HandlersAssumption`,
`ServerAssumption`, `ClientAssumption`, `EtlAssumption`, `DoneAssumption`, `TuiAssumption`,
`DeploymentAssumption`, `LoadAssumption`, `BlitzAssumption`,
`StressAssumption`, `NullAssumption`, `SampleAssumption`): any number of connections,
slots, hashes, workers, samples and seconds, any table and any database. Every
invariant and every action property a passing run checks, and both
refinements, are theorems.

* `Induction` has the lemmas the others share. The library's induction
  theorems take an operator; here induction is over a SET of naturals that holds 0
  and is closed under +1 (`SetInduction`, from the well-foundedness of <), and who
  wants P(n) takes {n : P(n)}. With it: what a recursive function computes, an
  enumeration of a finite set of indices in increasing order and its uniqueness
  (`Rank`, `Increasing`), and how a sum over a set changes with one of its terms.
* `RecordsProofs`, keys: `EverySpellingReachable` and `HitsAreGenuine` are
  `Reachable` and `NoCrossHit` for all byte strings and lengths. The lemmas are
  that `MakeKey` is injective, that no two kinds have the same width and that
  prefix and kind determine each other.
* `RecordsProofs`, records: `DetailsAreGenuine`, `EveryFileKept` and
  `SchemasGiveTheSame` are the three properties of the package map for EVERY
  database that is `Typed`: names and versions are texts or NULL, an application has four
  version columns, there are finitely many systems (the property counts them), no package
  has the id 0 (the code's mark for "none") and files with the same hashes, unless
  they are NULL, are one object, as NSRL's object ids are. Whatever row SQLite picks is quantified over.
* `RecordsProofs`, percentiles: `NearEnough`, for every sequence of samples.
  A sample's place is between 1 and their number and no two have the same, so by
  counting every place is taken (`EveryPlaceTaken`) and the sorted slice is a
  rearrangement; `CountAndPlace` relates a place to how many samples are not above;
  `Truncated` is the arithmetic of the index. `MergeType` is about the merge of any
  number of slices.
* `EverySpelling`, `NoFalseHits`, `PackageDetails`, `NoFileLost`,
  `SameFromEither` and `PercentilesNearTrue` are the same statements as
  invariants of `MCRecords`, whose databases and latencies are shown to be typed.
* `HandlersProofs`: `TypeCorrect`, `Bounded`, `OrphanFree`, `Settled`, from
  `Invariance`: `IInv` is inductive. None of the four is so by itself. That
  the results are complete when the WaitGroup is at zero needs
  `WaitGroupCounts` (the counter is the number of goroutines of the request, at
  any of their three places, which `PhasesDisjoint` keeps apart) and
  `Dispatched` (each index whose goroutine has looked up holds a verdict its
  lookup explains; every other one still has the zero result); that a goroutine
  finds its frame needs `NoOrphans` itself and that it runs only for an index already
  dispatched. The proof has a lemma for each group of actions.
* `DehashServerProofs`: `HandlersImplementService`, the handlers with their
  goroutines implement `LookupService`. The step that answers a bulk request is the
  one that matters: `Settled` explains every verdict, `BatchOfRequest` (invariant)
  says the batch is still the request's, also when it was split from a file, and by
  induction over the results the loop's accumulator after n turns is the selection
  in order of the first n, their map and their number (`Turn`). All other steps
  stutter or answer alike.
* From it follow the properties of single answers, since they hold of every legal answer:
  `FalseAlarmFree` and `ClientCounts` (the two ways to split a file agree but for lines
  the client's Scanner refuses, and an error is the reply to no other file than one that
  is empty or too big).
  `NotFoundExact` says that if every record can be read, `NotFoundMeansAbsent`,
  which `handlers_read_error` refutes, does hold: failed reads are its only cause.
* `ServerRefinesHandlers`: the process implements the handlers' specification,
  step by step, so what is proved of the handlers holds of the process, whatever the
  signals (`ServerBounded`, and `ServerImplementsService`, the chain process,
  handlers, service). `ServerTypeCorrect` and `DropsExplained` are
  of the process alone: the latter by `Attended`, that the listener is closed only after
  a signal was caught, and that a request is there only if the listener was opened and, as long as
  it is open, main serves.
* `EtlPipelineProofs`: `TypeCorrect` and `NothingLost`, for any table, any number
  of workers, zero included, and any sizes of channels and batches. The balance
  of `NothingLostInFlight` is inductive by itself; what is proved are its
  counts: `HitsAppend` and `HitsTail` say how the rows with a hash in a queue
  change when it grows or loses its head. That the final count is the whole
  table's, and that nobody sends on a closed channel, needs `Closing`: a worker
  that was started returns only when `rowCh` is closed and empty, `kvCh` is closed only
  when all have returned, main reports only when `kvCh` is closed and empty.
* `SiblingsTogether`, `DoneImported` and `ImportImplemented` are about what is in
  the database. Counts are not enough for that: `Placed` says where each row is, in
  exactly one of the table, `rowCh`, a worker's hands, `kvCh`, the open batch, the
  memory and the disk, and once there; every step moves one row, or a batch of
  them, to the next place, and none takes one back.
  A message is written whole, so the last write of all hashes of a file is the same
  (`SiblingsTogether`); the rows on disk are those that were read but
  for the ones in memory (`DoneImported`); a flush installs rows that had not been, in an order, and
  over the contents there were (`ImportImplemented`). All three assume that
  no `Set` is refused (`"set" \notin Faults`): the code counts such an error as
  skipped and goes on (`cmd/etl/main.go:411-414`), the record then lacks one of its
  hashes, and without the assumption they are false.
* `TuiProofs`: `TypeCorrect`, `AnswersMatch`, `FocusExact`, `PickedIsSent`, from an
  inductive `IInv`. `AnswerMatchesForm` also says that the request out while
  the UI waits is the form's and that none is out otherwise, which is what
  makes it inductive; `PickedIsSent` needs that the picker is open only for a
  type that sends a file.
* `DeploymentProofs`: `TypeCorrect`, `ImportServed`, `NoneInProgress`, `NoLeak`,
  `ServedConstant`, for any number of terminals and runs. `ImportedIsServed` is
  not inductive: `Converted` follows the records from the dump to the scratch
  file (one with a single writer is that writer's dump, as far as it has come, until
  the row query has it),
  `Importing` from there to the directory, `Locks` makes the program that has a
  directory open the only one that writes to it, and `HistoryTrue` ties what is
  recorded as running to the terminal that runs it.
* `LoadProofs`, blitz: `MissingBounded` speaks of the report only; inductive is
  `Accounted`: every request sent is counted or waited for and, between main's
  reads of the two counters, the answers that came in and the workers still
  waiting are together no more than the workers there are, since a worker that was told
  to stop does not ask again. `RunsItsTime` needs `Paced`, that every sample and
  the tick in the channel had a second of its own. `HistoryHonest` needs `Shown`, the
  display's account, kept by `Display` because its sample is what came in
  since the last one.
* `LoadProofs`, stress: `LeakBounded` by `Windows`: a worker whose early
  answer is counted will only ask in the measurement, and a worker that had a late one
  asks no more. `SummaryExact` by `Tallied` (a worker's slice is as long as its
  inside, early and late samples together, and what it handed over is that
  slice) and `Summed`; the sums over the workers are compared term by term.
* `LoadProofs`, both: `OfTheOneThatRuns` puts the two invariants side by side;
  the steps of one program leave the variables of the other alone, and the
  stage they share is its own. So the properties hold of `Either` (`EitherTypeCorrect`,
  `EitherMissesFew`, `EitherStopsInTime`, `EitherHonestHistory`,
  `EitherLeaksFew`, `EitherSummarises`), the specification the run checks.

Only model-checked: the liveness properties (`AnsweredOrStopped`,
`SignalWhileServingStops`, `Terminates`, `Ends`, `LoadingEnds`), which need
fairness and ENABLED, beyond what the prover handles; and the four violations, which are
counterexamples.

## Assumed of code outside the repository

* fasthttp: one request at a time per connection, a goroutine each; `Shutdown`
  without a listener returns at once, with one closes it and waits for busy
  connections; `ListenAndServe` returns when the listener is closed and on any error of
  accept that is not a timeout; a body over the limit is answered with 400 before the
  handler is called (the connection may also be reset, which the client reports as such).
* Pebble: a batch is applied atomically and in the order of its Sets; without a
  WAL a commit is in memory until flushed, flushes keep the order and a crash
  loses what is not flushed; a Get on a closed database panics; `Set` and
  `Commit` may fail. `Close` does not flush.
  Writers wait while memtables or runs of level 0 are at their stop threshold
  (`MemStop`, `L0Stop`; here before every batch, as if each filled a memtable), an
  empty batch is not written, and no compaction is scheduled while
  `MaxConcurrentCompactions` returns 0.
* SQLite: a column that is neither grouped nor aggregated comes from any one row
  of the group, the same row for all of them; a query sees the file as it was when the query
  began; `MIN` passes over NULL; a query that names
  a table that is not there fails.
* fasthttp's client returns from `Do` with an answer or an error, in the end; `http.NewRequest` fails on what
  `url.Parse` refuses, such as a host with a space.
  `time.Ticker` drops the ticks its channel of one does not hold.
* Go: channel and WaitGroup semantics, a one-place signal channel drops what
  does not fit.
* Pebble locks a directory for one process, whether it opens it to read or to
  write; the lock, and a listening port, end with the process. A binary input
  file is not the scratch file itself.
* Bubble Tea: `Update` is called with one message at a time; commands run in
  goroutines of their own. The file picker, without a filter, never reports a
  disabled file, so `pickerErr` is always empty.

## Not modelled, and the plan

Modelled, in this order: `HashKeys`, `Answers`, `LookupService`, `Handlers`,
`DehashServer` (the answers first, then the process around them), `Import`,
`EtlPipeline` (the database they come from), `Tui`, `Deployment` (the client, and
the script that runs them all), `PackageMap`, `Blitz`, `Stress`, `Latencies`, `Client`
(the records' contents, and the remaining programs).

Left out for good: rendering, colours and layout of the programs' output, the
file `saveResponse` writes, JSON and MessagePack encodings beyond what an answer or a
record says, SQLite itself, `wrk` scripts, build targets, and the client's
`demoAll`: a fixed sequence of calls whose parts are modelled. It uses the
response of a request that may have failed (`examples/client/main.go:131`) and
would then panic, which one glance shows and no model adds to.
