---------------------------- MODULE EtlPipeline -----------------------------
(***************************************************************************)
(* The importer, cmd/etl: one goroutine streams the rows of the SQLite     *)
(* table into rowCh, workers serialise them into kvCh, a goroutine closes  *)
(* kvCh when all workers are done, and main writes batches into Pebble.    *)
(*                                                                         *)
(* A row is named by its place in the table.  The message of a row is the  *)
(* function from each of its keys to the row: serializeRow gives all keys  *)
(* of a row the same value and sends them as one slice.                    *)
(*                                                                         *)
(* Of Pebble (external): a batch is applied whole, in the order of its     *)
(* Sets; without a WAL a committed batch is in memory until it is flushed, *)
(* in the background and in order, and is lost if the process ends first,  *)
(* in whatever way: Close does not flush.                                  *)
(* A flush adds a run to level 0, a compaction takes the runs away; Commit *)
(* waits while too many batches are in memory or runs in level 0.  Pebble  *)
(* asks this when a memtable is full: here every batch fills one.          *)
(***************************************************************************)
EXTENDS HashKeys, Writes, Integers, Sequences, FiniteSets

CONSTANTS
  Source,       \* the table: a sequence of rows
  Workers,
  Crews,        \* the sets of them that --workers may start
  Cpus,         \* the numbers of CPUs the machine may have
  RowCap,       \* rowChannelBuffer
  KvCap,        \* kvChannelBuffer
  CommitEvery,
  MemStop,      \* MemTableStopWritesThreshold
  L0Stop,       \* L0StopWritesThreshold
  Prior,        \* what --out holds before: its keys, all with value Old
  Faults,       \* what may go wrong
  Done          \* what a worker that has returned holds

AllFaults == {"load", "stream", "set", "commit", "kill"}

\* scans: no column that rows.Scan reads into a string or an int64 is NULL.
Row == [cells : [HashKinds -> Text], scans : BOOLEAN]

ASSUME EtlAssumption ==
  /\ Source \in Seq(Row)
  /\ IsFiniteSet(Workers) /\ Crews \subseteq SUBSET Workers
  /\ Cpus \subseteq Nat \ {0}
  /\ MemStop \in Nat \ {0} /\ L0Stop \in Nat \ {0}
  /\ RowCap \in Nat \ {0} /\ KvCap \in Nat \ {0} /\ CommitEvery \in Nat \ {0}
  /\ Prior \subseteq Keys
  /\ Faults \subseteq AllFaults

VARIABLES
  crew,       \* the workers started, and
  compactors, \* MaxConcurrentCompactions: chosen once
  stage,      \* "loading", "writing", "reported", or how the process ended
  pos,        \* the row streamRows is at
  streamErr,  \* whether the stream ended with an error
  rowCh, rowClosed,
  worker,     \* what each worker holds: a message to send, Ready or Done
  kvCh, kvClosed,
  batch,      \* the messages Set in the open batch
  count, skipped,
  mem,        \* the committed batches not flushed yet, lost when it ends
  durable,    \* the messages flushed, in order
  level0      \* the runs in level 0

opts   == <<crew, compactors>>
reader == <<pos, streamErr, rowClosed>>
writer == <<batch, count, skipped>>
disk   == <<durable, level0>>
vars   == <<opts, stage, reader, rowCh, worker, kvCh, kvClosed, writer, mem, disk>>

Ready == <<>>   \* the message of a row without a key: nothing to send
Old   == 0      \* a record of an earlier import

Ended == {"exited", "failed", "killed"}
-----------------------------------------------------------------------------
\* serializeRow.
KeysOf(i)  == {CellKey(k, Source[i].cells[k]) : k \in HashKinds} \ {NoKey}
Message(i) == [key \in KeysOf(i) |-> i]

ASSUME DoneAssumption ==
  Done # Ready /\ \A i \in 1..Len(Source) : Done # Message(i)

\* The database as it will be found when it is opened again.
Contents == Written([key \in Prior |-> Old], durable)

Init ==
  /\ crew \in Crews /\ compactors \in {n \div 2 : n \in Cpus}
  /\ stage = "loading"
  /\ pos = 1 /\ streamErr = FALSE
  /\ rowCh = <<>> /\ rowClosed = FALSE
  /\ worker = [w \in Workers |-> IF w \in crew THEN Ready ELSE Done]
  /\ kvCh = <<>> /\ kvClosed = FALSE
  /\ batch = <<>> /\ count = 0 /\ skipped = 0
  /\ mem = <<>> /\ durable = <<>> /\ level0 = 0
-----------------------------------------------------------------------------
\* Opening SQLite, the schema, the package map, opening Pebble: any may be fatal.
Load ==
  /\ stage = "loading"
  /\ \/ stage' = "writing"
     \/ "load" \in Faults /\ stage' = "failed"
  /\ UNCHANGED <<opts, reader, rowCh, worker, kvCh, kvClosed, writer, mem, disk>>

Streaming == stage \in {"writing", "reported"} /\ ~rowClosed

(* Mutant of StreamRow: a row that finds rowCh full is dropped.            *)
StreamRowDropping ==
  /\ Streaming /\ pos <= Len(Source)
  /\ rowCh' = IF Source[pos].scans /\ Len(rowCh) < RowCap
                THEN Append(rowCh, pos) ELSE rowCh
  /\ pos' = pos + 1
  /\ UNCHANGED <<opts, stage, streamErr, rowClosed, worker, kvCh, kvClosed, writer, mem, disk>>

\* rows.Next, rows.Scan (a failure only skips the row), the send into rowCh.
StreamRow ==
  /\ Streaming /\ pos <= Len(Source)
  /\ IF Source[pos].scans
       THEN Len(rowCh) < RowCap /\ rowCh' = Append(rowCh, pos)
       ELSE UNCHANGED rowCh
  /\ pos' = pos + 1
  /\ UNCHANGED <<opts, stage, streamErr, rowClosed, worker, kvCh, kvClosed, writer, mem, disk>>

(* Mutant of StreamEnds: rowCh is not closed when the stream fails.        *)
StreamEndsUnclosed ==
  /\ Streaming /\ ~streamErr
  /\ \/ pos > Len(Source) /\ rowClosed' = TRUE /\ UNCHANGED <<pos, streamErr>>
     \/ /\ "stream" \in Faults /\ streamErr' = TRUE
        /\ pos' = Len(Source) + 1 /\ UNCHANGED rowClosed
  /\ UNCHANGED <<opts, stage, rowCh, worker, kvCh, kvClosed, writer, mem, disk>>

\* streamRows returns and rowCh is closed; an error is only logged.
StreamEnds ==
  /\ Streaming
  /\ \/ pos > Len(Source) /\ UNCHANGED streamErr
     \/ "stream" \in Faults /\ streamErr' = TRUE
  /\ rowClosed' = TRUE
  /\ UNCHANGED <<opts, stage, pos, rowCh, worker, kvCh, kvClosed, writer, mem, disk>>
-----------------------------------------------------------------------------
Working(w) == stage \in {"writing", "reported"} /\ worker[w] # Done

\* A row without a decodable hash is dropped here: its message is Ready.
TakeRow(w) ==
  /\ Working(w) /\ worker[w] = Ready /\ rowCh # <<>>
  /\ worker' = [worker EXCEPT ![w] = Message(Head(rowCh))]
  /\ rowCh' = Tail(rowCh)
  /\ UNCHANGED <<opts, stage, reader, kvCh, kvClosed, writer, mem, disk>>

(* Mutant of SendPairs: the pairs of a row are sent one by one.            *)
SendPairsSingly(w) ==
  /\ Working(w) /\ worker[w] # Ready /\ Len(kvCh) < KvCap
  /\ \E key \in DOMAIN worker[w] :
       /\ kvCh' = Append(kvCh, [k \in {key} |-> worker[w][k]])
       /\ worker' = [worker EXCEPT ![w] = [k \in DOMAIN @ \ {key} |-> @[k]]]
  /\ UNCHANGED <<opts, stage, reader, rowCh, kvClosed, writer, mem, disk>>

SendPairs(w) ==
  /\ Working(w) /\ worker[w] # Ready /\ Len(kvCh) < KvCap
  /\ kvCh' = Append(kvCh, worker[w])
  /\ worker' = [worker EXCEPT ![w] = Ready]
  /\ UNCHANGED <<opts, stage, reader, rowCh, kvClosed, writer, mem, disk>>

WorkerDone(w) ==
  /\ Working(w) /\ worker[w] = Ready /\ rowCh = <<>> /\ rowClosed
  /\ worker' = [worker EXCEPT ![w] = Done]
  /\ UNCHANGED <<opts, stage, reader, rowCh, kvCh, kvClosed, writer, mem, disk>>

(* Mutant of CloseKv: it waits for the stream, not for the workers.        *)
CloseKvAfterStream ==
  /\ stage = "writing" /\ ~kvClosed /\ rowClosed /\ rowCh = <<>>
  /\ kvClosed' = TRUE
  /\ UNCHANGED <<opts, stage, reader, rowCh, worker, kvCh, writer, mem, disk>>

CloseKv ==
  /\ stage = "writing" /\ ~kvClosed
  /\ \A w \in Workers : worker[w] = Done
  /\ kvClosed' = TRUE
  /\ UNCHANGED <<opts, stage, reader, rowCh, worker, kvCh, writer, mem, disk>>
-----------------------------------------------------------------------------
\* batch.Set may refuse some keys of a message; the record is counted all the same.
Accepted(m) == {m} \cup ( IF "set" \in Faults
                            THEN {[k \in ok |-> m[k]] : ok \in SUBSET DOMAIN m} ELSE {} )

\* Whether Commit goes on, or waits for a flush or a compaction.
Room == Len(mem) < MemStop /\ level0 < L0Stop

CommitIsDue == Len(batch) = CommitEvery

\* batch.Commit, which does nothing for an empty batch; an error is fatal.
CommitBatch ==
  /\ batch' = <<>>
  /\ \/ batch = <<>> /\ UNCHANGED mem
     \/ batch # <<>> /\ Room /\ mem' = Append(mem, batch)

(* Mutant of WritePairs: the periodic commit is due one record too late.   *)
WritePairsLate ==
  /\ stage = "writing" /\ kvCh # <<>> /\ Len(batch) <= CommitEvery
  /\ kvCh' = Tail(kvCh)
  /\ batch' = Append(batch, Head(kvCh)) /\ count' = count + 1
  /\ UNCHANGED <<opts, stage, reader, rowCh, worker, kvClosed, skipped, mem, disk>>

\* One turn of writeToPebble's loop, up to the commit every commitEvery records.
WritePairs ==
  /\ stage = "writing" /\ kvCh # <<>> /\ ~CommitIsDue
  /\ kvCh' = Tail(kvCh)
  /\ \E m \in Accepted(Head(kvCh)) :
       /\ batch' = Append(batch, m)
       /\ skipped' = skipped + Cardinality(DOMAIN Head(kvCh) \ DOMAIN m)
  /\ count' = count + 1
  /\ UNCHANGED <<opts, stage, reader, rowCh, worker, kvClosed, mem, disk>>

PeriodicCommit ==
  /\ stage = "writing" /\ CommitIsDue
  /\ \/ CommitBatch /\ UNCHANGED stage
     \/ "commit" \in Faults /\ stage' = "failed" /\ UNCHANGED <<batch, mem>>
  /\ UNCHANGED <<opts, reader, rowCh, worker, kvCh, kvClosed, count, skipped, disk>>

\* The loop of writeToPebble ends; "Done." and the counts are printed.
FinalCommit ==
  /\ stage = "writing" /\ kvCh = <<>> /\ kvClosed /\ ~CommitIsDue
  /\ \/ CommitBatch /\ stage' = "reported"
     \/ "commit" \in Faults /\ stage' = "failed" /\ UNCHANGED <<batch, mem>>
  /\ UNCHANGED <<opts, reader, rowCh, worker, kvCh, kvClosed, count, skipped, disk>>
-----------------------------------------------------------------------------
\* Pebble flushes its oldest memtable; a batch may share one with others.
Flush ==
  /\ stage \in {"writing", "reported"} /\ mem # <<>>
  /\ durable' = durable \o Head(mem) /\ mem' = Tail(mem)
  /\ level0' = level0 + 1
  /\ UNCHANGED <<opts, stage, reader, rowCh, worker, kvCh, kvClosed, writer>>

\* No compaction is ever scheduled when MaxConcurrentCompactions() is 0.
Compact ==
  /\ stage \in {"writing", "reported"} /\ compactors > 0 /\ level0 > 0
  /\ level0' = 0
  /\ UNCHANGED <<opts, stage, reader, rowCh, worker, kvCh, kvClosed, writer, mem, durable>>

\* The deferred pb.Close(), then the process exits with status 0.
ClosePebble ==
  /\ stage = "reported"
  /\ stage' = "exited"
  /\ UNCHANGED <<opts, reader, rowCh, worker, kvCh, kvClosed, writer, mem, disk>>

Kill ==
  /\ "kill" \in Faults /\ stage \notin Ended
  /\ stage' = "killed"
  /\ UNCHANGED <<opts, reader, rowCh, worker, kvCh, kvClosed, writer, mem, disk>>
-----------------------------------------------------------------------------
Work(w) == TakeRow(w) \/ SendPairs(w) \/ WorkerDone(w)
Stream  == StreamRow \/ StreamEnds
Write   == WritePairs \/ PeriodicCommit \/ FinalCommit \/ ClosePebble

Next == Load \/ Stream \/ (\E w \in Workers : Work(w)) \/ CloseKv \/ Write
        \/ Flush \/ Compact \/ Kill

Spec == Init /\ [][Next]_vars

\* Every goroutine that can run is run, Pebble's too; nothing has to fail.
Fairness == /\ WF_vars(Load) /\ WF_vars(Stream) /\ WF_vars(CloseKv) /\ WF_vars(Write)
            /\ WF_vars(Flush) /\ WF_vars(Compact)
            /\ \A w \in Workers : WF_vars(Work(w))

FairSpec == Spec /\ Fairness
-----------------------------------------------------------------------------
Rows == 1..Len(Source)
Imported == {i \in Rows : Source[i].scans /\ KeysOf(i) # {}}

TypeOK ==
  /\ stage \in {"loading", "writing", "reported"} \cup Ended
  /\ pos \in 1..(Len(Source) + 1) /\ streamErr \in BOOLEAN
  /\ rowCh \in Seq(Rows) /\ Len(rowCh) <= RowCap /\ rowClosed \in BOOLEAN
  /\ \A w \in Workers : worker[w] \in {Ready, Done} \cup {Message(i) : i \in Imported}
  /\ Len(kvCh) <= KvCap /\ kvClosed \in BOOLEAN
  /\ Len(batch) <= CommitEvery /\ Len(mem) <= MemStop /\ level0 \in Nat
  /\ crew \subseteq Workers /\ compactors \in Nat
  /\ count \in Nat /\ skipped \in Nat

(* No row is lost or doubled between the table and the database: each row  *)
(* that was streamed and has a hash is in exactly one of the channels, the *)
(* workers' hands and the writer's count (main.go:109-133).  No worker has *)
(* a message left to send when kvCh is closed, which would panic, and the  *)
(* count "Done." is printed with is that of all rows with a hash, unless   *)
(* the stream failed or no worker was started.                             *)
NothingLostInFlight ==
  LET read == Cardinality({i \in Imported : i < pos}) IN
  /\ read = Cardinality({n \in DOMAIN rowCh : rowCh[n] \in Imported})
             + Cardinality({w \in Workers : worker[w] \notin {Ready, Done}})
             + Len(kvCh) + count
  /\ kvClosed => \A w \in Workers : worker[w] = Done
  /\ stage \in {"reported", "exited"} /\ crew # {} =>
       count = read /\ (streamErr \/ pos > Len(Source))

ReadRows == IF crew = {} THEN {} ELSE {i \in Imported : i < pos}
AllRead  == streamErr \/ crew = {} \/ pos > Len(Source)

\* The rows of the batches that no flush has reached.
Unflushed == {i \in Imported : \E b \in DOMAIN mem : \E n \in DOMAIN mem[b] : mem[b][n] = Message(i)}

\* The database is what it was, with the records of these rows under their keys.
Holds(rows) ==
  /\ DOMAIN Contents = Prior \cup UNION {KeysOf(i) : i \in rows}
  /\ \A key \in DOMAIN Contents :
       IF \E i \in rows : key \in KeysOf(i)
         THEN Contents[key] \in {i \in rows : key \in KeysOf(i)}
         ELSE Contents[key] = Old

(* When the process has said "Done." and ended, what it has read of the    *)
(* table can be found, every record under every one of its hashes, except  *)
(* the last records, which were still in memory, and nothing else; and it  *)
(* has read all of the table unless the stream failed, which is only       *)
(* logged, or it was started with --workers 0, which reads nothing into    *)
(* the database (main.go:63, 115, 136-138, 457).                           *)
DoneButForMemory == stage = "exited" => AllRead /\ Holds(ReadRows \ Unflushed)

(* "Done." means imported (main.go:136-138, "Inserted: %d"; README:104-    *)
(* 108): the same without the exception.                                   *)
DoneMeansImported == stage = "exited" => AllRead /\ Holds(ReadRows)

(* Records of one file, listed once per package, differ in their package   *)
(* only: whichever is written last, all the hashes of the file lead to the *)
(* same one, also after a crash.                                           *)
SiblingsAgree ==
  \A i \in Imported :
    (\A j \in Imported : KeysOf(j) \cap KeysOf(i) # {} => KeysOf(j) = KeysOf(i))
    => \A k1, k2 \in KeysOf(i) :
         /\ k1 \in DOMAIN Contents /\ Contents[k1] \in Imported
         => k2 \in DOMAIN Contents /\ Contents[k2] = Contents[k1]

(* The import keeps the promise of Import, through a kill at any moment.   *)
Installed == {i \in Imported : \E n \in DOMAIN durable : durable[n] = Message(i)}
Abstract == INSTANCE Import WITH
              db <- Contents, todo <- Imported \ Installed,
              Prior <- [key \in Prior |-> Old],
              Records <- [i \in Imported |-> Message(i)]
ImplementsImport == Abstract!Spec

(* The pipeline does not deadlock on its bounded channels, and a writer    *)
(* that waits for Pebble waits for a flush or a compaction that comes: the *)
(* import ends.  The one exception is a machine with one CPU, where        *)
(* NumCPU()/2 allows no compaction and, once level 0 is full, the import   *)
(* stands still for ever (main.go:458).                                    *)
Stalled == stage = "writing" /\ compactors = 0 /\ level0 >= L0Stop

Terminates == <>(stage \in Ended) \/ <>[]Stalled
=============================================================================
