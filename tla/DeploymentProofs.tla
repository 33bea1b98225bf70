-------------------------- MODULE DeploymentProofs --------------------------
(***************************************************************************)
(* The invariants of start.sh's runs, for any number of terminals, files,  *)
(* directories and runs.  IInv is inductive: that an import is served      *)
(* needs to know, at each of its steps, where its records are (Converted,  *)
(* Importing), and that no import in progress is, that the lock says who   *)
(* has a directory open (Locks) and what a running import holds            *)
(* (HistoryTrue).  One lemma per action.                                   *)
(***************************************************************************)
EXTENDS Deployment, TLAPS

\* Every file's records are records.
LEMMA RecsRecords == \A x \in Inputs : Recs[x] \subseteq Records
  BY DEF Records

\* Nobody has a file open that is still to come.
LEMMA FileOrder ==
  ASSUME Types, Converted, NEW t \in Terminals PROVE job[t].file <= scratch /\ 0 <= scratch
  BY DEF Types, Converted

\* A step of t that leaves the scratch files alone and is not of a conversion
\* keeps what is known of every file.
LEMMA ConvertedKept ==
  ASSUME NEW t \in Terminals, Types, Converted, UNCHANGED <<scratch, files>>,
         \A u \in Terminals : u # t =>
           at'[u] = at[u] /\ job'[u] = job[u] /\ todo'[u] = todo[u],
         job'[t].file <= scratch,
         at'[t] \notin {"discarded", "convert", "sqlite", "pebble"},
         at'[t] = "path" => job'[t].input \notin Dumps
  PROVE  Converted'
<1>1. ASSUME NEW u \in Terminals PROVE Converting(u)'
  <2>1. CASE u = t
    BY <2>1 DEF Converting
  <2>2. CASE u # t
    BY <2>2 DEF Converting, Converted
  <2> QED
    BY <2>1, <2>2
<1> QED
  BY <1>1 DEF Converted

\* Before the first run there is nothing.
LEMMA InitIInv == Init => IInv
<1> SUFFICES ASSUME Init PROVE IInv
    OBVIOUS
<1> USE DeploymentAssumption DEF Init
<1>1. Types
  <2>1. NoJob \in Job /\ NewFile \in [by : SUBSET Terminals, recs : SUBSET Records]
    BY DEF NoJob, Job, NewFile
  <2> QED
    BY <2>1 DEF Types, Stages, Hows
<1>2. Locks
  BY DEF Locks, NoJob, Stages, Hows, Opened
<1>3. Chosen
  BY DEF Chosen, NoJob, Stages, Hows, Opened
<1>4. Converted
  BY DEF Converted, Converting, NoJob, NewFile
<1>5. Importing
  BY DEF Importing, NoJob, Stages, Hows, Opened
<1>6. HistoryTrue
  BY DEF HistoryTrue, NoJob, Stages, Hows, Opened
<1>7. ImportedIsServed
  BY DEF ImportedIsServed, NoJob, Stages, Hows, Opened
<1>8. NothingForeign
  BY DEF NothingForeign, NoJob, Stages, Hows, Opened
<1> QED
  BY <1>1, <1>2, <1>3, <1>4, <1>5, <1>6, <1>7, <1>8 DEF IInv

\* A new run has chosen nothing yet.
LEMMA LaunchKeeps ==
  ASSUME IInv, NEW t \in Terminals, Launch(t) PROVE IInv'
<1> USE DeploymentAssumption, RecsRecords DEF IInv, Launch, Go, Types, Stages, Hows, Opened
<1>1. job' \in [Terminals -> Job] /\ job'[t].file = job[t].file
  <2> DEFINE b == DefaultPath \in made
  <2>1. b \in BOOLEAN /\ job' = [job EXCEPT ![t].hasDb = b] /\ job[t] \in Job
    OBVIOUS
  <2> HIDE DEF b
  <2>2. [job[t] EXCEPT !.hasDb = b] \in Job
    BY <2>1 DEF Job
  <2>3. [job[t] EXCEPT !.hasDb = b].file = job[t].file
    BY <2>1 DEF Job
  <2>4. job \in [Terminals -> Job]
    OBVIOUS
  <2> HIDE DEF IInv, Launch, Types
  <2>5. job'[t] = [job[t] EXCEPT !.hasDb = b]
    BY <2>1, <2>4
  <2>6. job' \in [Terminals -> Job]
    BY <2>1, <2>2, <2>4
  <2> QED
    BY <2>3, <2>5, <2>6
<1>9. Types'
  BY <1>1
<1>2. Locks'
  BY DEF Locks
<1>3. Chosen'
  BY DEF Chosen
<1>4. Converted'
  BY <1>1, ConvertedKept, FileOrder
<1>5. Importing'
  BY DEF Importing
<1>6. HistoryTrue'
  BY DEF HistoryTrue
<1>7. ImportedIsServed'
  BY DEF ImportedIsServed
<1>8. NothingForeign'
  BY DEF NothingForeign
<1> QED
  BY <1>2, <1>3, <1>4, <1>5, <1>6, <1>7, <1>8, <1>9 DEF IInv

\* A file is chosen; a binary one is already converted.
LEMMA ChooseImportKeeps ==
  ASSUME IInv, NEW t \in Terminals, NEW x \in Inputs, ChooseImport(t, x) PROVE IInv'
<1> USE DeploymentAssumption, RecsRecords DEF IInv, ChooseImport, Go, Types, Stages, Hows, Opened
<1>1. Types'
  <2>1. job[t] \in Job
    OBVIOUS
  <2>2. [job[t] EXCEPT !.input = x] \in Job
    BY <2>1 DEF Job
  <2>3. job' \in [Terminals -> Job]
    BY <2>2
  <2> QED
    BY <2>3
<1>2. Locks'
  BY DEF Locks
<1>3. Chosen'
  BY DEF Chosen
<1>4. Converted'
  <2>1. job'[t].file = job[t].file /\ job'[t].input = x
    BY DEF Job
  <2>2. job'[t].file <= scratch
    BY <2>1, FileOrder
  <2>3. at'[t] \in {"schema", "path"} /\ (at'[t] = "path" => x \notin Dumps)
    OBVIOUS
  <2>4. \A u \in Terminals : u # t => at'[u] = at[u] /\ job'[u] = job[u] /\ todo'[u] = todo[u]
    OBVIOUS
  <2>5. Types /\ Converted /\ UNCHANGED <<scratch, files>>
    OBVIOUS
  <2> HIDE DEF IInv, ChooseImport, Go, Types
  <2> QED
    BY <2>1, <2>2, <2>3, <2>4, <2>5, ConvertedKept
<1>5. Importing'
  BY DEF Importing
<1>6. HistoryTrue'
  BY DEF HistoryTrue
<1>7. ImportedIsServed'
  BY DEF ImportedIsServed
<1>8. NothingForeign'
  BY DEF NothingForeign
<1> QED
  BY <1>1, <1>2, <1>3, <1>4, <1>5, <1>6, <1>7, <1>8 DEF IInv

\* A new scratch file has no writer and no record.
LEMMA DiscardKeeps ==
  ASSUME IInv, NEW t \in Terminals, Discard(t) PROVE IInv'
<1> USE DeploymentAssumption, RecsRecords DEF IInv, Discard, Go, Types, Stages, Hows, Opened
<1>1. Types'
  OBVIOUS
<1>2. Locks'
  BY DEF Locks
<1>3. Chosen'
  BY DEF Chosen
<1>4. Converted'
  <2>1. \A u \in Terminals : job[u].file \in Int
    BY DEF Job
  <2>2. \A u \in Terminals : Converting(u)'
    BY DEF Converted, Converting
  <2>3. scratch + 1 \in 0..MaxRuns /\ scratch \in Int
    OBVIOUS
  <2>4. files[scratch + 1].by = {}
    BY <2>3 DEF Converted
  <2>5. \A m \in 0..MaxRuns : m > scratch + 1 => files[m].by = {}
    BY <2>3 DEF Converted
  <2>6. \A u \in Terminals : job[u].file <= scratch + 1
    BY <2>1, <2>3 DEF Converted
  <2>7. \A u \in Terminals : at'[u] = "convert" => at[u] = "convert"
    OBVIOUS
  <2> QED
    BY <2>2, <2>4, <2>5, <2>6, <2>7 DEF Converted
<1>5. Importing'
  BY DEF Importing
<1>6. HistoryTrue'
  BY DEF HistoryTrue
<1>7. ImportedIsServed'
  BY DEF ImportedIsServed
<1>8. NothingForeign'
  BY DEF NothingForeign
<1> QED
  BY <1>1, <1>2, <1>3, <1>4, <1>5, <1>6, <1>7, <1>8 DEF IInv

\* The terminal becomes a writer of the scratch file that is there.
LEMMA OpenScratchKeeps ==
  ASSUME IInv, NEW t \in Terminals, OpenScratch(t) PROVE IInv'
<1> USE DeploymentAssumption, RecsRecords DEF IInv, OpenScratch, Go, Types, Stages, Hows, Opened
<1>1. Types'
  <2>1. job[t] \in Job /\ scratch \in 0..MaxRuns
    OBVIOUS
  <2>2. [job[t] EXCEPT !.file = scratch] \in Job
    BY <2>1 DEF Job
  <2>3. job' \in [Terminals -> Job]
    BY <2>2
  <2>4. todo' \in [Terminals -> SUBSET Records]
    BY DEF Chosen
  <2> QED
    BY <2>3, <2>4
<1>2. Locks'
  BY DEF Locks
<1>3. Chosen'
  BY DEF Chosen
<1>4. Converted'
  <2>1. \A u \in Terminals : job[u].file \in Int /\ job'[u].file \in Int
    BY <1>1 DEF Job
  <2>2. job'[t].file = scratch /\ job'[t].input = job[t].input
        /\ \A u \in Terminals : u # t => job'[u] = job[u]
    BY DEF Job
  <2>3. files[scratch].by \subseteq {t} => files[scratch].recs = {}
    BY DEF Converted
  <2>4. ASSUME NEW u \in Terminals PROVE Converting(u)'
    <3>1. CASE u = t
      BY <2>2, <2>3, <3>1 DEF Converting
    <3>2. CASE u # t
      BY <2>2, <3>2 DEF Converting, Converted
    <3> QED
      BY <3>1, <3>2
  <2> QED
    BY <2>1, <2>2, <2>4 DEF Converted
<1>5. Importing'
  BY DEF Importing
<1>6. HistoryTrue'
  BY DEF HistoryTrue
<1>7. ImportedIsServed'
  BY DEF ImportedIsServed
<1>8. NothingForeign'
  BY DEF NothingForeign
<1> QED
  BY <1>1, <1>2, <1>3, <1>4, <1>5, <1>6, <1>7, <1>8 DEF IInv

\* What is written moves from what is to do to the scratch file, if it is still there.
LEMMA ConvertSomeKeeps ==
  ASSUME IInv, NEW t \in Terminals, ConvertSome(t) PROVE IInv'
<1> USE DeploymentAssumption, RecsRecords DEF IInv, ConvertSome, Go, Types, Stages, Hows, Opened
<1> DEFINE n == job[t].file
<1>0. PICK part \in SUBSET todo[t] :
        /\ part # {}
        /\ todo' = [todo EXCEPT ![t] = @ \ part]
        /\ files' = [files EXCEPT ![n] = [by |-> @.by \cup {t}, recs |-> @.recs \cup part]]
  OBVIOUS
<1>00. n \in 0..MaxRuns /\ files[n].by \subseteq Terminals /\ files[n].recs \subseteq Records
       /\ part \subseteq Records
  BY <1>0 DEF Job
<1>1. Types'
  <2> HIDE DEF n
  <2>1. todo' \in [Terminals -> SUBSET Records]
    BY <1>0
  <2>2. files' \in [0..MaxRuns -> [by : SUBSET Terminals, recs : SUBSET Records]]
    <3> DEFINE new == [by |-> files[n].by \cup {t}, recs |-> files[n].recs \cup part]
               File == [by : SUBSET Terminals, recs : SUBSET Records]
    <3>1. new \in File
      BY ONLY <1>00, t \in Terminals
    <3>2. files' = [files EXCEPT ![n] = new]
      BY ONLY <1>0
    <3>3. files \in [0..MaxRuns -> File]
      OBVIOUS
    <3> HIDE DEF new, File
    <3>4. files' \in [0..MaxRuns -> File]
      BY ONLY <3>1, <3>2, <3>3, <1>00
    <3> QED
      BY ONLY <3>4 DEF File
  <2> QED
    BY <2>1, <2>2
<1>2. Locks'
  BY DEF Locks
<1>3. Chosen'
  BY DEF Chosen
<1>4. Converted'
  <2>1. /\ files'[n].by = files[n].by \cup {t} /\ files'[n].recs = files[n].recs \cup part
        /\ \A m \in 0..MaxRuns : m # n => files'[m] = files[m]
    BY <1>0, <1>00
  <2>2. \A u \in Terminals : job[u].file \in 0..MaxRuns
    BY DEF Job
  <2>3. n <= scratch /\ part \subseteq Recs[job[t].input]
    BY <1>0 DEF Converted
  <2>4. ASSUME NEW u \in Terminals PROVE Converting(u)'
    <3>1. CASE u = t
      BY <1>0, <2>1, <3>1 DEF Converting, Converted
    <3>2. CASE u # t
      <4>1. CASE job[u].file = n
        <5>1. ~(files'[n].by \subseteq {u})
          BY <2>1, <3>2
        <5>2. Converting(u) /\ at'[u] = at[u] /\ job'[u] = job[u] /\ todo'[u] = todo[u]
          BY <1>0, <3>2 DEF Converted
        <5> HIDE DEF n, IInv, ConvertSome, Types
        <5> QED
          BY <2>1, <4>1, <5>1, <5>2 DEF Converting
      <4>2. CASE job[u].file # n
        <5>1. Converting(u) /\ at'[u] = at[u] /\ job'[u] = job[u] /\ todo'[u] = todo[u]
          BY <1>0, <3>2 DEF Converted
        <5>2. files'[job[u].file] = files[job[u].file]
          BY <2>1, <2>2, <4>2
        <5> HIDE DEF n, IInv, ConvertSome, Types
        <5> QED
          BY <5>1, <5>2 DEF Converting
      <4> QED
        BY <4>1, <4>2
    <3> QED
      BY <3>1, <3>2
  <2>5. \A m \in 0..MaxRuns : files'[m].by = {} => files'[m].recs = {}
    BY <2>1 DEF Converted
  <2>6. \A m \in 0..MaxRuns : m > scratch => files'[m].by = {}
    BY <2>1, <2>3 DEF Converted
  <2>7. \A u \in Terminals : at[u] = "discarded" => u \notin files'[scratch].by
    BY <2>1, <2>3 DEF Converted
  <2>8. \A u \in Terminals : at[u] = "convert" => todo'[u] \subseteq Recs[job[u].input]
    BY <1>0 DEF Converted
  <2> QED
    BY <2>4, <2>5, <2>6, <2>7, <2>8 DEF Converted
<1>5. Importing'
  BY DEF Importing
<1>6. HistoryTrue'
  BY DEF HistoryTrue
<1>7. ImportedIsServed'
  BY DEF ImportedIsServed
<1>8. NothingForeign'
  BY DEF NothingForeign
<1> QED
  BY <1>1, <1>2, <1>3, <1>4, <1>5, <1>6, <1>7, <1>8 DEF IInv

\* A conversion ends with nothing left to do.
LEMMA ConvertEndsKeeps ==
  ASSUME IInv, NEW t \in Terminals, ConvertEnds(t) PROVE IInv'
<1> USE DeploymentAssumption, RecsRecords DEF IInv, ConvertEnds, Go, Types, Stages, Hows, Opened
<1>1. Types'
  OBVIOUS
<1>2. Locks'
  BY DEF Locks
<1>3. Chosen'
  BY DEF Chosen
<1>4. Converted'
  BY DEF Converted, Converting
<1>5. Importing'
  BY DEF Importing
<1>6. HistoryTrue'
  BY DEF HistoryTrue
<1>7. ImportedIsServed'
  BY DEF ImportedIsServed
<1>8. NothingForeign'
  BY DEF NothingForeign
<1> QED
  BY <1>1, <1>2, <1>3, <1>4, <1>5, <1>6, <1>7, <1>8 DEF IInv

\* etl opens the scratch file that is there; it is whole if no other was made.
LEMMA StartEtlKeeps ==
  ASSUME IInv, NEW t \in Terminals, NEW p \in Paths, StartEtl(t, p) PROVE IInv'
<1> DEFINE b == job[t].input \in Dumps => job[t].file = scratch
<1> USE DeploymentAssumption, RecsRecords
<1>1. Types /\ Locks /\ Chosen /\ Converted /\ Importing /\ HistoryTrue
      /\ ImportedIsServed /\ NothingForeign
  BY DEF IInv
<1>2. /\ job' \in [Terminals -> Job]
      /\ \A u \in Terminals : u # t => job'[u] = job[u]
      /\ job'[t].path = p /\ job'[t].whole = b /\ job'[t].input = job[t].input
      /\ job'[t].file = scratch
  <2>1. job' = [job EXCEPT ![t].path = p, ![t].file = scratch, ![t].whole = b]
    BY DEF StartEtl
  <2>2. job[t] \in Job /\ scratch \in 0..MaxRuns /\ b \in BOOLEAN
    BY <1>1 DEF Types
  <2> HIDE DEF b
  <2>3. job'[t] = [job[t] EXCEPT !.path = p, !.file = scratch, !.whole = b]
    BY <1>1, <2>1 DEF Types
  <2> DEFINE j == job[t]
             k == job'[t]
  <2>4. j \in Job /\ k = [j EXCEPT !.path = p, !.file = scratch, !.whole = b]
    BY <2>2, <2>3
  <2>5. k \in Job /\ k.path = p /\ k.input = j.input /\ k.file = scratch
    <3> HIDE DEF j, k
    <3> QED
      BY <2>2, <2>4 DEF Job
  <2>6. k.whole = b
    <3> HIDE DEF j, k
    <3> QED
      BY <2>2, <2>4 DEF Job
  <2>7. job' \in [Terminals -> Job] /\ \A u \in Terminals : u # t => job'[u] = job[u]
    BY <1>1, <2>1, <2>3, <2>5 DEF Types
  <2> QED
    BY <2>5, <2>6, <2>7, Zenon DEF j, k
<1>3. /\ at[t] = "path" /\ at' = [at EXCEPT ![t] = "sqlite"]
      /\ UNCHANGED <<todo, runs, scratch, files, made, dir, history, tainted, lock, listening>>
  BY DEF StartEtl, Go
<1>4. b /\ job[t].input \in Dumps => job[t].file = scratch
  OBVIOUS
<1> HIDE DEF b
<1>5. Types'
  BY <1>1, <1>2, <1>3 DEF Types, Stages
<1>6. Locks'
  BY <1>1, <1>2, <1>3 DEF Types, Locks, Opened
<1>7. Chosen'
  BY <1>1, <1>2, <1>3 DEF Types, Chosen
<1>8. Converted'
  <2>1. \A u \in Terminals : job[u].file \in Int
    BY <1>1 DEF Types, Job
  <2>2. ASSUME NEW u \in Terminals PROVE Converting(u)'
    <3>1. CASE u = t
      BY <1>1, <1>2, <1>3, <1>4, <3>1 DEF Types, Converting, Converted
    <3>2. CASE u # t
      BY <1>1, <1>2, <1>3, <3>2 DEF Types, Converting, Converted
    <3> QED
      BY <3>1, <3>2
  <2>3. \A u \in Terminals : job'[u].file <= scratch
    BY <1>1, <1>2, <2>1 DEF Types, Converted
  <2>4. \A u \in Terminals : at'[u] \in {"discarded", "convert"} => u # t /\ at'[u] = at[u]
    BY <1>1, <1>3 DEF Types
  <2> QED
    BY <1>1, <1>2, <1>3, <2>2, <2>3, <2>4 DEF Converted
<1>9. Importing'
  BY <1>1, <1>2, <1>3 DEF Types, Importing
<1>10. HistoryTrue'
  BY <1>1, <1>2, <1>3 DEF Types, HistoryTrue
<1>11. ImportedIsServed'
  BY <1>1, <1>2, <1>3 DEF Types, ImportedIsServed
<1>12. NothingForeign'
  BY <1>1, <1>3 DEF NothingForeign
<1> QED
  BY <1>5, <1>6, <1>7, <1>8, <1>9, <1>10, <1>11, <1>12 DEF IInv

\* etl locks the directory, which nobody has open.
LEMMA OpenPebbleKeeps ==
  ASSUME IInv, NEW t \in Terminals, OpenPebble(t) PROVE IInv'
<1> USE DeploymentAssumption, RecsRecords
    DEF IInv, OpenPebble, OpensPebble, Go, Types, Stages, Hows, Opened
<1>1. Types'
  BY DEF Chosen
<1>2. Locks'
  BY DEF Locks, Chosen
<1>3. Chosen'
  BY DEF Chosen
<1>4. Converted'
  BY DEF Converted, Converting
<1>5. Importing'
  BY DEF Importing
<1>6. HistoryTrue'
  BY DEF HistoryTrue
<1>7. ImportedIsServed'
  BY DEF ImportedIsServed
<1>8. NothingForeign'
  BY DEF NothingForeign
<1> QED
  BY <1>1, <1>2, <1>3, <1>4, <1>5, <1>6, <1>7, <1>8 DEF IInv

\* An import starts with all its records to do, or in a tainted directory.
LEMMA QueryRowsKeeps ==
  ASSUME IInv, NEW t \in Terminals, QueryRows(t) PROVE IInv'
<1> DEFINE x == job[t].input
           p == job[t].path
           file == files[job[t].file]
           b == job[t].whole /\ (x \in Dumps => file.by \subseteq {t})
<1> USE DeploymentAssumption, RecsRecords
<1>1. Types /\ Locks /\ Chosen /\ Converted /\ Importing /\ HistoryTrue
      /\ ImportedIsServed /\ NothingForeign
  BY DEF IInv
<1>2. /\ at[t] = "pebble" /\ p \in made /\ p \in Paths /\ lock[p] = t /\ x \in Inputs
      /\ file.recs \subseteq Records /\ job[t] \in Job
  BY <1>1 DEF QueryRows, Types, Locks, Chosen, Opened, Job
<1>3. b \in BOOLEAN
  BY <1>2 DEF Job
<1>4. /\ job' \in [Terminals -> Job]
      /\ \A u \in Terminals : u # t => job'[u] = job[u]
      /\ job'[t].path = p /\ job'[t].whole = b /\ job'[t].input = x
      /\ job'[t].file = job[t].file
  <2>1. job' = [job EXCEPT ![t].whole = b]
    BY DEF QueryRows
  <2> HIDE DEF b
  <2>2. job'[t] = [job[t] EXCEPT !.whole = b]
    BY <1>1, <2>1 DEF Types
  <2> DEFINE j == job[t]
             k == job'[t]
  <2>3. j \in Job /\ k = [j EXCEPT !.whole = b]
    BY <1>2, <2>2
  <2>4. k \in Job /\ k.path = j.path /\ k.input = j.input /\ k.file = j.file
    <3> HIDE DEF j, k
    <3> QED
      BY <1>3, <2>3 DEF Job
  <2>5. k.whole = b
    <3> HIDE DEF j, k
    <3> QED
      BY <1>3, <2>3 DEF Job
  <2>6. job' \in [Terminals -> Job] /\ \A u \in Terminals : u # t => job'[u] = job[u]
    BY <1>1, <2>1, <2>2, <2>4 DEF Types
  <2> QED
    BY <2>4, <2>5, <2>6, Zenon DEF j, k
<1>5. /\ at' = [at EXCEPT ![t] = "etl"]
      /\ todo' = [todo EXCEPT ![t] = IF x \in Dumps THEN file.recs ELSE Recs[x]]
      /\ UNCHANGED <<runs, scratch, files, made, dir, lock, listening>>
  BY DEF QueryRows, Go
<1>6. b => Types' /\ Importing' /\ HistoryTrue' /\ NothingForeign'
  <2> SUFFICES ASSUME b PROVE Types' /\ Importing' /\ HistoryTrue' /\ NothingForeign'
    OBVIOUS
  <2>1. job'[t].whole
    BY <1>4
  <2>2. history' = [history EXCEPT ![p][x] = "running"] /\ tainted' = tainted
    BY DEF QueryRows, SetHistory
  <2>3. /\ Recs[x] \subseteq todo'[t] /\ todo'[t] \subseteq Recs[x]
    <3>1. x \in Dumps => Recs[x] \subseteq file.recs /\ file.recs \subseteq Recs[x]
      BY <1>1, <1>2 DEF Converted, Converting, Locks
    <3>2. todo'[t] = IF x \in Dumps THEN file.recs ELSE Recs[x]
      BY <1>1, <1>5 DEF Types
    <3> QED
      BY <3>1, <3>2
  <2> HIDE DEF x, p, file, b
  <2>4. Types'
    BY <1>1, <1>2, <1>4, <1>5, <2>2, <2>3 DEF Types, Stages, Hows
  <2>6. Importing'
    BY <1>1, <1>2, <1>4, <1>5, <2>1, <2>2, <2>3 DEF Types, Importing, Locks, Opened
  <2>7. HistoryTrue'
    <3> SUFFICES ASSUME NEW q \in Paths, NEW y \in Inputs
                 PROVE  /\ history'[q][y] = "running" =>
                             /\ lock'[q] # None /\ at'[lock'[q]] = "etl"
                             /\ job'[lock'[q]].input = y /\ job'[lock'[q]].whole
                        /\ history'[q][y] = "complete" => Recs[y] \subseteq dir'[q]
      BY DEF HistoryTrue
    <3>1. CASE q = p /\ y = x
      BY <1>1, <1>2, <1>4, <1>5, <2>1, <2>2, <3>1 DEF Types
    <3>2. CASE q = p /\ y # x
      BY <1>1, <1>2, <1>5, <2>2, <3>2 DEF Types, HistoryTrue
    <3>3. CASE q # p
      <4>1. history'[q] = history[q] /\ lock'[q] = lock[q] /\ dir'[q] = dir[q]
        BY <1>1, <1>5, <2>2, <3>3 DEF Types
      <4>2. history[q][y] = "running" => lock[q] \in Terminals /\ lock[q] # t
        BY <1>1, <1>2 DEF Types, HistoryTrue
      <4> QED
        BY <1>1, <1>4, <1>5, <4>1, <4>2 DEF Types, HistoryTrue
    <3> QED
      BY <3>1, <3>2, <3>3
  <2>8. NothingForeign'
    BY <1>1, <1>2, <1>5, <2>2 DEF Types, NothingForeign
  <2> QED
    BY <2>4, <2>6, <2>7, <2>8
<1>7. ~b => Types' /\ Importing' /\ HistoryTrue' /\ NothingForeign'
  <2> SUFFICES ASSUME ~b PROVE Types' /\ Importing' /\ HistoryTrue' /\ NothingForeign'
    OBVIOUS
  <2>1. ~job'[t].whole
    BY <1>4
  <2>2. history' = history /\ tainted' = tainted \cup {p}
    BY DEF QueryRows
  <2> HIDE DEF x, p, file, b
  <2>4. Types'
    BY <1>1, <1>2, <1>4, <1>5, <2>2 DEF Types, Stages
  <2>6. Importing'
    BY <1>1, <1>2, <1>4, <1>5, <2>1, <2>2 DEF Types, Importing, Locks, Opened
  <2>7. HistoryTrue'
    BY <1>1, <1>2, <1>4, <1>5, <2>1, <2>2 DEF Types, HistoryTrue
  <2>8. NothingForeign'
    BY <1>1, <1>2, <1>5, <2>2 DEF Types, NothingForeign
  <2> QED
    BY <2>4, <2>6, <2>7, <2>8
<1>8. p = job[t].path /\ x = job[t].input
  OBVIOUS
<1> HIDE DEF x, p, file, b
<1>9. Locks'
  BY <1>1, <1>2, <1>4, <1>5, <1>8 DEF Types, Locks, Opened
<1>10. Chosen'
  BY <1>1, <1>2, <1>4, <1>5, <1>8 DEF Types, Chosen
<1>11. Converted'
  <2>1. job'[t].file <= scratch
    BY <1>1, <1>4 DEF Converted
  <2> QED
    BY <1>1, <1>2, <1>4, <1>5, <2>1, ConvertedKept DEF Types
<1>12. ImportedIsServed'
  BY <1>1, <1>2, <1>4, <1>5, <1>8 DEF Types, ImportedIsServed
<1> QED
  BY <1>6, <1>7, <1>9, <1>10, <1>11, <1>12 DEF IInv

\* What is installed moves from what is to do to the directory.
LEMMA EtlInstallsKeeps ==
  ASSUME IInv, NEW t \in Terminals, EtlInstalls(t) PROVE IInv'
<1> USE DeploymentAssumption, RecsRecords DEF IInv, EtlInstalls, Go, Types, Stages, Hows, Opened
<1>1. Types'
  BY DEF Locks
<1>2. Locks'
  BY DEF Locks
<1>3. Chosen'
  BY DEF Chosen
<1>4. Converted'
  BY ConvertedKept, FileOrder DEF Job
<1>5. Importing'
  BY DEF Importing, Locks
<1>6. HistoryTrue'
  BY DEF HistoryTrue
<1>7. ImportedIsServed'
  <2>1. \A u \in Terminals : at[u] \in {"address", "bind", "serving"} => job[u].path \in Paths
    BY DEF Locks
  <2>2. \A q \in Paths : dir[q] \subseteq dir'[q]
    OBVIOUS
  <2>3. job' = job /\ at' = at
    OBVIOUS
  <2> QED
    BY <2>1, <2>2, <2>3 DEF ImportedIsServed
<1>8. NothingForeign'
  <2> DEFINE p == job[t].path
             x == job[t].input
  <2>1. PICK part \in SUBSET todo[t] : dir' = [dir EXCEPT ![p] = @ \cup part]
    OBVIOUS
  <2>2. p \in Paths /\ x \in Inputs
    BY DEF Locks, Chosen
  <2>3. p \notin tainted => part \subseteq Recs[x] /\ history[p][x] = "running"
    BY <2>1 DEF Importing
  <2>4. history' = history /\ tainted' = tainted /\ dir \in [Paths -> SUBSET Records]
    OBVIOUS
  <2> HIDE DEF EtlInstalls, Types, p, x
  <2> QED
    BY <2>1, <2>2, <2>3, <2>4 DEF NothingForeign
<1> QED
  BY <1>1, <1>2, <1>3, <1>4, <1>5, <1>6, <1>7, <1>8 DEF IInv

\* An import that ends complete has left nothing out; the directory is freed.
LEMMA EtlEndsKeeps ==
  ASSUME IInv, NEW t \in Terminals, EtlEnds(t) PROVE IInv'
<1> DEFINE x == job[t].input
           p == job[t].path
           b == job[t].whole /\ todo[t] = {}
           how == IF todo[t] = {} THEN "complete" ELSE "short"
<1> USE DeploymentAssumption, RecsRecords
<1>1. Types /\ Locks /\ Chosen /\ Converted /\ Importing /\ HistoryTrue
      /\ ImportedIsServed /\ NothingForeign
  BY DEF IInv
<1>2. /\ at[t] = "etl" /\ p \in made /\ p \in Paths /\ lock[p] = t /\ x \in Inputs
      /\ job[t] \in Job /\ job[t].whole \in BOOLEAN /\ b \in BOOLEAN
      /\ how \in {"complete", "short"}
  BY <1>1 DEF EtlEnds, Types, Locks, Chosen, Opened, Job
<1>3. /\ job' \in [Terminals -> Job]
      /\ \A u \in Terminals : u # t => job'[u] = job[u]
      /\ job'[t].path = p /\ job'[t].whole = b /\ job'[t].input = x
      /\ job'[t].file = job[t].file
  <2>1. job'[t] = [job[t] EXCEPT !.whole = b]
        /\ \A u \in Terminals : u # t => job'[u] = job[u]
    BY <1>1 DEF EtlEnds, Types
  <2> DEFINE j == job[t]
             k == job'[t]
  <2>2. j \in Job /\ k = [j EXCEPT !.whole = b]
    BY <1>2, <2>1
  <2> HIDE DEF b
  <2>3. k \in Job /\ k.path = j.path /\ k.input = j.input /\ k.file = j.file
    <3> HIDE DEF j, k
    <3> QED
      BY <1>2, <2>2 DEF Job
  <2>4. k.whole = b
    <3> HIDE DEF j, k
    <3> QED
      BY <1>2, <2>2 DEF Job
  <2>5. job' = [job EXCEPT ![t] = k]
    BY <1>1, <2>1 DEF EtlEnds, Types
  <2>6. job' \in [Terminals -> Job]
    <3> HIDE DEF k
    <3> QED
      BY <1>1, <2>3, <2>5 DEF Types
  <2> QED
    BY <2>1, <2>3, <2>4, <2>6, Zenon DEF j, k
<1>4. /\ at' = [at EXCEPT ![t] = "address"] /\ todo' = [todo EXCEPT ![t] = {}]
      /\ lock' = [lock EXCEPT ![p] = None]
      /\ UNCHANGED <<runs, scratch, files, made, dir, tainted, listening>>
  BY DEF EtlEnds, Go
<1>5. \/ job[t].whole /\ history' = [history EXCEPT ![p][x] = how]
      \/ ~job[t].whole /\ history' = history
  BY DEF EtlEnds, SetHistory
<1>6. b => Recs[x] \subseteq dir[p]
  BY <1>1, <1>2 DEF Importing
<1>7. how = "complete" /\ job[t].whole => b
  OBVIOUS
<1>8. p = job[t].path /\ x = job[t].input
  OBVIOUS
<1> HIDE DEF x, p, b, how
<1>9. /\ history' \in [Paths -> [Inputs -> Hows]]
      /\ \A q \in Paths, y \in Inputs : (q # p \/ y # x) => history'[q][y] = history[q][y]
      /\ (job[t].whole => history'[p][x] = how)
  <2>1. CASE job[t].whole /\ history' = [history EXCEPT ![p][x] = how]
    <3>1. how \in Hows /\ history \in [Paths -> [Inputs -> Hows]]
      BY <1>1, <1>2 DEF Types, Hows
    <3> QED
      BY <1>2, <2>1, <3>1
  <2>2. CASE ~job[t].whole /\ history' = history
    BY <1>1, <2>2 DEF Types
  <2> QED
    BY <1>5, <2>1, <2>2
<1>10. Types'
  BY <1>1, <1>2, <1>3, <1>4, <1>9 DEF Types, Stages
<1>11. Locks'
  <2>1. \A u \in Terminals : at'[u] \in Opened => u # t /\ at[u] \in Opened /\ job[u].path # p
    BY <1>1, <1>2, <1>4 DEF Types, Locks, Opened
  <2>2. \A u \in Terminals : at'[u] \in Opened => lock'[job'[u].path] = u
    BY <1>1, <1>3, <1>4, <2>1 DEF Types, Locks
  <2>3. \A q \in Paths : lock'[q] # None => q # p /\ lock'[q] = lock[q] /\ lock[q] # t
    BY <1>1, <1>2, <1>4, <1>8 DEF Types, Locks
  <2>4. \A q \in Paths : lock'[q] # None => at'[lock'[q]] \in Opened /\ job'[lock'[q]].path = q
    BY <1>1, <1>3, <1>4, <2>3 DEF Types, Locks
  <2>5. \A u \in Terminals : at'[u] \in Opened \cup {"address"} => job'[u].path \in made'
    BY <1>1, <1>2, <1>3, <1>4 DEF Types, Locks
  <2>6. \A a \in Addrs : listening'[a] # None => at'[listening'[a]] = "serving"
    BY <1>1, <1>2, <1>4 DEF Types, Locks
  <2>7. \A u \in Terminals : todo'[u] # {} => at'[u] \in {"convert", "etl"}
    BY <1>1, <1>4 DEF Types, Locks
  <2> QED
    BY <2>2, <2>4, <2>5, <2>6, <2>7 DEF Locks
<1>12. Chosen'
  BY <1>1, <1>2, <1>3, <1>4 DEF Types, Chosen
<1>13. Converted'
  <2>1. job'[t].file <= scratch
    BY <1>1, <1>3, FileOrder
  <2> QED
    BY <1>1, <1>3, <1>4, <2>1, ConvertedKept DEF Types
<1>14. Importing'
  <2>1. \A u \in Terminals : at'[u] = "etl" =>
          u # t /\ at[u] = "etl" /\ job[u].path \in Paths /\ job[u].path # p
          /\ job[u].input \in Inputs
    BY <1>1, <1>2, <1>4 DEF Types, Locks, Chosen, Opened
  <2> QED
    BY <1>1, <1>3, <1>4, <1>9, <2>1 DEF Types, Importing
<1>15. HistoryTrue'
  <2> SUFFICES ASSUME NEW q \in Paths, NEW y \in Inputs
               PROVE  /\ history'[q][y] = "running" =>
                           /\ lock'[q] # None /\ at'[lock'[q]] = "etl"
                           /\ job'[lock'[q]].input = y /\ job'[lock'[q]].whole
                      /\ history'[q][y] = "complete" => Recs[y] \subseteq dir'[q]
    BY DEF HistoryTrue
  <2>1. CASE q # p
    <3>1. history'[q][y] = history[q][y] /\ lock'[q] = lock[q] /\ dir' = dir
      BY <1>1, <1>2, <1>4, <1>9, <2>1 DEF Types
    <3>2. history[q][y] = "running" => lock[q] \in Terminals /\ lock[q] # t
      BY <1>1, <1>2, <1>8, <2>1 DEF Types, Locks, HistoryTrue
    <3> QED
      BY <1>1, <1>3, <1>4, <3>1, <3>2 DEF Types, HistoryTrue
  <2>2. CASE q = p /\ y # x
    <3>1. history'[q][y] = history[q][y] /\ dir' = dir
      BY <1>4, <1>9, <2>2
    <3>2. history[q][y] # "running"
      BY <1>1, <1>2, <1>8, <2>2 DEF HistoryTrue
    <3> QED
      BY <1>1, <3>1, <3>2 DEF HistoryTrue
  <2>3. CASE q = p /\ y = x /\ job[t].whole
    <3>0. history'[p][x] = how
      BY <1>9, <2>3
    <3>1. history'[q][y] = how /\ dir' = dir
      BY <1>4, <2>3, <3>0
    <3>2. how # "running" /\ (how = "complete" => Recs[x] \subseteq dir[p])
      BY <1>2, <1>6, <1>7, <2>3
    <3> QED
      BY <2>3, <3>1, <3>2
  <2>4. CASE q = p /\ y = x /\ ~job[t].whole
    <3>1. history' = history /\ dir' = dir
      BY <1>4, <1>5, <2>4
    <3>2. history[q][y] # "running"
      BY <1>1, <1>2, <2>4 DEF HistoryTrue
    <3> QED
      BY <1>1, <3>1, <3>2 DEF HistoryTrue
  <2> QED
    BY <2>1, <2>2, <2>3, <2>4
<1>16. ImportedIsServed'
  BY <1>1, <1>3, <1>4, <1>6 DEF Types, ImportedIsServed
<1>17. NothingForeign'
  <2>1. \A q \in Paths, y \in Inputs : history[q][y] # "never" => history'[q][y] # "never"
    BY <1>2, <1>5, <1>9
  <2> QED
    BY <1>1, <1>4, <2>1 DEF NothingForeign
<1> QED
  BY <1>10, <1>11, <1>12, <1>13, <1>14, <1>15, <1>16, <1>17 DEF IInv

\* A server opens a directory nobody has open.
LEMMA StartServerKeeps ==
  ASSUME IInv, NEW t \in Terminals, StartServer(t) PROVE IInv'
<1> USE DeploymentAssumption, RecsRecords DEF IInv, StartServer, Go, Types, Stages, Hows, Opened
<1>0. PICK p \in made :
        /\ \/ at[t] = "address" /\ p = job[t].path
           \/ at[t] = "menu" /\ job[t].hasDb /\ p = DefaultPath
        /\ lock[p] = None /\ lock' = [lock EXCEPT ![p] = t]
        /\ job' = [job EXCEPT ![t].path = p]
  OBVIOUS
<1>00. /\ job' \in [Terminals -> Job] /\ \A u \in Terminals : u # t => job'[u] = job[u]
       /\ job'[t].path = p /\ job'[t].file = job[t].file /\ job'[t].input = job[t].input
       /\ job'[t].whole = job[t].whole
  <2> DEFINE j == job[t]
             k == job'[t]
  <2>1. p \in Paths /\ j \in Job /\ k = [j EXCEPT !.path = p]
    BY <1>0
  <2>2. k \in Job /\ k.path = p /\ k.file = j.file /\ k.input = j.input /\ k.whole = j.whole
    <3> HIDE DEF j, k
    <3> QED
      BY <2>1 DEF Job
  <2>3. \A u \in Terminals : u # t => job'[u] = job[u]
    BY <1>0
  <2> HIDE DEF StartServer
  <2>4. job' \in [Terminals -> Job]
    BY <1>0, <2>1, <2>2
  <2> QED
    BY <2>2, <2>3, <2>4
<1>1. Types'
  BY <1>0, <1>00
<1>2. Locks'
  BY DEF Locks
<1>3. Chosen'
  BY DEF Chosen
<1>4. Converted'
  <2>1. job'[t].file <= scratch
    BY <1>00, FileOrder
  <2>2. at'[t] = "bind"
    OBVIOUS
  <2>3. \A u \in Terminals : u # t => at'[u] = at[u] /\ todo'[u] = todo[u]
    OBVIOUS
  <2> QED
    BY <1>00, <2>1, <2>2, <2>3, ConvertedKept
<1>5. Importing'
  BY DEF Importing
<1>6. HistoryTrue'
  BY DEF HistoryTrue
<1>7. ImportedIsServed'
  <2>1. at[t] = "menu" => job'[t].input = None
    BY <1>00 DEF Chosen
  <2>2. at[t] # "menu" => at[t] = "address" /\ job'[t].path = job[t].path
    BY <1>0, <1>00
  <2>3. dir' = dir /\ \A u \in Terminals : u # t => at'[u] = at[u]
    OBVIOUS
  <2> QED
    BY <1>00, <2>1, <2>2, <2>3 DEF ImportedIsServed
<1>8. NothingForeign'
  BY DEF NothingForeign
<1> QED
  BY <1>1, <1>2, <1>3, <1>4, <1>5, <1>6, <1>7, <1>8 DEF IInv

\* A server that listens had its directory open before.
LEMMA ListenKeeps ==
  ASSUME IInv, NEW t \in Terminals, NEW a \in Addrs, Listen(t, a) PROVE IInv'
<1> USE DeploymentAssumption, RecsRecords DEF IInv, Listen, Go, Types, Stages, Hows, Opened
<1>1. Types'
  OBVIOUS
<1>2. Locks'
  BY DEF Locks
<1>3. Chosen'
  BY DEF Chosen
<1>4. Converted'
  BY ConvertedKept, FileOrder DEF Job
<1>5. Importing'
  BY DEF Importing
<1>6. HistoryTrue'
  BY DEF HistoryTrue
<1>7. ImportedIsServed'
  BY DEF ImportedIsServed
<1>8. NothingForeign'
  BY DEF NothingForeign
<1> QED
  BY <1>1, <1>2, <1>3, <1>4, <1>5, <1>6, <1>7, <1>8 DEF IInv

\* The end of a run frees its directory, and turns a running import into an aborted one.
LEMMA LeaveKeeps ==
  ASSUME IInv, NEW t \in Terminals, Leave(t) PROVE IInv'
<1> USE DeploymentAssumption, RecsRecords DEF IInv, Leave, Go, NoJob, SetHistory, Types, Stages, Hows, Opened
<1>0. NoJob \in Job
  BY DEF Job
<1>1. Types'
  <2> DEFINE p == job[t].path
             x == job[t].input
  <2>1. \/ history' = history
        \/ p \in Paths /\ x \in Inputs /\ history' = [history EXCEPT ![p][x] = "aborted"]
    BY DEF Locks, Chosen
  <2>2. history' \in [Paths -> [Inputs -> Hows]]
    <3>1. history \in [Paths -> [Inputs -> Hows]]
      OBVIOUS
    <3> HIDE DEF Leave, IInv, Types, p, x
    <3> QED
      BY <2>1, <3>1
  <2> QED
    BY <1>0, <2>2
<1>2. Locks'
  BY DEF Locks
<1>3. Chosen'
  BY DEF Chosen
<1>4. Converted'
  BY ConvertedKept, FileOrder DEF Job
<1>5. Importing'
  <2> SUFFICES ASSUME NEW u \in Terminals, at'[u] = "etl"
               PROVE  IF job[u].whole
                        THEN /\ Recs[job[u].input] \subseteq todo'[u] \cup dir[job[u].path]
                             /\ todo'[u] \subseteq Recs[job[u].input]
                             /\ history'[job[u].path][job[u].input] = "running"
                        ELSE job[u].path \in tainted
    BY DEF Importing
  <2>1. u # t /\ at[u] = "etl" /\ todo'[u] = todo[u]
    OBVIOUS
  <2>2. lock[job[u].path] = u
    BY <2>1 DEF Locks
  <2>3. history'[job[u].path] = history[job[u].path]
    <3> DEFINE p == job[t].path
               x == job[t].input
    <3>1. \/ history' = history
          \/ lock[p] = t /\ history' = [history EXCEPT ![p][x] = "aborted"]
      BY DEF Locks
    <3>2. history \in [Paths -> [Inputs -> Hows]] /\ job[u].path \in Paths
      BY <2>1 DEF Locks
    <3> HIDE DEF Leave, IInv, Types, p, x
    <3> QED
      BY <2>1, <2>2, <3>1, <3>2
  <2> QED
    BY <2>1, <2>3 DEF Importing
<1>6. HistoryTrue'
  <2>1. \A q \in Paths, y \in Inputs : history'[q][y] \in {"running", "complete"} =>
          history'[q][y] = history[q][y]
    <3> DEFINE p == job[t].path
               x == job[t].input
    <3>1. \/ history' = history
          \/ p \in Paths /\ x \in Inputs /\ history' = [history EXCEPT ![p][x] = "aborted"]
      BY DEF Locks, Chosen
    <3>2. history \in [Paths -> [Inputs -> Hows]]
      OBVIOUS
    <3> HIDE DEF Leave, IInv, Types, p, x
    <3> QED
      BY <3>1, <3>2
  <2>2. \A q \in Paths, y \in Inputs : history'[q][y] = "running" => lock[q] # t
    <3> DEFINE p == job[t].path
               x == job[t].input
    <3> SUFFICES ASSUME NEW q \in Paths, NEW y \in Inputs, lock[q] = t,
                        history'[q][y] = "running"
                 PROVE  FALSE
      OBVIOUS
    <3>1. history[q][y] = "running"
      BY <2>1
    <3>2. at[t] = "etl" /\ y = x /\ job[t].whole
      BY <3>1 DEF HistoryTrue
    <3>3. q = p
      BY DEF Locks
    <3>4. history' = [history EXCEPT ![p][x] = "aborted"]
      BY <3>2
    <3>5. history \in [Paths -> [Inputs -> Hows]]
      OBVIOUS
    <3> HIDE DEF Leave, IInv, Types, p, x
    <3> QED
      BY <3>2, <3>3, <3>4, <3>5
  <2> QED
    BY <2>1, <2>2 DEF HistoryTrue
<1>7. ImportedIsServed'
  BY DEF ImportedIsServed
<1>8. NothingForeign'
  <2>1. \A q \in Paths, y \in Inputs :
          history[q][y] # "never" => history'[q][y] # "never"
    <3> DEFINE p == job[t].path
               x == job[t].input
    <3>1. \/ history' = history
          \/ p \in Paths /\ x \in Inputs /\ history' = [history EXCEPT ![p][x] = "aborted"]
      BY DEF Locks, Chosen
    <3>2. history \in [Paths -> [Inputs -> Hows]]
      OBVIOUS
    <3> HIDE DEF Leave, IInv, Types, p, x
    <3> QED
      BY <3>1, <3>2
  <2> QED
    BY <2>1 DEF NothingForeign
<1> QED
  BY <1>1, <1>2, <1>3, <1>4, <1>5, <1>6, <1>7, <1>8 DEF IInv

\* Every step keeps the invariant.
LEMMA NextKeeps == IInv /\ [Next]_vars => IInv'
<1> SUFFICES ASSUME IInv, [Next]_vars PROVE IInv'
    OBVIOUS
<1>1. CASE UNCHANGED vars
  <2> USE <1>1 DEF vars, IInv
  <2>1. Types' /\ Locks' /\ Chosen'
    BY DEF Types, Locks, Chosen
  <2>2. Converted'
    <3>1. \A t \in Terminals : Converting(t)'
      BY DEF Converted, Converting
    <3> QED
      BY <3>1 DEF Converted
  <2>3. Importing' /\ HistoryTrue' /\ ImportedIsServed' /\ NothingForeign'
    BY DEF Importing, HistoryTrue, ImportedIsServed, NothingForeign
  <2> QED
    BY <2>1, <2>2, <2>3
<1>2. ASSUME NEW t \in Terminals, Import(t) PROVE IInv'
  BY <1>2, ChooseImportKeeps, DiscardKeeps, OpenScratchKeeps, ConvertSomeKeeps,
     ConvertEndsKeeps, StartEtlKeeps, OpenPebbleKeeps, QueryRowsKeeps, EtlInstallsKeeps, EtlEndsKeeps DEF Import
<1> QED
  BY <1>1, <1>2, LaunchKeeps, StartServerKeeps, ListenKeeps, LeaveKeeps DEF Next

\* IInv holds of every behaviour (start.sh, from the menu to the server).
THEOREM Invariance == Spec => []IInv
<1> QED
  BY InitIInv, NextKeeps, PTL DEF Spec

\* Who has a directory open holds its lock, and only programs that run do.
THEOREM TypeCorrect == Spec => []TypeOK
<1>1. IInv => TypeOK
  BY DEF IInv, Types, Locks, TypeOK
<1> QED
  BY <1>1, Invariance, PTL

\* For any terminals, files and directories, and any number of runs: what was
\* chosen is served, unless the scratch file was taken over or etl left out rows
\* of its query (start.sh:89-163).
THEOREM ImportServed == Spec => []ImportedIsServed
<1>1. IInv => ImportedIsServed
  BY DEF IInv
<1> QED
  BY <1>1, Invariance, PTL

\* No server shows an import in progress; what was once imported whole is served
\* whole, what ended short is not said to be (start.sh:73, 152, 178).
THEOREM NoneInProgress == Spec => []ServedImportsEnded
<1>1. IInv => ServedImportsEnded
  BY DEF IInv, Types, Locks, HistoryTrue, ServedImportsEnded, Opened
<1> QED
  BY <1>1, Invariance, PTL

\* A directory holds what was imported into it and nothing else (start.sh:128).
THEOREM NoLeak == Spec => []NothingForeign
<1>1. IInv => NothingForeign
  BY DEF IInv
<1> QED
  BY <1>1, Invariance, PTL

\* The database of a running server is constant (internal/store/store.go:31):
\* only EtlInstalls writes, and its terminal holds the lock of what it writes.
THEOREM ServedConstant == Spec => ServedUnchanging
<1>1. ASSUME IInv, [Next]_vars
      PROVE  [\A t \in Terminals : at[t] = "serving" => dir'[job[t].path] = dir[job[t].path]]_vars
  <2>1. ASSUME NEW u \in Terminals, EtlInstalls(u), NEW t \in Terminals, at[t] = "serving"
        PROVE  dir'[job[t].path] = dir[job[t].path]
    <3>1. lock[job[t].path] = t /\ lock[job[u].path] = u /\ u # t
      BY <1>1, <2>1 DEF IInv, Locks, Opened, EtlInstalls
    <3>2. job[t].path # job[u].path
      BY <3>1
    <3> QED
      BY <1>1, <2>1, <3>2 DEF IInv, Types, EtlInstalls
  <2>2. ASSUME NEW u \in Terminals, Import(u), ~EtlInstalls(u) PROVE dir' = dir
    BY <2>2 DEF Import, ChooseImport, Discard, OpenScratch, ConvertSome, ConvertEnds,
                StartEtl, OpenPebble, OpensPebble, QueryRows, EtlEnds
  <2>3. CASE \E u \in Terminals : EtlInstalls(u)
    BY <2>1, <2>3
  <2>4. CASE ~\E u \in Terminals : EtlInstalls(u)
    <3>1. dir' = dir
      BY <1>1, <2>2, <2>4 DEF Next, vars, Launch, StartServer, Listen, Leave
    <3> QED
      BY <3>1
  <2> QED
    BY <2>3, <2>4
<1> QED
  BY <1>1, Invariance, PTL DEF Spec, ServedUnchanging

==============================================================================
