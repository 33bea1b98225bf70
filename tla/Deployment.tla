----------------------------- MODULE Deployment -----------------------------
(***************************************************************************)
(* start.sh in several terminals at once: it converts a dump into the one  *)
(* scratch file data/nsrl_import.db, imports into a Pebble directory and   *)
(* becomes a server.  Between the steps it waits for the user, and any     *)
(* step may be the last.                                                   *)
(*                                                                         *)
(* The importer is what EtlPipeline says of it: records appear one set     *)
(* after the other, and it can say "Done." and exit 0 with rows it did not *)
(* read (a stream error is only logged) or did not flush.  Its steps are   *)
(* minutes apart: it opens the SQLite file, then Pebble, and only then     *)
(* queries the rows.  A query (SQLite, external) sees the file as it was   *)
(* when it began.  Pebble (external) lets one process at a time open a     *)
(* directory, a read-only one included.                                    *)
(***************************************************************************)
EXTENDS Integers, FiniteSets

CONSTANTS
  Terminals,
  Paths, DefaultPath,   \* data/nsrl.pebble and others
  Addrs,
  Inputs, Dumps,        \* the NSRL files at hand, those that are SQL text
  Recs,                 \* the records of each
  MaxRuns,              \* bound: how often start.sh is run; a run makes at
                        \* most one scratch file
  None

ASSUME DeploymentAssumption ==
  /\ DefaultPath \in Paths /\ Dumps \subseteq Inputs
  /\ MaxRuns \in Nat
  /\ None \notin Terminals /\ None \notin Inputs /\ None \notin Paths

VARIABLES
  at,        \* where the script of a terminal is
  job,       \* its variables: HAS_DB, INPUT_FILE, DB_FILE, PEBBLE_PATH; and
             \* whether its import is whole: of one writer, no row left out
  todo,      \* the records its sqlite3 or etl has still to write
  runs,
  scratch,   \* which file data/nsrl_import.db is
  files,     \* who has written into each file that was one, and what
  made,      \* the directories that exist
  dir,       \* the records in each
  history,   \* how the last import of a file into a directory went
  tainted,   \* the directories that got what another terminal may have converted
  lock, listening

vars == <<at, job, todo, runs, scratch, files, made, dir, history, tainted, lock, listening>>

Records == UNION {Recs[x] : x \in Inputs}
NoJob == [hasDb |-> FALSE, input |-> None, file |-> 0, whole |-> FALSE, path |-> None]
NewFile == [by |-> {}, recs |-> {}]

\* "sqlite", "pebble" and "etl": etl has opened SQLite; Pebble; queried the rows.
Stages == {"shell", "menu", "schema", "discarded", "convert", "path", "sqlite",
           "pebble", "etl", "address", "bind", "serving"}

Go(t, stage) == at' = [at EXCEPT ![t] = stage]

Init ==
  /\ at = [t \in Terminals |-> "shell"]
  /\ job = [t \in Terminals |-> NoJob]
  /\ todo = [t \in Terminals |-> {}]
  /\ runs = 0
  /\ scratch = 0 /\ files = [n \in 0..MaxRuns |-> NewFile]
  /\ made = {} /\ dir = [p \in Paths |-> {}]
  /\ history = [p \in Paths |-> [x \in Inputs |-> "never"]]
  /\ tainted = {}
  /\ lock = [p \in Paths |-> None]
  /\ listening = [a \in Addrs |-> None]
-----------------------------------------------------------------------------
\* The menu; whether there is a database is read once, before it is shown.
Launch(t) ==
  /\ at[t] = "shell" /\ runs < MaxRuns
  /\ runs' = runs + 1
  /\ job' = [job EXCEPT ![t].hasDb = DefaultPath \in made]
  /\ Go(t, "menu")
  /\ UNCHANGED <<todo, scratch, files, made, dir, history, tainted, lock, listening>>

\* Option 1: a binary database is imported as it is, a dump is converted first.
ChooseImport(t, x) ==
  /\ at[t] = "menu"
  /\ job' = [job EXCEPT ![t].input = x]
  /\ Go(t, IF x \in Dumps THEN "schema" ELSE "path")
  /\ UNCHANGED <<todo, runs, scratch, files, made, dir, history, tainted, lock, listening>>

(* Mutant of Discard: the scratch file of an earlier run is kept.          *)
DiscardNothing(t) ==
  /\ at[t] = "schema"
  /\ Go(t, "discarded")
  /\ UNCHANGED <<job, todo, runs, scratch, files, made, dir, history, tainted, lock,
                 listening>>

\* rm -f, then sqlite3 makes a new file with the schema; the bound cuts nothing.
Discard(t) ==
  /\ at[t] = "schema" /\ scratch < MaxRuns
  /\ scratch' = scratch + 1
  /\ Go(t, "discarded")
  /\ UNCHANGED <<job, todo, runs, files, made, dir, history, tainted, lock, listening>>

\* The second sqlite3 opens what is at the path by then.
OpenScratch(t) ==
  /\ at[t] = "discarded"
  /\ job' = [job EXCEPT ![t].file = scratch]
  /\ todo' = [todo EXCEPT ![t] = Recs[job[t].input]]
  /\ Go(t, "convert")
  /\ UNCHANGED <<runs, scratch, files, made, dir, history, tainted, lock, listening>>

\* A file another terminal has removed is written to all the same.
ConvertSome(t) ==
  /\ at[t] = "convert"
  /\ \E part \in (SUBSET todo[t]) \ {{}} :
       /\ todo' = [todo EXCEPT ![t] = @ \ part]
       /\ files' = [files EXCEPT ![job[t].file] =
                      [by |-> @.by \cup {t}, recs |-> @.recs \cup part]]
  /\ UNCHANGED <<at, job, runs, scratch, made, dir, history, tainted, lock, listening>>

(* Mutant of ConvertEnds: the script goes on although sqlite3 has failed.  *)
ConvertEndsAnyhow(t) ==
  /\ at[t] = "convert"
  /\ todo' = [todo EXCEPT ![t] = {}]
  /\ Go(t, "path")
  /\ UNCHANGED <<job, runs, scratch, files, made, dir, history, tainted, lock, listening>>

ConvertEnds(t) ==
  /\ at[t] = "convert" /\ todo[t] = {}
  /\ Go(t, "path")
  /\ UNCHANGED <<job, todo, runs, scratch, files, made, dir, history, tainted, lock,
                 listening>>
-----------------------------------------------------------------------------
SetHistory(p, x, how) == history' = [history EXCEPT ![p][x] = how]

\* The output path is asked for.  etl opens --db: a dump's scratch file is the
\* one at the path by now.  Then it loads the package map.
StartEtl(t, p) ==
  /\ at[t] = "path"
  /\ job' = [job EXCEPT ![t].path = p, ![t].file = scratch,
                        ![t].whole = job[t].input \in Dumps => job[t].file = scratch]
  /\ Go(t, "sqlite")
  /\ UNCHANGED <<todo, runs, scratch, files, made, dir, history, tainted, lock, listening>>

OpensPebble(t) ==
  /\ made' = made \cup {job[t].path}
  /\ lock' = [lock EXCEPT ![job[t].path] = t]
  /\ Go(t, "pebble")
  /\ UNCHANGED <<job, todo, runs, scratch, files, dir, history, tainted, listening>>

(* Mutant of OpenPebble: the directory's lock is not respected.            *)
OpenPebbleUnlocked(t) == at[t] = "sqlite" /\ OpensPebble(t)

OpenPebble(t) == at[t] = "sqlite" /\ lock[job[t].path] = None /\ OpensPebble(t)

\* The row query: from here on the import is of the file as it is now.
QueryRows(t) ==
  LET x    == job[t].input
      file == files[job[t].file]
      sole == job[t].whole /\ (x \in Dumps => file.by \subseteq {t})
  IN
  /\ at[t] = "pebble"
  /\ todo' = [todo EXCEPT ![t] = IF x \in Dumps THEN file.recs ELSE Recs[x]]
  /\ job' = [job EXCEPT ![t].whole = sole]
  /\ IF sole
       THEN SetHistory(job[t].path, x, "running") /\ UNCHANGED tainted
       ELSE tainted' = tainted \cup {job[t].path} /\ UNCHANGED history
  /\ Go(t, "etl")
  /\ UNCHANGED <<runs, scratch, files, made, dir, lock, listening>>

EtlInstalls(t) ==
  /\ at[t] = "etl"
  /\ \E part \in (SUBSET todo[t]) \ {{}} :
       /\ todo' = [todo EXCEPT ![t] = @ \ part]
       /\ dir' = [dir EXCEPT ![job[t].path] = @ \cup part]
  /\ UNCHANGED <<at, job, runs, scratch, files, made, history, tainted, lock, listening>>

\* Exit status 0, whatever is still to do: a stream error is only logged, and
\* rows in memory are gone when Pebble is closed.
EtlEnds(t) ==
  /\ at[t] = "etl"
  /\ lock' = [lock EXCEPT ![job[t].path] = None]
  /\ todo' = [todo EXCEPT ![t] = {}]
  /\ job' = [job EXCEPT ![t].whole = @ /\ todo[t] = {}]
  /\ IF job[t].whole
       THEN SetHistory(job[t].path, job[t].input,
                       IF todo[t] = {} THEN "complete" ELSE "short")
       ELSE UNCHANGED history
  /\ Go(t, "address")
  /\ UNCHANGED <<runs, scratch, files, made, dir, tainted, listening>>
-----------------------------------------------------------------------------
(* Mutant of StartServer: a read-only server opens a locked directory.     *)
StartServerUnlocked(t) ==
  \E p \in made :
    /\ \/ at[t] = "address" /\ p = job[t].path
       \/ at[t] = "menu" /\ job[t].hasDb /\ p = DefaultPath
    /\ job' = [job EXCEPT ![t].path = p]
    /\ Go(t, "bind")
    /\ UNCHANGED <<todo, runs, scratch, files, made, dir, history, tainted, lock, listening>>

\* The server opens the directory, of the import or (option 2) the default one.
StartServer(t) ==
  \E p \in made :
    /\ \/ at[t] = "address" /\ p = job[t].path
       \/ at[t] = "menu" /\ job[t].hasDb /\ p = DefaultPath
    /\ lock[p] = None /\ lock' = [lock EXCEPT ![p] = t]
    /\ job' = [job EXCEPT ![t].path = p]
    /\ Go(t, "bind")
    /\ UNCHANGED <<todo, runs, scratch, files, made, dir, history, tainted, listening>>

Listen(t, a) ==
  /\ at[t] = "bind" /\ listening[a] = None
  /\ listening' = [listening EXCEPT ![a] = t]
  /\ Go(t, "serving")
  /\ UNCHANGED <<job, todo, runs, scratch, files, made, dir, history, tainted, lock>>

\* Every end: die, a failed command under set -e, a directory or an address in
\* use, options 3 and 4, a signal.  What was written stays; locks are freed.
Leave(t) ==
  /\ at[t] # "shell"
  /\ Go(t, "shell")
  /\ todo' = [todo EXCEPT ![t] = {}]
  /\ job' = [job EXCEPT ![t] = NoJob]
  /\ lock' = [p \in Paths |-> IF lock[p] = t THEN None ELSE lock[p]]
  /\ listening' = [a \in Addrs |-> IF listening[a] = t THEN None ELSE listening[a]]
  /\ IF at[t] = "etl" /\ job[t].whole
       THEN SetHistory(job[t].path, job[t].input, "aborted") ELSE UNCHANGED history
  /\ UNCHANGED <<runs, scratch, files, made, dir, tainted>>
-----------------------------------------------------------------------------
Import(t) ==
  \/ \E x \in Inputs : ChooseImport(t, x)
  \/ Discard(t) \/ OpenScratch(t) \/ ConvertSome(t) \/ ConvertEnds(t)
  \/ \E p \in Paths : StartEtl(t, p)
  \/ OpenPebble(t) \/ QueryRows(t) \/ EtlInstalls(t) \/ EtlEnds(t)

Next ==
  \E t \in Terminals :
    \/ Launch(t) \/ Import(t) \/ StartServer(t) \/ Leave(t)
    \/ \E a \in Addrs : Listen(t, a)

Spec == Init /\ [][Next]_vars
-----------------------------------------------------------------------------
Opened == {"pebble", "etl", "bind", "serving"}
Hows   == {"never", "running", "aborted", "short", "complete"}

TypeOK ==
  /\ at \in [Terminals -> Stages]
  /\ \A t \in Terminals :
       /\ todo[t] \subseteq Records
       /\ todo[t] # {} => at[t] \in {"convert", "etl"}
       /\ at[t] \in Opened \cup {"address"} => job[t].path \in made
       /\ at[t] \in Opened => lock[job[t].path] = t
  /\ history \in [Paths -> [Inputs -> Hows]]
  /\ tainted \subseteq made /\ made \subseteq Paths /\ dir \in [Paths -> SUBSET Records]
  /\ \A p \in Paths : lock[p] # None => at[lock[p]] \in Opened
  /\ \A a \in Addrs : listening[a] # None => at[listening[a]] = "serving"
  /\ scratch \in 0..MaxRuns /\ \A n \in 0..MaxRuns : files[n].recs \subseteq Records

(* A terminal that chose "Import an NSRL file -> then start the server"    *)
(* serves every record of that file, whatever earlier imports left behind  *)
(* and other terminals do, if etl left out no row of what it queried and   *)
(* nobody else had opened a new scratch file or written into this one by   *)
(* the time of the query (start.sh:76, 128-163).                           *)
ImportedIsServed ==
  \A t \in Terminals :
    /\ at[t] \in {"address", "bind", "serving"}
    /\ job[t].input # None /\ job[t].whole
    => Recs[job[t].input] \subseteq dir[job[t].path]

(* A server never shows an import in progress, though the menu offers the  *)
(* directory as soon as etl has created it; and a file is served whole     *)
(* when its last import was complete, whatever was aborted or imported     *)
(* short since.  What is missing belongs to an import that was aborted,    *)
(* that said "Done." with rows unread or unflushed, or that read another   *)
(* terminal's scratch file (start.sh:73, 152, 178).                        *)
ServedImportsEnded ==
  \A t \in Terminals :
    at[t] \in {"bind", "serving"} =>
      \A x \in Inputs :
        LET how == history[job[t].path][x] IN
        /\ how # "running"
        /\ how = "complete" => Recs[x] \subseteq dir[job[t].path]

(* A directory holds no record but those of the files imported into it: a  *)
(* scratch file left by an earlier run, or one rewritten after the row     *)
(* query, does not leak into an import (start.sh:128, cmd/etl/main.go:307).*)
NothingForeign ==
  \A p \in Paths : p \notin tainted =>
    \A r \in dir[p] : \E x \in Inputs : r \in Recs[x] /\ history[p][x] # "never"

(* The database of a running server does not change under it, whatever is  *)
(* run in other terminals: the handlers may take it for a constant         *)
(* (cmd/server/main.go:22, internal/store/store.go:31).                    *)
ServedUnchanging ==
  [][\A t \in Terminals : at[t] = "serving" => dir'[job[t].path] = dir[job[t].path]]_vars
-----------------------------------------------------------------------------
(* The inductive invariant behind these properties.                        *)
Job == [hasDb : BOOLEAN, input : Inputs \cup {None}, file : 0..MaxRuns, whole : BOOLEAN,
        path : Paths \cup {None}]

Types ==
  /\ at \in [Terminals -> Stages] /\ job \in [Terminals -> Job]
  /\ todo \in [Terminals -> SUBSET Records]
  /\ scratch \in 0..MaxRuns
  /\ files \in [0..MaxRuns -> [by : SUBSET Terminals, recs : SUBSET Records]]
  /\ made \subseteq Paths /\ tainted \subseteq made
  /\ dir \in [Paths -> SUBSET Records]
  /\ history \in [Paths -> [Inputs -> Hows]]
  /\ lock \in [Paths -> Terminals \cup {None}]
  /\ listening \in [Addrs -> Terminals \cup {None}]

\* A directory is locked by the program that has it open, and by no other.
Locks ==
  /\ \A t \in Terminals : at[t] \in Opened \cup {"address"} => job[t].path \in made
  /\ \A t \in Terminals : at[t] \in Opened => lock[job[t].path] = t
  /\ \A p \in Paths : lock[p] # None => at[lock[p]] \in Opened /\ job[lock[p]].path = p
  /\ \A a \in Addrs : listening[a] # None => at[listening[a]] = "serving"
  /\ \A t \in Terminals : todo[t] # {} => at[t] \in {"convert", "etl"}

\* What is imported is chosen from the menu, and only dumps are converted.
Chosen ==
  \A t \in Terminals :
    /\ at[t] \in {"shell", "menu"} => job[t].input = None
    /\ at[t] \in {"schema", "discarded", "convert"} => job[t].input \in Dumps
    /\ at[t] \in {"path", "sqlite", "pebble", "etl", "address"} => job[t].input \in Inputs
    /\ at[t] = "sqlite" => job[t].path \in Paths

\* What t has not written yet is in the file it has open, and nothing else is if
\* no other terminal wrote into it.
Converting(t) ==
  LET x == job[t].input  file == files[job[t].file] IN
  /\ x \in Dumps
  /\ at[t] \in {"convert", "path"} \/ (at[t] \in {"sqlite", "pebble"} /\ job[t].whole)
  => /\ Recs[x] \subseteq todo[t] \cup file.recs
     /\ file.by \subseteq {t} => file.recs \subseteq Recs[x]

\* A file nobody wrote into is empty, one that is still to come in particular.
Converted ==
  /\ \A n \in 0..MaxRuns : files[n].by = {} => files[n].recs = {}
  /\ \A n \in 0..MaxRuns : n > scratch => files[n].by = {}
  /\ \A t \in Terminals : job[t].file <= scratch
  /\ \A t \in Terminals : at[t] = "discarded" => t \notin files[scratch].by
  /\ \A t \in Terminals : Converting(t)
  /\ \A t \in Terminals : at[t] = "convert" => todo[t] \subseteq Recs[job[t].input]

\* An import has still to write what is missing, and writes nothing else.
Importing ==
  \A t \in Terminals : at[t] = "etl" =>
    IF job[t].whole
      THEN /\ Recs[job[t].input] \subseteq todo[t] \cup dir[job[t].path]
           /\ todo[t] \subseteq Recs[job[t].input]
           /\ history[job[t].path][job[t].input] = "running"
      ELSE job[t].path \in tainted

\* What is said of past imports is true.
HistoryTrue ==
  \A p \in Paths, x \in Inputs :
    /\ history[p][x] = "running" =>
         lock[p] # None /\ at[lock[p]] = "etl" /\ job[lock[p]].input = x /\ job[lock[p]].whole
    /\ history[p][x] = "complete" => Recs[x] \subseteq dir[p]

IInv == /\ Types /\ Locks /\ Chosen /\ Converted /\ Importing /\ HistoryTrue
        /\ ImportedIsServed /\ NothingForeign
=============================================================================
