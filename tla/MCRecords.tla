----------------------------- MODULE MCRecords ------------------------------
(***************************************************************************)
(* The pure parts of the programs over bounded inputs, one input at a      *)
(* time: every cell of every column against every query text, over one     *)
(* byte string of each length that matters and one of a length no hash     *)
(* has; NSRL databases of two files, two packages and two applications;    *)
(* the latencies of two workers.                                           *)
(***************************************************************************)
EXTENDS HashKeys, PackageMap, Latencies, TLC

CONSTANTS none, crc, md5, sha1, sha256, odd, app1, app2, file1, file2

ASSUME SampleAssumption == {none, crc, md5, sha1, sha256, odd} \subseteq Raw

MCByteLen == none :> 0 @@ crc :> 4 @@ md5 :> 16 @@ sha1 :> 20
             @@ sha256 :> 32 @@ odd :> 7

VARIABLES column, cell, query, tables, db, perWorker
vars == <<column, cell, query, tables, db, perWorker>>
-----------------------------------------------------------------------------
Application(a, package, name, versions) ==
  [application |-> a, package |-> package, name |-> name, versions |-> versions]

\* A link of an application, as rows of every link table have it.
Link(a, name, version) == [application |-> a, name |-> name, version |-> version]

File(object, name, extension, path) ==
  [object |-> object, hashes |-> object, name |-> name, extension |-> extension,
   size |-> 1, path |-> path]

Links   == {Link(app1, 1, 2), Link(app1, 2, 1), Link(app2, 1, 1), Link(app2, Null, 2)}
Objects == {[object |-> file1, package |-> p] : p \in {1, 2, Null}}
           \cup {[object |-> file2, package |-> 1]}
TableSets ==
  { ModernTables, ModernTables \ {"APPLICATION"}, MinimalTables,
    ModernTables \cup MinimalTables, MinimalTables \ {"FILE"} }

Database(name, versions, p, objects, systems, types, ext) ==
  [ applications |-> {Application(app1, 1, name, versions), Application(app2, p, 2, <<1, 1, 1, 1>>)},
    objects |-> objects, systems |-> systems,
    types |-> types, makers |-> types, languages |-> systems,
    files |-> {File(file1, 1, ext, Null), File(file2, ext, ext, 1)} ]

Versions == {<<1, 2, 2, 2>>, <<Null, 0, 2, 1>>, <<0, 0, 0, Null>>}
TypeRows == {{}, {Link(app1, 2, 0)}, {Link(app1, Null, 0), Link(app2, 1, 0)}}

Databases ==
  { Database(name, versions, p, objects, systems, types, ext) :
      name \in {1, Null}, versions \in Versions, p \in {1, 2}, objects \in SUBSET Objects,
      systems \in SUBSET Links, types \in TypeRows, ext \in {Null, 3} }
-----------------------------------------------------------------------------
SomeText == [raw |-> none, padded |-> FALSE, upper |-> FALSE]
EmptyDb  == [ applications |-> {}, objects |-> {}, systems |-> {}, types |-> {},
              makers |-> {}, languages |-> {}, files |-> {} ]

Init ==
  /\ column = "SHA1" /\ cell = SomeText /\ query = SomeText
  /\ tables = ModernTables /\ db = EmptyDb
  /\ perWorker = <<>>

NoHash      == cell = SomeText /\ query = SomeText
NoDatabase  == db = EmptyDb

PickCell ==
  /\ NoDatabase /\ perWorker = <<>>
  /\ \E k \in HashKinds, t \in Text : column' = k /\ cell' = t
  /\ UNCHANGED <<query, tables, db, perWorker>>

PickQuery ==
  /\ NoDatabase /\ perWorker = <<>>
  /\ \E t \in Text : query' = t
  /\ UNCHANGED <<column, cell, tables, db, perWorker>>

PickDatabase ==
  /\ NoHash /\ NoDatabase /\ perWorker = <<>>
  /\ \E d \in Databases, t \in TableSets : db' = d /\ tables' = t
  /\ UNCHANGED <<column, cell, query, perWorker>>

\* n latencies, the slowest first, shared out between two workers.
PickLatencies ==
  /\ NoHash /\ NoDatabase /\ perWorker = <<>>
  /\ \E n \in (0..12) \cup {20, 21, 50, 99, 100, 101}, k \in {1, 10} :
       perWorker' = << [i \in 1..(n \div k) |-> n + 1 - i],
                       [i \in 1..(n - n \div k) |-> n + 1 - n \div k - i] >>
  /\ UNCHANGED <<column, cell, query, tables, db>>

Next == PickCell \/ PickQuery \/ PickDatabase \/ PickLatencies

Spec == Init /\ [][Next]_vars
-----------------------------------------------------------------------------
(* Any spelling of an imported hash finds it (store.go:92 HashToKey and    *)
(* etl/main.go:380 build the same key).                                    *)
EverySpellingFound == Reachable(column, cell, query)

(* No query hits a cell that holds other bytes or the wrong kind of hash.  *)
NoFalseHit == NoCrossHit(column, cell, query)

(* The records of an import describe applications that exist, leave no     *)
(* file out, and are the same from either schema (PackageMap).             *)
PackageDetailsGenuine == DetailsGenuine(tables, db)
NoFileLeftOut         == FilesKept(tables, db)
EitherSchema          == SchemasAgree(tables, db)

(* A percentile reported by the stress test is the nearest-rank one or the *)
(* sample just below it, never above it, whichever worker took the sample; *)
(* and p50, p95 and p99 are in order (stress/main.go:314).                 *)
PercentilesNear == PercentilesNearest(Merge(perWorker))
=============================================================================
