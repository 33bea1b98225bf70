------------------------------ MODULE LoadFlags ------------------------------
(***************************************************************************)
(* How the two load generators, cmd/blitz and cmd/stress, may be called.   *)
(***************************************************************************)
EXTENDS Integers, Sequences, FiniteSets

CONSTANTS
  Workers,                \* --workers, --concurrency
  FileSizes,              \* the numbers of hashes the hash file may have
  Durations,              \* blitz: the values of --duration tried
  MaxSent,                \* bound: the requests all workers may send
  BulkWorkers,            \* stress: --bulk-concurrency
  Scenarios,              \* a sequence of "single" and "bulk"
  BatchSizes,             \* the values of --batch tried
  MaxAsked                \* bound: the requests sent in one scenario

ASSUME LoadAssumption   == IsFiniteSet(Workers) /\ FileSizes \subseteq Nat

ASSUME BlitzAssumption  == Durations \subseteq Nat /\ MaxSent \in Nat

ASSUME StressAssumption ==
  /\ BulkWorkers \subseteq Workers
  /\ Scenarios \in Seq({"single", "bulk"})
  /\ BatchSizes \subseteq Nat \ {0} /\ MaxAsked \in Nat
=============================================================================
