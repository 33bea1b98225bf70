------------------------------- MODULE Stress --------------------------------
(***************************************************************************)
(* The stress load generator, cmd/stress: scenarios one after the other,   *)
(* each with workers that ask until its deadline and keep the latencies of *)
(* what is answered after the warm-up; when all have returned, the slices  *)
(* are merged and summarised.                                              *)
(*                                                                         *)
(* Of time only the phase counts: "warmup", "measure", or "over" past the  *)
(* deadline.  Of a worker's slice of latencies, only its length.           *)
(***************************************************************************)
EXTENDS LoadFlags, FiniteSetsExt, SequencesExt

VARIABLES
  batchSize, hashes,   \* how it is called: chosen once
  stage, scenario,     \* of main; the number of the scenario
  phase,               \* what the clock says of it
  worker,              \* "ready", the phase it asked in, or "done"
  local, perWorker,    \* the lengths of the workers' slices, and of those handed over
  summaries,
  asked,               \* the requests sent in this scenario
  answered             \* bookkeeping: how each worker's samples came about

opts == <<batchSize, hashes>>
vars == <<opts, stage, scenario, phase, worker, local, perWorker, summaries, asked, answered>>

Phases == {"warmup", "measure", "over"}
NoSamples == [inside |-> 0, early |-> 0, late |-> 0, hashes |-> 0]

\* The goroutines of scenario n.
Team(n) == IF Scenarios[n] = "bulk" THEN BulkWorkers ELSE Workers

Fresh ==
  /\ phase' = "warmup" /\ asked' = 0
  /\ worker' = [w \in Workers |-> "ready"]
  /\ local' = [w \in Workers |-> 0] /\ perWorker' = [w \in Workers |-> 0]
  /\ answered' = [w \in Workers |-> NoSamples]

Init ==
  /\ batchSize \in BatchSizes /\ hashes \in FileSizes
  /\ stage = "loading" /\ scenario = 0
  /\ phase = "warmup" /\ asked = 0
  /\ worker = [w \in Workers |-> "ready"]
  /\ local = [w \in Workers |-> 0] /\ perWorker = [w \in Workers |-> 0]
  /\ answered = [w \in Workers |-> NoSamples]
  /\ summaries = <<>>

Load ==
  /\ stage = "loading"
  /\ stage' = IF hashes = 0 THEN "no hashes" ELSE "between"
  /\ UNCHANGED <<opts, scenario, phase, worker, local, perWorker, summaries, asked, answered>>

\* The next scenario, after the pause, or the table of all of them.
Start ==
  /\ stage = "between"
  /\ IF scenario < Len(Scenarios)
       THEN stage' = "running" /\ scenario' = scenario + 1 /\ Fresh
       ELSE stage' = "tabled"
            /\ UNCHANGED <<scenario, phase, worker, local, perWorker, asked, answered>>
  /\ UNCHANGED <<opts, summaries>>
-----------------------------------------------------------------------------
Running(w) == stage = "running" /\ w \in Team(scenario)

PhaseEnds ==
  /\ stage = "running" /\ phase # "over"
  /\ phase' = IF phase = "warmup" THEN "measure" ELSE "over"
  /\ UNCHANGED <<opts, stage, scenario, worker, local, perWorker, summaries, asked, answered>>

(* Mutant of Ask: the slices are handed over under one index.              *)
AskShared(w) ==
  /\ Running(w) /\ worker[w] = "ready"
  /\ IF phase = "over"
       THEN /\ worker' = [worker EXCEPT ![w] = "done"]
            /\ perWorker' = [perWorker EXCEPT ![CHOOSE x \in Team(scenario) : TRUE] = local[w]]
            /\ UNCHANGED asked
       ELSE /\ asked < MaxAsked /\ asked' = asked + 1
            /\ worker' = [worker EXCEPT ![w] = phase] /\ UNCHANGED perWorker
  /\ UNCHANGED <<opts, stage, scenario, phase, local, summaries, answered>>

\* The loop's test of the deadline, then a request or the end of the goroutine.
Ask(w) ==
  /\ Running(w) /\ worker[w] = "ready"
  /\ IF phase = "over"
       THEN /\ worker' = [worker EXCEPT ![w] = "done"]
            /\ perWorker' = [perWorker EXCEPT ![w] = local[w]]
            /\ UNCHANGED asked
       ELSE /\ asked < MaxAsked /\ asked' = asked + 1
            /\ worker' = [worker EXCEPT ![w] = phase] /\ UNCHANGED perWorker
  /\ UNCHANGED <<opts, stage, scenario, phase, local, summaries, answered>>

\* pickRandom: a file that is not longer than the batch is sent as it is.
PickRandom(n, size) == IF n >= size THEN size ELSE n

Requested == IF Scenarios[scenario] = "bulk" THEN PickRandom(batchSize, hashes) ELSE 1

\* Bookkeeping of a sample whose request was sent in the phase since.
Noted(note, since) ==
  [ inside |-> note.inside + (IF since = "measure" /\ phase = "measure" THEN 1 ELSE 0),
    early  |-> note.early + (IF since = "warmup" THEN 1 ELSE 0),
    late   |-> note.late + (IF since = "measure" /\ phase = "over" THEN 1 ELSE 0),
    hashes |-> note.hashes + Requested ]

(* Mutant of Answer: nothing is left out of the samples.                   *)
AnswerAlways(w) ==
  /\ Running(w) /\ worker[w] \in Phases
  /\ worker' = [worker EXCEPT ![w] = "ready"]
  /\ local' = [local EXCEPT ![w] = @ + 1]
  /\ answered' = [answered EXCEPT ![w] = Noted(@, worker[w])]
  /\ UNCHANGED <<opts, stage, scenario, phase, perWorker, summaries, asked>>

\* client.Do returns; the clock is read again to see whether the answer counts.
Answer(w) ==
  /\ Running(w) /\ worker[w] \in Phases
  /\ worker' = [worker EXCEPT ![w] = "ready"]
  /\ \E ok \in BOOLEAN :
       IF ok /\ phase # "warmup"
         THEN /\ local' = [local EXCEPT ![w] = @ + 1]
              /\ answered' = [answered EXCEPT ![w] = Noted(@, worker[w])]
         ELSE UNCHANGED <<local, answered>>
  /\ UNCHANGED <<opts, stage, scenario, phase, perWorker, summaries, asked>>
-----------------------------------------------------------------------------
\* reqPerSec and hashesPerSec, without the division by the duration.
Summary ==
  LET total == SumFunctionOnSet(perWorker, Team(scenario))
  IN  [ total |-> total,
        hashes |-> IF Scenarios[scenario] = "bulk" THEN total * batchSize ELSE total ]

\* wg.Wait, merge, and runScenario's summary.
Summarise ==
  /\ stage = "running" /\ \A w \in Team(scenario) : worker[w] = "done"
  /\ summaries' = Append(summaries, Summary) /\ stage' = "between"
  /\ UNCHANGED <<opts, scenario, phase, worker, local, perWorker, asked, answered>>
-----------------------------------------------------------------------------
Work(w) == Ask(w) \/ Answer(w)

Main == Load \/ Start \/ Summarise

Next == Main \/ PhaseEnds \/ \E w \in Workers : Work(w)

Spec == Init /\ [][Next]_vars

\* Main and the workers run, time passes, and the client's timeouts answer for the server.
FairSpec ==
  /\ Spec /\ WF_vars(Main) /\ WF_vars(PhaseEnds)
  /\ \A w \in Workers : WF_vars(Work(w))
-----------------------------------------------------------------------------
\* No worker returns, whatever its requests come to, before the deadline.
TypeOK ==
  /\ stage \in {"loading", "no hashes", "between", "running", "tabled"}
  /\ scenario \in 0..Len(Scenarios) /\ phase \in Phases /\ asked \in 0..MaxAsked
  /\ worker \in [Workers -> {"ready", "done"} \cup Phases]
  /\ phase # "over" => \A w \in Workers : worker[w] # "done"
  /\ local \in [Workers -> Nat] /\ perWorker \in [Workers -> Nat]
  /\ Len(summaries) <= Len(Scenarios)

(* Of the requests sent in the warm-up at most one per worker is counted,  *)
(* the one it was waiting for when the measurement began (--warmup says    *)
(* "sent but not counted", stress/main.go:40, 195); of those answered past *)
(* the deadline, too, though the rate divides by the duration only.        *)
LeakBounded ==
  \A w \in Workers : answered[w].early <= 1 /\ answered[w].late <= 1

(* When a scenario is summarised every sample of every worker of it is in  *)
(* the total and no other is: none is lost between the slices, and none of *)
(* the scenario before is left (stress/main.go:200-203).  The rate of      *)
(* hashes is that of the hashes sent if the file is at least one batch     *)
(* long, and overstated if not (stress/main.go:133, 266).                  *)
SummaryExact ==
  stage = "between" /\ summaries # <<>> =>
    LET of(field) == SumFunctionOnSet([w \in Workers |-> answered[w][field]], Workers)
        summary == Last(summaries)
    IN  /\ Len(summaries) = scenario
        /\ summary.total = of("inside") + of("early") + of("late")
        /\ IF Scenarios[scenario] = "single" \/ batchSize <= hashes
             THEN summary.hashes = of("hashes")
             ELSE summary.hashes >= of("hashes")

(* All scenarios are run and the table is printed, unless there is no hash.*)
Tabled == <>(stage = "tabled" \/ (stage = "no hashes" /\ hashes = 0))
=============================================================================
