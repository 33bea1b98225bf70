-------------------------------- MODULE Blitz --------------------------------
(***************************************************************************)
(* The blitz load generator, cmd/blitz: workers that ask as fast as they   *)
(* are answered, until main closes the stop channel; a ticker whose ticks  *)
(* main turns into the live display; and a report read from the counters   *)
(* 200 ms after the stop, whoever is still waiting for an answer.          *)
(*                                                                         *)
(* Time is in seconds.  The ticker's channel holds one tick: the next one  *)
(* is dropped if main has not taken it.                                    *)
(***************************************************************************)
EXTENDS LoadFlags, FiniteSetsExt, SequencesExt

VARIABLES
  duration, hashes,          \* how it is called: chosen once
  stage,                     \* of main
  worker,                    \* "ready", "waiting" for an answer, or "done"
  totalReqs, totalErrors,    \* the atomic counters
  clock, tick,               \* seconds since the start; the tick in the channel
  prevTotal, peakRPS, history,
  final, errors,             \* what the report says
  sent                       \* bookkeeping: the requests sent

opts     == <<duration, hashes>>
counters == <<totalReqs, totalErrors>>
display  == <<prevTotal, peakRPS, history>>
report   == <<final, errors>>
vars     == <<opts, stage, worker, counters, clock, tick, display, report, sent>>

NoTick == 0
Ended == {"no hashes", "reported", "panicked"}

Init ==
  /\ duration \in Durations /\ hashes \in FileSizes
  /\ stage = "loading"
  /\ worker = [w \in Workers |-> "ready"]
  /\ totalReqs = 0 /\ totalErrors = 0
  /\ clock = 0 /\ tick = NoTick
  /\ prevTotal = 0 /\ peakRPS = 0 /\ history = <<>>
  /\ final = 0 /\ errors = 0 /\ sent = 0

Load ==
  /\ stage = "loading"
  /\ stage' = IF hashes = 0 THEN "no hashes" ELSE "running"
  /\ UNCHANGED <<opts, worker, counters, clock, tick, display, report, sent>>
-----------------------------------------------------------------------------
Alive == stage \notin Ended \cup {"loading"}

(* Mutant of Ask: the workers do not look at the stop channel.             *)
AskOn(w) ==
  /\ Alive /\ worker[w] = "ready" /\ sent < MaxSent
  /\ worker' = [worker EXCEPT ![w] = "waiting"] /\ sent' = sent + 1
  /\ UNCHANGED <<opts, stage, counters, clock, tick, display, report>>

\* The select on stop, then the request.
Ask(w) ==
  /\ Alive /\ worker[w] = "ready"
  /\ IF stage = "running"
       THEN /\ sent < MaxSent
            /\ worker' = [worker EXCEPT ![w] = "waiting"] /\ sent' = sent + 1
       ELSE worker' = [worker EXCEPT ![w] = "done"] /\ UNCHANGED sent
  /\ UNCHANGED <<opts, stage, counters, clock, tick, display, report>>

(* Mutant of Answer: a worker gives up when its request fails.             *)
AnswerOrGiveUp(w) ==
  /\ Alive /\ worker[w] = "waiting"
  /\ \/ /\ totalReqs' = totalReqs + 1 /\ UNCHANGED totalErrors
        /\ worker' = [worker EXCEPT ![w] = "ready"]
     \/ /\ totalErrors' = totalErrors + 1 /\ UNCHANGED totalReqs
        /\ worker' = [worker EXCEPT ![w] = "done"]
  /\ UNCHANGED <<opts, stage, clock, tick, display, report, sent>>

\* client.Do returns: any response counts, whatever its status; a timeout is an error.
Answer(w) ==
  /\ Alive /\ worker[w] = "waiting"
  /\ worker' = [worker EXCEPT ![w] = "ready"]
  /\ \/ totalReqs' = totalReqs + 1 /\ UNCHANGED totalErrors
     \/ totalErrors' = totalErrors + 1 /\ UNCHANGED totalReqs
  /\ UNCHANGED <<opts, stage, clock, tick, display, report, sent>>
-----------------------------------------------------------------------------
(* A second passes.  Bound: main is not late with the ticks that can end   *)
(* the loop, so the clock stops one second after the duration.             *)
Second ==
  /\ stage = "running"
  /\ clock <= duration /\ (clock >= duration => tick = NoTick)
  /\ clock' = clock + 1
  /\ tick' = IF tick = NoTick THEN clock' ELSE tick
  /\ UNCHANGED <<opts, stage, worker, counters, display, report, sent>>

(* Mutants of Display: prevTotal stays behind; the loop ends a tick early. *)
DisplayTotal ==
  /\ stage = "running" /\ tick # NoTick
  /\ tick' = NoTick
  /\ history' = Append(history, totalReqs - prevTotal)
  /\ peakRPS' = Max({peakRPS, totalReqs - prevTotal})
  /\ \/ tick >= duration /\ stage' = "stopped"
     \/ tick <= duration /\ stage' = "running"
  /\ UNCHANGED <<opts, worker, counters, clock, prevTotal, report, sent>>
DisplayShort ==
  /\ stage = "running" /\ tick # NoTick
  /\ tick' = NoTick
  /\ history' = Append(history, totalReqs - prevTotal)
  /\ peakRPS' = Max({peakRPS, totalReqs - prevTotal})
  /\ prevTotal' = totalReqs
  /\ \/ tick + 1 >= duration /\ stage' = "stopped"
     \/ tick + 1 <= duration /\ stage' = "running"
  /\ UNCHANGED <<opts, worker, counters, clock, report, sent>>

(* One turn of the display loop.  start is taken after the ticker is made, *)
(* so the tick of the last second may come just before end.  With          *)
(* --duration 0 the bar's length is int(+Inf), which on some machines is   *)
(* negative and makes Repeat panic.                                        *)
Display ==
  /\ stage = "running" /\ tick # NoTick
  /\ tick' = NoTick
  /\ LET rps == totalReqs - prevTotal IN
     history' = Append(history, rps) /\ peakRPS' = Max({peakRPS, rps})
  /\ prevTotal' = totalReqs
  /\ \/ tick >= duration /\ stage' = "stopped"
     \/ tick <= duration /\ stage' = "running"
     \/ duration = 0 /\ stage' = "panicked"
  /\ UNCHANGED <<opts, worker, counters, clock, report, sent>>

(* Mutant of LoadTotal: the report waits for the workers.                  *)
LoadTotalWaiting ==
  /\ stage = "stopped" /\ \A w \in Workers : worker[w] = "done"
  /\ final' = totalReqs /\ stage' = "totalled"
  /\ UNCHANGED <<opts, worker, counters, clock, tick, display, errors, sent>>

\* close(stop) is the end of Display; after 200 ms the counters are read, one by one.
LoadTotal ==
  /\ stage = "stopped"
  /\ final' = totalReqs /\ stage' = "totalled"
  /\ UNCHANGED <<opts, worker, counters, clock, tick, display, errors, sent>>

LoadErrors ==
  /\ stage = "totalled"
  /\ errors' = totalErrors /\ stage' = "reported"
  /\ UNCHANGED <<opts, worker, counters, clock, tick, display, final, sent>>
-----------------------------------------------------------------------------
Main == Load \/ Display \/ LoadTotal \/ LoadErrors

Next == Main \/ Second \/ \E w \in Workers : Ask(w) \/ Answer(w)

Spec == Init /\ [][Next]_vars

\* Main runs and time passes; nothing is assumed of the workers or of the server.
FairSpec == Spec /\ WF_vars(Main) /\ WF_vars(Second)
-----------------------------------------------------------------------------
\* No worker returns, whatever its requests come to, before main stops it.
TypeOK ==
  /\ stage \in {"loading", "running", "stopped", "totalled"} \cup Ended
  /\ worker \in [Workers -> {"ready", "waiting", "done"}]
  /\ stage = "running" => \A w \in Workers : worker[w] # "done"
  /\ {totalReqs, totalErrors, prevTotal, peakRPS, final, errors} \subseteq Nat
  /\ clock \in 0..(duration + 1) /\ tick \in 0..clock
  /\ sent \in 0..MaxSent

(* What the report leaves out is at most one request of each worker, the   *)
(* one it was waiting for when main stopped it: the report neither counts  *)
(* a request twice nor, reading the two counters one after the other,      *)
(* loses any other one (blitz/main.go:130-136).                            *)
MissingBounded ==
  stage = "reported" => sent - (final + errors) \in 0..Cardinality(Workers)

(* The samples of the sparkline share the requests out without loss, also  *)
(* when ticks are dropped: they add up to the total at the last tick, the  *)
(* highest is the peak, and the report has only what came after it on top. *)
HistoryHonest ==
  /\ FoldSeq(+, 0, history) = prevTotal /\ prevTotal <= totalReqs
  /\ peakRPS = Max({0} \cup Range(history))
  /\ stage \in {"totalled", "reported"} => prevTotal <= final

(* The workers are not stopped before --duration is over, and at most one  *)
(* tick later than it (blitz/main.go:124).                                 *)
RunsItsTime ==
  stage \in {"stopped", "totalled", "reported"} =>
    clock >= duration /\ Len(history) <= duration + 1

(* It ends, and with a report unless it has no hashes or no duration, even *)
(* if the server never answers.                                            *)
Reports ==
  <>( \/ stage = "reported"
      \/ stage = "no hashes" /\ hashes = 0
      \/ stage = "panicked" /\ duration = 0 )
=============================================================================
