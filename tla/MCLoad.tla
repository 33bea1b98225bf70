------------------------------- MODULE MCLoad --------------------------------
(***************************************************************************)
(* The two load generators, either of which may be the program that runs:  *)
(* blitz with --duration 0 to 2 and a hash file that may be empty; stress  *)
(* through a scenario of single requests and one of bulk requests, with    *)
(* fewer workers, in batches as long as the file, longer or shorter.       *)
(* They share the names of main's stage, the workers and the file.         *)
(***************************************************************************)
EXTENDS Blitz

BothKinds == <<"single", "bulk">>

VARIABLES
  program, batchSize, scenario, phase, local, perWorker, summaries, asked, answered

S == INSTANCE Stress

ofBlitz  == <<duration, counters, clock, tick, display, report, sent>>
ofStress == <<batchSize, scenario, phase, local, perWorker, summaries, asked, answered>>
both     == <<program, hashes, stage, worker, ofBlitz, ofStress>>

StartUp ==
  /\ program \in {"blitz", "stress"}
  /\ Init /\ S!Init
  /\ IF program = "blitz" THEN batchSize = 1 ELSE duration = 0

Blitzing(step)  == program = "blitz"  /\ step /\ UNCHANGED <<program, ofStress>>
Stressing(step) == program = "stress" /\ step /\ UNCHANGED <<program, ofBlitz>>

Step == Blitzing(Next) \/ Stressing(S!Next)

Either ==
  /\ StartUp /\ [][Step]_both
  /\ WF_both(Blitzing(Main)) /\ WF_both(Blitzing(Second))
  /\ WF_both(Stressing(S!Main)) /\ WF_both(Stressing(S!PhaseEnds))
  /\ \A w \in Workers : WF_both(Stressing(S!Work(w)))
-----------------------------------------------------------------------------
(* The variables keep their types, and no worker returns before its time.  *)
TypesKept == IF program = "blitz" THEN TypeOK ELSE S!TypeOK

(* stress's account of what it sent, kept and showed (Stress).             *)
LeakBounded  == program = "stress" => S!LeakBounded
SummaryExact == program = "stress" => S!SummaryExact

(* Neither hangs, blitz not even on a server that never answers.           *)
Ends == IF program = "blitz" THEN Reports ELSE S!Tabled
=============================================================================
