----------------------------- MODULE LoadProofs ------------------------------
(***************************************************************************)
(* For any number of workers, scenarios, requests and seconds: what the    *)
(* report of blitz leaves out and what its sparkline adds up to; which     *)
(* samples stress keeps and what its summaries make of them.  Each program *)
(* has an inductive invariant of its own, and MCLoad, where either may be  *)
(* the one that runs, keeps the one of the program that does.              *)
(***************************************************************************)
EXTENDS MCLoad, Induction

\* blitz.
Waiting == {w \in Workers : worker[w] = "waiting"}

\* The counters and the clock keep their types.
Types ==
  /\ stage \in {"loading", "running", "stopped", "totalled"} \cup Ended
  /\ worker \in [Workers -> {"ready", "waiting", "done"}]
  /\ stage \in {"loading", "running"} => \A w \in Workers : worker[w] # "done"
  /\ totalReqs \in Nat /\ totalErrors \in Nat /\ sent \in 0..MaxSent
  /\ prevTotal \in Nat /\ peakRPS \in Nat /\ prevTotal <= totalReqs
  /\ final \in Nat /\ errors \in Nat
  /\ duration \in Nat /\ clock \in 0..(duration + 1) /\ tick \in 0..clock
  /\ history \in Seq(Nat)

\* Every request sent is counted, waited for, or, when main reads the
\* counters, among the at most one per worker that came in between.
Accounted ==
  LET n == Cardinality(Waiting) IN
  /\ stage # "reported" => sent = totalReqs + totalErrors + n
  /\ stage = "totalled" =>
       final <= totalReqs /\ totalReqs - final + n <= Cardinality(Workers)
  /\ MissingBounded

\* A sample has had a second of its own, and the tick in the channel one more.
Paced ==
  /\ Len(history) + (IF tick = NoTick THEN 0 ELSE 1) <= clock
  /\ RunsItsTime

IInv == Types /\ Accounted /\ Paced
-----------------------------------------------------------------------------
(* The waiting workers are finitely many; one that starts or stops waiting *)
(* makes one more or one less of them.                                     *)
LEMMA WaitingCount ==
  ASSUME worker \in [Workers -> {"ready", "waiting", "done"}]
  PROVE  /\ Cardinality(Waiting) \in Nat /\ Cardinality(Workers) \in Nat
         /\ Cardinality(Waiting) <= Cardinality(Workers)
         /\ \A w \in Workers :
              /\ worker[w] # "waiting"
                   => Cardinality(Waiting \cup {w}) = Cardinality(Waiting) + 1
                      /\ Cardinality(Waiting) + 1 <= Cardinality(Workers)
              /\ worker[w] = "waiting"
                   => Cardinality(Waiting \ {w}) = Cardinality(Waiting) - 1
<1>1. IsFiniteSet(Workers) /\ Waiting \subseteq Workers
  BY LoadAssumption DEF Waiting
<1>2. /\ IsFiniteSet(Waiting) /\ Cardinality(Waiting) \in Nat /\ Cardinality(Workers) \in Nat
      /\ Cardinality(Waiting) <= Cardinality(Workers)
  BY <1>1, FS_Subset, FS_CardinalityType
<1>3. ASSUME NEW w \in Workers, worker[w] # "waiting"
      PROVE  /\ Cardinality(Waiting \cup {w}) = Cardinality(Waiting) + 1
             /\ Cardinality(Waiting) + 1 <= Cardinality(Workers)
  <2>1. w \notin Waiting /\ Waiting \cup {w} \subseteq Workers
    BY <1>1, <1>3 DEF Waiting
  <2>2. Cardinality(Waiting \cup {w}) = Cardinality(Waiting) + 1
    BY <1>2, <2>1, FS_AddElement
  <2> QED
    BY <1>1, <2>1, <2>2, FS_Subset
<1>4. ASSUME NEW w \in Workers, worker[w] = "waiting"
      PROVE  Cardinality(Waiting \ {w}) = Cardinality(Waiting) - 1
  BY <1>2, <1>4, FS_RemoveElement DEF Waiting
<1> QED
  BY <1>2, <1>3, <1>4

(* The greatest element of a set that has one is in it.                    *)
LEMMA MaxIn ==
  ASSUME NEW set, \E m \in set : \A y \in set : m >= y
  PROVE  Max(set) \in set
BY Zenon DEF Max

(* The invariant holds at the start.                                       *)
LEMMA InitIInv == Init => IInv
<1> SUFFICES ASSUME Init PROVE IInv
  OBVIOUS
<1>1. Waiting = {} /\ Cardinality({}) = 0
  BY FS_EmptySet DEF Init, Waiting
<1>2. Types
  BY LoadAssumption, BlitzAssumption DEF Init, Types, Ended, NoTick
<1>3. Accounted
  BY <1>1 DEF Init, Accounted, MissingBounded
<1>4. Paced
  BY DEF Init, Paced, RunsItsTime, NoTick
<1> QED
  BY <1>2, <1>3, <1>4 DEF IInv

(* The halves of a worker's turn.                                          *)
LEMMA WorkerStep ==
  ASSUME IInv, NEW w \in Workers, Ask(w) \/ Answer(w)
  PROVE  IInv'
<1> USE DEF IInv, opts, counters, display, report
<1>1. worker \in [Workers -> {"ready", "waiting", "done"}] /\ stage \notin {"reported", "loading"}
  BY DEF Types, Ask, Answer, Alive, Ended
<1>2. Types'
  <2>1. worker' \in [Workers -> {"ready", "waiting", "done"}]
        /\ (stage \in {"loading", "running"} => \A x \in Workers : worker'[x] # "done")
    BY <1>1 DEF Types, Ask, Answer
  <2>2. totalReqs' \in Nat /\ totalErrors' \in Nat /\ sent' \in 0..MaxSent
        /\ prevTotal <= totalReqs'
    <3>1. CASE Ask(w)
      <4>1. UNCHANGED <<totalReqs, totalErrors, prevTotal>>
            /\ (sent' = sent \/ (sent < MaxSent /\ sent' = sent + 1))
        BY <3>1 DEF Ask
      <4> QED
        BY <4>1, BlitzAssumption DEF Types
    <3>2. CASE Answer(w)
      <4>1. /\ UNCHANGED <<sent, prevTotal>>
            /\ \/ totalReqs' = totalReqs + 1 /\ totalErrors' = totalErrors
               \/ totalErrors' = totalErrors + 1 /\ totalReqs' = totalReqs
        BY <3>2 DEF Answer
      <4> QED
        BY <4>1, BlitzAssumption DEF Types
    <3> QED
      BY <3>1, <3>2
  <2>3. UNCHANGED <<stage, duration, clock, tick, prevTotal, peakRPS, history, final, errors>>
    BY DEF Ask, Answer
  <2> QED
    BY <2>1, <2>2, <2>3 DEF Types
<1>3. Paced'
  BY DEF Paced, RunsItsTime, Ask, Answer
<1>4. CASE Ask(w) /\ stage = "running"
  <2>1. Waiting' = Waiting \cup {w} /\ worker[w] # "waiting"
    BY <1>1, <1>4 DEF Ask, Waiting
  <2>2. Cardinality(Waiting') = Cardinality(Waiting) + 1
    BY <1>1, <2>1, WaitingCount
  <2>3. Accounted'
    BY <1>1, <1>4, <2>2, WaitingCount DEF Accounted, MissingBounded, Ask, Types
  <2> QED
    BY <1>2, <1>3, <2>3
<1>5. CASE Ask(w) /\ stage # "running"
  <2>1. Waiting' = Waiting
    BY <1>1, <1>5 DEF Ask, Waiting
  <2>2. Accounted'
    BY <1>1, <1>5, <2>1 DEF Accounted, MissingBounded, Ask, Types
  <2> QED
    BY <1>2, <1>3, <2>2
<1>6. CASE Answer(w)
  <2>1. Waiting' = Waiting \ {w} /\ worker[w] = "waiting"
    BY <1>1, <1>6 DEF Answer, Waiting
  <2>2. Cardinality(Waiting') = Cardinality(Waiting) - 1
    BY <1>1, <2>1, WaitingCount
  <2>3. /\ UNCHANGED <<stage, final, sent>>
        /\ \/ totalReqs' = totalReqs + 1 /\ totalErrors' = totalErrors
           \/ totalErrors' = totalErrors + 1 /\ totalReqs' = totalReqs
    BY <1>6 DEF Answer
  <2>4. /\ Cardinality(Waiting) \in Nat /\ Cardinality(Workers) \in Nat
        /\ totalReqs \in Nat /\ totalErrors \in Nat /\ final \in Nat
    BY <1>1, WaitingCount DEF Types
  <2>5. stage' # "reported" /\ sent' = totalReqs' + totalErrors' + Cardinality(Waiting')
    BY <1>1, <2>2, <2>3, <2>4 DEF Accounted
  <2>6. stage' = "totalled" =>
          final' <= totalReqs' /\ totalReqs' - final' + Cardinality(Waiting') <= Cardinality(Workers)
    BY <2>2, <2>3, <2>4 DEF Accounted
  <2>7. Accounted'
    BY <2>5, <2>6 DEF Accounted, MissingBounded
  <2> QED
    BY <1>2, <1>3, <2>7
<1> QED
  BY <1>4, <1>5, <1>6

(* The steps of main and of the clock.                                     *)
LEMMA MainStep ==
  ASSUME IInv, Main \/ Second
  PROVE  IInv'
<1> USE DEF IInv, opts, counters, display, report
<1>1. Waiting' = Waiting
  BY DEF Main, Second, Load, Display, LoadTotal, LoadErrors, Waiting
<1>2. /\ Cardinality(Waiting) \in Nat /\ Cardinality(Workers) \in Nat
      /\ Cardinality(Waiting) <= Cardinality(Workers)
  BY WaitingCount DEF Types
<1>3. CASE Load
  BY <1>1, <1>3 DEF Load, Types, Accounted, MissingBounded, Paced, RunsItsTime, Ended
<1>4. CASE Second
  BY <1>1, <1>4, BlitzAssumption
     DEF Second, Types, Accounted, MissingBounded, Paced, RunsItsTime, Ended, NoTick
<1>5. CASE Display
  <2>1. /\ stage = "running" /\ tick # NoTick /\ tick' = NoTick
        /\ history' = Append(history, totalReqs - prevTotal)
        /\ peakRPS' = Max({peakRPS, totalReqs - prevTotal}) /\ prevTotal' = totalReqs
        /\ UNCHANGED <<duration, worker, totalReqs, totalErrors, clock, final, errors, sent>>
        /\ \/ stage' = "running"
           \/ stage' = "stopped" /\ tick >= duration
           \/ stage' = "panicked"
    BY <1>5 DEF Display
  <2>2. peakRPS' \in Nat
    <3>1. totalReqs - prevTotal \in Nat /\ peakRPS \in Nat
      BY DEF Types
    <3>2. \E m \in {peakRPS, totalReqs - prevTotal} :
            \A y \in {peakRPS, totalReqs - prevTotal} : m >= y
      BY <3>1
    <3>3. Max({peakRPS, totalReqs - prevTotal}) \in {peakRPS, totalReqs - prevTotal}
      BY <3>2, MaxIn
    <3> QED
      BY <2>1, <3>1, <3>3
  <2>3. history' \in Seq(Nat) /\ Len(history') = Len(history) + 1
    BY <2>1 DEF Types
  <2>4. Types'
    <3>1. stage' \in {"loading", "running", "stopped", "totalled"} \cup Ended
      BY <2>1 DEF Ended
    <3>2. worker' = worker /\ \A w \in Workers : worker[w] # "done"
      BY <2>1 DEF Types
    <3>3. clock' = clock /\ duration' = duration /\ tick' \in 0..clock
      BY <2>1 DEF Types, NoTick
    <3>4. /\ totalReqs' = totalReqs /\ totalErrors' = totalErrors /\ sent' = sent
          /\ prevTotal' = totalReqs /\ final' = final /\ errors' = errors
      BY <2>1
    <3> QED
      BY <2>2, <2>3, <3>1, <3>2, <3>3, <3>4 DEF Types
  <2>5. Accounted'
    BY <1>1, <2>1 DEF Accounted, MissingBounded
  <2>6. Paced'
    BY <2>1, <2>3 DEF Paced, RunsItsTime, Types, NoTick
  <2> QED
    BY <2>4, <2>5, <2>6
<1>6. CASE LoadTotal
  <2>1. Types' /\ Paced'
    BY <1>6 DEF LoadTotal, Types, Paced, RunsItsTime, Ended
  <2>2. Accounted'
    BY <1>1, <1>2, <1>6 DEF LoadTotal, Types, Accounted, MissingBounded
  <2> QED
    BY <2>1, <2>2
<1>7. CASE LoadErrors
  <2>1. Types' /\ Paced'
    BY <1>7 DEF LoadErrors, Types, Paced, RunsItsTime, Ended
  <2>2. Accounted'
    BY <1>1, <1>2, <1>7 DEF LoadErrors, Types, Accounted, MissingBounded
  <2> QED
    BY <2>1, <2>2
<1> QED
  BY <1>3, <1>4, <1>5, <1>6, <1>7 DEF Main

(* Every step of blitz keeps the invariant, so it holds in every reachable *)
(* state.                                                                  *)
LEMMA BlitzStep == IInv /\ [Next]_vars => IInv'
<1> SUFFICES ASSUME IInv, [Next]_vars PROVE IInv'
  OBVIOUS
<1>1. CASE UNCHANGED vars
  BY <1>1 DEF vars, opts, counters, display, report, IInv, Types, Accounted, Paced, Waiting,
              MissingBounded, RunsItsTime
<1> QED
  BY <1>1, WorkerStep, MainStep DEF Next

THEOREM Invariance == Spec => []IInv
BY BlitzStep, InitIInv, PTL DEF Spec

(* blitz's variables keep their types, and no worker returns before it is  *)
(* stopped, whatever its requests come to.                                 *)
THEOREM TypeCorrect == Spec => []TypeOK
<1>1. IInv => TypeOK
  BY DEF IInv, Types, TypeOK
<1> QED
  BY <1>1, Invariance, PTL

(* The report leaves out at most one request of each worker.               *)
THEOREM MissesFew == Spec => []MissingBounded
<1>1. IInv => MissingBounded
  BY DEF IInv, Accounted
<1> QED
  BY <1>1, Invariance, PTL

(* The workers get the whole of --duration, and a second more at most.     *)
THEOREM StopsInTime == Spec => []RunsItsTime
<1>1. IInv => RunsItsTime
  BY DEF IInv, Paced
<1> QED
  BY <1>1, Invariance, PTL
-----------------------------------------------------------------------------
(* A greatest element is the maximum.                                      *)
LEMMA MaxIs ==
  ASSUME NEW set, set \subseteq Int, NEW m \in set, \A y \in set : y <= m
  PROVE  Max(set) = m
<1>1. \E x \in set : \A y \in set : x >= y
  OBVIOUS
<1>2. Max(set) \in set /\ \A y \in set : Max(set) >= y
  BY <1>1, Zenon DEF Max
<1> DEFINE M == Max(set)
<1>3. M \in set /\ \A y \in set : M >= y
  BY <1>2
<1> HIDE DEF M
<1>4. M = m
  BY <1>3
<1> QED
  BY <1>4 DEF M

(* One sample more makes the sum of the samples so much greater.           *)
LEMMA FoldAppend ==
  ASSUME NEW s \in Seq(Nat), NEW n \in Nat
  PROVE  FoldSeq(+, 0, Append(s, n)) = FoldSeq(+, 0, s) + n
<1> DEFINE t == Append(s, n)
           k == Len(s) + 1
<1>1. /\ Len(s) \in Nat /\ DOMAIN s = 1..Len(s) /\ DOMAIN t = 1..k
      /\ t \in Seq(Nat) /\ t[k] = n /\ \A i \in 1..Len(s) : t[i] = s[i] /\ t[i] \in Nat
  OBVIOUS
<1>2. /\ FoldSeq(+, 0, t) = SumFunctionOnSet(t, DOMAIN t)
      /\ FoldSeq(+, 0, s) = SumFunctionOnSet(s, DOMAIN s)
  BY DEF SumFunctionOnSet, FoldFunctionOnSet, MapThenFoldSet, FoldSeq, FoldFunction
<1> HIDE DEF t
<1>3. k \in Nat /\ 1..k = (1..Len(s)) \cup {k} /\ k \notin 1..Len(s) /\ 1..Len(s) \subseteq 1..k
  BY <1>1
<1>4. IsFiniteSet(1..k) /\ IsFiniteSet(1..Len(s))
  BY <1>1, <1>3, FS_Interval
<1> HIDE DEF k
<1>5. \A i \in 1..k : t[i] \in Nat
  BY <1>1, <1>3
<1> DEFINE before == 1..Len(s)
           D == 1..k
<1>9. before \in SUBSET D /\ k \in D \ before /\ IsFiniteSet(D) /\ \A i \in D : t[i] \in Nat
  BY <1>3, <1>4, <1>5
<1> HIDE DEF before, D
<1>6. SumFunctionOnSet(t, before \cup {k}) = t[k] + SumFunctionOnSet(t, before)
  BY <1>9, SumAdds
<1>7. SumFunctionOnSet(t, 1..Len(s)) = SumFunctionOnSet(s, 1..Len(s))
  BY <1>1, <1>4, SumSame
<1>8. SumFunctionOnSet(t, 1..Len(s)) \in Nat
  BY <1>1, <1>4, SumType
<1> DEFINE now == FoldSeq(+, 0, t)
           was == FoldSeq(+, 0, s)
           sum(f, T) == SumFunctionOnSet(f, T)
<1>10. now = sum(t, DOMAIN t) /\ was = sum(s, DOMAIN s)
  BY <1>2
<1>11. /\ sum(t, before \cup {k}) = t[k] + sum(t, before)
       /\ sum(t, before) = sum(s, before) /\ sum(t, before) \in Nat
  BY <1>6, <1>7, <1>8 DEF before
<1> HIDE DEF now, was, sum
<1>12. DOMAIN t = before \cup {k} /\ DOMAIN s = before /\ t[k] = n
  BY <1>1, <1>3 DEF before
<1>13. now = was + n
  BY <1>10, <1>11, <1>12
<1> QED
  BY <1>13 DEF now, was, t

\* The account of the display, its peak as the bound it is.
SumOf(samples) == FoldSeq(+, 0, samples)

Shown ==
  /\ SumOf(history) = prevTotal
  /\ peakRPS \in {0} \cup Range(history) /\ \A y \in Range(history) : y <= peakRPS
  /\ stage \in {"totalled", "reported"} => prevTotal <= final

(* The account of the display holds at the start, and a step of the display *)
(* keeps it: its sample is what has come in since the one before.          *)
LEMMA DisplayKeepsAccount ==
  ASSUME IInv, Shown, Display
  PROVE  Shown'
<1> DEFINE rps == totalReqs - prevTotal
<1>1. /\ history' = Append(history, rps) /\ peakRPS' = Max({peakRPS, rps})
      /\ prevTotal' = totalReqs /\ stage' \in {"running", "stopped", "panicked"}
  BY DEF Display
<1>2. /\ history \in Seq(Nat) /\ rps \in Nat /\ prevTotal \in Nat /\ totalReqs \in Nat
      /\ peakRPS \in Nat
  BY DEF IInv, Types
<1>3. SumOf(history') = prevTotal'
  <2>1. SumOf(Append(history, rps)) = SumOf(history) + rps
    BY <1>2, FoldAppend DEF SumOf
  <2> QED
    BY <1>1, <1>2, <2>1 DEF Shown
<1>4. Range(history') = Range(history) \cup {rps}
  <2>1. /\ Len(history) \in Nat /\ DOMAIN history = 1..Len(history)
        /\ DOMAIN history' = 1..(Len(history) + 1)
        /\ history'[Len(history) + 1] = rps
        /\ \A i \in 1..Len(history) : history'[i] = history[i]
    BY <1>1, <1>2
  <2>2. 1..(Len(history) + 1) = (1..Len(history)) \cup {Len(history) + 1}
    BY <2>1
  <2> QED
    BY <2>1, <2>2 DEF Range
<1>5. /\ Range(history) \subseteq Nat /\ peakRPS \in {0} \cup Range(history)
      /\ \A y \in Range(history) : y <= peakRPS
  <2>1. \A i \in DOMAIN history : history[i] \in Nat
    BY <1>2
  <2> QED
    BY <2>1 DEF Shown, Range
<1> HIDE DEF rps
<1>6. /\ peakRPS' \in {peakRPS, rps} /\ peakRPS' >= peakRPS /\ peakRPS' >= rps
  <2>1. CASE rps <= peakRPS
    <3>1. \A y \in {peakRPS, rps} : y <= peakRPS
      BY <1>2, <2>1
    <3>2. Max({peakRPS, rps}) = peakRPS
      <4> DEFINE set == {peakRPS, rps}
      <4>1. set \subseteq Int /\ peakRPS \in set /\ \A y \in set : y <= peakRPS
        BY <1>2, <3>1
      <4> HIDE DEF set
      <4>2. Max(set) = peakRPS
        BY <4>1, MaxIs
      <4> QED
        BY <4>2 DEF set
    <3> QED
      BY <1>1, <1>2, <2>1, <3>2
  <2>2. CASE peakRPS < rps
    <3>1. \A y \in {peakRPS, rps} : y <= rps
      BY <1>2, <2>2
    <3>2. Max({peakRPS, rps}) = rps
      <4> DEFINE set == {peakRPS, rps}
      <4>1. set \subseteq Int /\ rps \in set /\ \A y \in set : y <= rps
        BY <1>2, <3>1
      <4> HIDE DEF set
      <4>2. Max(set) = rps
        BY <4>1, MaxIs
      <4> QED
        BY <4>2 DEF set
    <3> QED
      BY <1>1, <1>2, <2>2, <3>2
  <2> QED
    BY <1>2, <2>1, <2>2
<1>7. peakRPS' \in {0} \cup Range(history') /\ \A y \in Range(history') : y <= peakRPS'
  <2>1. \A y \in Range(history) : y \in Nat /\ y <= peakRPS /\ peakRPS <= peakRPS' /\ peakRPS' \in Nat
    BY <1>2, <1>5, <1>6
  <2>2. \A y \in Range(history) : y <= peakRPS'
    BY <1>2, <2>1
  <2> QED
    BY <1>4, <1>5, <1>6, <2>2
<1> QED
  BY <1>1, <1>3, <1>7 DEF Shown

(* No other step touches the account, save that the report reads the total. *)
LEMMA StepKeepsAccount ==
  ASSUME IInv, Shown, Next
  PROVE  Shown'
<1>1. CASE Display
  BY <1>1, DisplayKeepsAccount
<1>2. CASE LoadTotal
  <2>1. UNCHANGED <<history, prevTotal, peakRPS>> /\ final' = totalReqs
    BY <1>2 DEF LoadTotal, display
  <2>2. prevTotal' <= final'
    BY <2>1 DEF IInv, Types
  <2> QED
    BY <2>1, <2>2 DEF Shown
<1>3. ASSUME \/ Load \/ LoadErrors \/ Second
             \/ \E w \in Workers : Ask(w) \/ Answer(w)
      PROVE  Shown'
  <2>1. /\ UNCHANGED <<history, prevTotal, peakRPS, final>>
        /\ stage' \in {"totalled", "reported"} => stage \in {"totalled", "reported"}
    BY <1>3 DEF Load, LoadErrors, Second, Ask, Answer, display, report
  <2> QED
    BY <2>1 DEF Shown
<1> QED
  BY <1>1, <1>2, <1>3 DEF Next, Main

(* The account of the display holds at the start, and every step keeps it. *)
LEMMA ShownInit == Init => Shown
<1> SUFFICES ASSUME Init PROVE Shown
  OBVIOUS
<1>1. history = <<>> /\ prevTotal = 0 /\ peakRPS = 0 /\ stage = "loading"
  BY DEF Init
<1>2. FoldSeq(+, 0, <<>>) = 0
  <2>1. FoldSeq(+, 0, <<>>) = SumFunctionOnSet(<<>>, DOMAIN <<>>)
    BY DEF SumFunctionOnSet, FoldFunctionOnSet, MapThenFoldSet, FoldSeq, FoldFunction
  <2>2. DOMAIN <<>> = {}
    OBVIOUS
  <2>3. SumFunctionOnSet(<<>>, {}) = 0
    BY FS_EmptySet, SumTurn
  <2> QED
    BY <2>1, <2>2, <2>3, Zenon
<1>3. SumOf(history) = prevTotal
  BY <1>1, <1>2, Zenon DEF SumOf
<1>4. Range(history) = {}
  BY <1>1 DEF Range
<1> QED
  BY <1>1, <1>3, <1>4 DEF Shown

LEMMA ShownStep == IInv /\ Shown /\ [Next]_vars => Shown'
<1>1. ASSUME Shown, UNCHANGED vars PROVE Shown'
  <2>1. UNCHANGED <<history, prevTotal, peakRPS, final, stage>>
    BY <1>1 DEF vars, display, report
  <2> QED
    BY <1>1, <2>1 DEF Shown
<1> QED
  BY <1>1, StepKeepsAccount

\* What the account needs to know of the display's variables.
DisplayTyped == history \in Seq(Nat) /\ prevTotal <= totalReqs /\ peakRPS \in Nat

(* The account is what the property says of the display.                   *)
LEMMA ShownHonest == DisplayTyped /\ Shown => HistoryHonest
<1> SUFFICES ASSUME DisplayTyped, Shown PROVE HistoryHonest
  OBVIOUS
<1>1. history \in Seq(Nat) /\ prevTotal <= totalReqs
  BY DEF DisplayTyped
<1>2. {0} \cup Range(history) \subseteq Int
  BY <1>1 DEF Range
<1>3. \A y \in {0} \cup Range(history) : y <= peakRPS
  <2>1. peakRPS \in Nat /\ 0 <= peakRPS
    BY DEF DisplayTyped
  <2>2. \A y \in Range(history) : y <= peakRPS
    BY DEF Shown
  <2> QED
    BY <2>1, <2>2
<1>4. Max({0} \cup Range(history)) = peakRPS
  <2> DEFINE set == {0} \cup Range(history)
  <2>1. set \subseteq Int /\ peakRPS \in set /\ \A y \in set : y <= peakRPS
    BY <1>2, <1>3 DEF Shown
  <2> HIDE DEF set
  <2>2. Max(set) = peakRPS
    BY <2>1, MaxIs
  <2> QED
    BY <2>2 DEF set
<1>5. /\ FoldSeq(+, 0, history) = prevTotal
      /\ stage \in {"totalled", "reported"} => prevTotal <= final
  BY Zenon DEF Shown, SumOf
<1> QED
  BY <1>1, <1>4, <1>5, Zenon DEF HistoryHonest

(* The samples of the sparkline add up to the requests counted at the last *)
(* tick, whichever ticks were dropped, and the greatest is the peak.       *)
THEOREM HonestHistory == Spec => []HistoryHonest
<1>1. IInv /\ Shown => HistoryHonest
  BY ShownHonest DEF IInv, Types, DisplayTyped
<1> QED
  BY <1>1, ShownInit, ShownStep, Invariance, PTL DEF Spec

-----------------------------------------------------------------------------
\* stress.  The bookkeeping of a worker's samples.
Note == [inside : Nat, early : 0..1, late : 0..1, hashes : Nat]

StressTypes ==
  /\ batchSize \in Nat /\ hashes \in Nat
  /\ stage \in {"loading", "no hashes", "between", "running", "tabled"}
  /\ scenario \in 0..Len(Scenarios) /\ phase \in S!Phases /\ asked \in 0..MaxAsked
  /\ worker \in [Workers -> {"ready", "done"} \cup S!Phases]
  /\ phase # "over" => \A w \in Workers : worker[w] # "done"
  /\ local \in [Workers -> Nat] /\ perWorker \in [Workers -> Nat]
  /\ answered \in [Workers -> Note]

\* A worker that has had its early answer has asked, and will ask, after the
\* warm-up only; the late one is its last.
Windows ==
  \A w \in Workers :
    /\ worker[w] = "warmup" \/ phase = "warmup"  => answered[w].early = 0
    /\ worker[w] = "measure" \/ phase # "over"   => answered[w].late = 0

\* A scenario is summarised once.
Counted ==
  /\ \E Z : summaries \in Seq(Z)
  /\ stage \in {"loading", "no hashes"} => Len(summaries) = 0 /\ scenario = 0
  /\ stage = "running"                  => Len(summaries) + 1 = scenario
  /\ stage \in {"between", "tabled"}    => Len(summaries) = scenario

StressInv == StressTypes /\ Windows /\ Counted
-----------------------------------------------------------------------------
(* The bound on the requests and the number of scenarios are numbers.      *)
LEMMA StressBounds == MaxAsked \in Nat /\ Len(Scenarios) \in Nat
<1>1. Scenarios \in Seq({"single", "bulk"})
  BY Zenon, StressAssumption
<1>2. MaxAsked \in Nat
  BY Zenon, StressAssumption
<1> QED
  BY <1>1, <1>2, LenProperties

(* The invariant holds at the start.                                       *)
LEMMA StressInit == S!Init => StressInv
<1> SUFFICES ASSUME S!Init PROVE StressInv
  OBVIOUS
<1> USE LoadAssumption, StressAssumption
<1>1. StressTypes
  BY DEF S!Init, StressTypes, S!Phases, Note, S!NoSamples
<1>2. Windows
  BY DEF S!Init, Windows, S!NoSamples
<1>3. <<>> \in Seq({}) /\ Len(<<>>) = 0
  OBVIOUS
<1>4. Counted
  BY <1>3 DEF S!Init, Counted
<1> QED
  BY <1>1, <1>2, <1>4 DEF StressInv

(* A worker's step disturbs its own note only.                             *)
LEMMA StressWork ==
  ASSUME StressInv, NEW w \in Workers, S!Work(w)
  PROVE  StressInv'
<1> USE DEF StressInv, S!opts
<1>1. stage = "running" /\ UNCHANGED <<batchSize, hashes, stage, scenario, phase, summaries>>
  BY DEF S!Work, S!Ask, S!Answer, S!Running
<1>2. Counted'
  BY <1>1 DEF Counted
<1>3. CASE S!Ask(w)
  <2>1. /\ answered' = answered /\ local' = local
        /\ worker' = [worker EXCEPT ![w] = IF phase = "over" THEN "done" ELSE phase]
    BY <1>3 DEF S!Ask
  <2>2. asked' \in 0..MaxAsked /\ perWorker' \in [Workers -> Nat]
    <3>1. CASE phase = "over"
      BY <1>3, <3>1 DEF S!Ask, StressTypes
    <3>2. CASE phase # "over"
      <4>1. asked < MaxAsked /\ asked' = asked + 1 /\ perWorker' = perWorker
        BY <1>3, <3>2 DEF S!Ask
      <4>2. asked' \in 0..MaxAsked
        <5>1. asked \in 0..MaxAsked /\ MaxAsked \in Nat
          BY StressBounds DEF StressTypes
        <5>2. asked < MaxAsked /\ asked' = asked + 1
          BY <4>1
        <5> QED
          BY <5>1, <5>2
      <4>3. perWorker' \in [Workers -> Nat]
        BY <4>1 DEF StressTypes
      <4> QED
        BY <4>2, <4>3
    <3> QED
      BY <3>1, <3>2
  <2>3. StressTypes'
    BY <1>1, <2>1, <2>2 DEF StressTypes, S!Phases
  <2>4. Windows'
    BY <1>1, <2>1 DEF StressTypes, Windows
  <2> QED
    BY <1>2, <2>3, <2>4
<1>4. CASE S!Answer(w)
  <2>1. /\ worker[w] \in S!Phases /\ worker' = [worker EXCEPT ![w] = "ready"]
        /\ UNCHANGED <<asked, perWorker>>
        /\ \/ UNCHANGED <<local, answered>>
           \/ /\ phase # "warmup" /\ local' = [local EXCEPT ![w] = @ + 1]
              /\ answered' = [answered EXCEPT ![w] = S!Noted(@, worker[w])]
    BY <1>4 DEF S!Answer
  <2>2. CASE UNCHANGED <<local, answered>>
    BY <1>1, <1>2, <2>1, <2>2 DEF StressTypes, Windows, S!Phases
  <2>3. CASE /\ phase # "warmup" /\ local' = [local EXCEPT ![w] = @ + 1]
             /\ answered' = [answered EXCEPT ![w] = S!Noted(@, worker[w])]
    <3> DEFINE new == S!Noted(answered[w], worker[w])
    <3>1. S!Requested \in Nat
      BY DEF StressTypes, S!Requested, S!PickRandom
    <3>2. /\ new.inside \in Nat /\ new.hashes \in Nat
          /\ new.early = IF worker[w] = "warmup" THEN 1 ELSE answered[w].early
          /\ new.late = IF worker[w] = "measure" /\ phase = "over" THEN 1 ELSE answered[w].late
      <4>1. answered[w] \in Note
        BY DEF StressTypes
      <4>2. /\ answered[w].inside \in Nat /\ answered[w].hashes \in Nat
            /\ answered[w].early \in 0..1 /\ answered[w].late \in 0..1
        BY <4>1 DEF Note
      <4>3. worker[w] = "warmup" => answered[w].early = 0
        BY DEF Windows
      <4>4. worker[w] = "measure" => answered[w].late = 0
        BY DEF Windows
      <4> QED
        BY <3>1, <4>2, <4>3, <4>4 DEF S!Noted
    <3>3. new \in Note
      <4>1. answered[w].early \in 0..1 /\ answered[w].late \in 0..1
        BY DEF StressTypes, Note
      <4>2. new.early \in 0..1 /\ new.late \in 0..1
        BY <3>2, <4>1
      <4>3. new = [inside |-> new.inside, early |-> new.early, late |-> new.late,
                   hashes |-> new.hashes]
        BY DEF S!Noted
      <4> QED
        BY <3>2, <4>2, <4>3 DEF Note
    <3> HIDE DEF new
    <3>4. answered' \in [Workers -> Note] /\ \A x \in Workers :
            answered'[x] = IF x = w THEN new ELSE answered[x]
      BY <2>3, <3>3 DEF StressTypes, new
    <3>5. StressTypes'
      BY <1>1, <2>1, <2>3, <3>4 DEF StressTypes, S!Phases
    <3>6. Windows'
      BY <1>1, <2>1, <2>3, <3>2, <3>4 DEF StressTypes, Windows, S!Phases
    <3> QED
      BY <1>2, <3>5, <3>6
  <2> QED
    BY <2>1, <2>2, <2>3
<1> QED
  BY <1>3, <1>4 DEF S!Work

(* The steps of main and the end of a phase.                               *)
LEMMA StressMain ==
  ASSUME StressInv, S!Main \/ S!PhaseEnds
  PROVE  StressInv'
<1> USE DEF StressInv, S!opts
<1>1. PICK Z : summaries \in Seq(Z)
  BY DEF Counted
<1>2. CASE S!Load
  BY <1>2 DEF S!Load, StressTypes, Windows, Counted
<1>3. CASE S!Start
  <2>1. CASE stage' = "running" /\ scenario' = scenario + 1 /\ scenario < Len(Scenarios) /\ S!Fresh
    <3>1. UNCHANGED <<S!opts, summaries>> /\ stage = "between"
      BY <1>3 DEF S!Start
    <3>2. StressTypes'
      BY <2>1, <3>1, StressAssumption DEF StressTypes, S!Fresh, S!Phases, Note, S!NoSamples
    <3>3. Windows'
      BY <2>1 DEF Windows, S!Fresh, S!NoSamples
    <3>4. Counted'
      BY <1>1, <2>1, <3>1 DEF Counted, StressTypes
    <3> QED
      BY <3>2, <3>3, <3>4
  <2>2. CASE stage' = "tabled"
    BY <1>3, <2>2 DEF S!Start, StressTypes, Windows, Counted
  <2> QED
    BY <1>3, <2>1, <2>2 DEF S!Start
<1>4. CASE S!Summarise
  <2>1. /\ stage = "running" /\ stage' = "between" /\ summaries' = Append(summaries, S!Summary)
        /\ UNCHANGED <<S!opts, scenario, phase, worker, local, perWorker, asked, answered>>
    BY <1>4 DEF S!Summarise
  <2>2. StressTypes' /\ Windows'
    BY <2>1 DEF StressTypes, Windows
  <2>3. summaries \in Seq(Z \cup {S!Summary})
    BY <1>1
  <2>4. summaries' \in Seq(Z \cup {S!Summary}) /\ Len(summaries') = Len(summaries) + 1
    BY <2>1, <2>3
  <2>5. Counted'
    BY <2>1, <2>4 DEF Counted, StressTypes
  <2> QED
    BY <2>2, <2>5
<1>5. CASE S!PhaseEnds
  <2>1. /\ phase' = IF phase = "warmup" THEN "measure" ELSE "over"
        /\ phase # "over" /\ UNCHANGED <<S!opts, stage, scenario, worker, local, perWorker,
                                         summaries, asked, answered>>
    BY <1>5 DEF S!PhaseEnds
  <2>2. StressTypes' /\ Counted'
    BY <2>1 DEF StressTypes, Counted, S!Phases
  <2>3. Windows'
    BY <2>1 DEF Windows, StressTypes, S!Phases
  <2> QED
    BY <2>2, <2>3
<1> QED
  BY <1>2, <1>3, <1>4, <1>5 DEF S!Main

(* Every step of stress keeps the invariant, so it holds in every reachable *)
(* state.                                                                  *)
LEMMA StressStep == StressInv /\ [S!Next]_(S!vars) => StressInv'
<1> SUFFICES ASSUME StressInv, [S!Next]_(S!vars) PROVE StressInv'
  OBVIOUS
<1>1. CASE UNCHANGED S!vars
  BY <1>1 DEF S!vars, S!opts, StressInv, StressTypes, Windows, Counted
<1>2. ASSUME NEW w \in Workers, S!Work(w) PROVE StressInv'
  BY <1>2, StressWork
<1>3. CASE S!Main \/ S!PhaseEnds
  BY <1>3, StressMain
<1> QED
  BY <1>1, <1>2, <1>3 DEF S!Next

THEOREM StressInvariance == S!Spec => []StressInv
BY StressStep, StressInit, PTL DEF S!Spec

(* What the invariant says of the types and of the samples that leak.      *)
LEMMA StressInvTyped == StressInv => S!TypeOK
<1> SUFFICES ASSUME StressInv PROVE S!TypeOK
  OBVIOUS
<1>1. PICK Z : summaries \in Seq(Z)
  BY DEF StressInv, Counted
<1>2. Len(summaries) \in Nat
  BY <1>1
<1>3. Len(summaries) <= Len(Scenarios)
  <2>1. Len(Scenarios) \in Nat /\ scenario \in 0..Len(Scenarios)
    BY StressBounds DEF StressInv, StressTypes
  <2>2. Len(summaries) = 0 \/ Len(summaries) + 1 = scenario \/ Len(summaries) = scenario
    BY DEF StressInv, StressTypes, Counted
  <2> QED
    BY <1>2, <2>1, <2>2
<1> QED
  BY <1>3 DEF StressInv, StressTypes, S!TypeOK

LEMMA StressInvLeaks == StressInv => S!LeakBounded
<1> SUFFICES ASSUME StressInv, NEW w \in Workers
             PROVE  answered[w].early <= 1 /\ answered[w].late <= 1
  BY DEF S!LeakBounded
<1>1. answered[w] \in Note
  BY DEF StressInv, StressTypes
<1> QED
  BY <1>1 DEF Note

(* stress's variables keep their types, and no worker returns before the   *)
(* deadline of its scenario.                                               *)
THEOREM StressTypeCorrect == S!Spec => []S!TypeOK
BY StressInvTyped, StressInvariance, PTL

(* At most one sample of each worker was asked for in the warm-up, and at  *)
(* most one answered after the deadline.                                   *)
THEOREM LeaksFew == S!Spec => []S!LeakBounded
BY StressInvLeaks, StressInvariance, PTL
-----------------------------------------------------------------------------
\* Of a worker's samples each is inside, early or late; and what it has handed
\* over, and what the summary adds up, are those samples.
Tallied ==
  \A w \in Workers :
    LET note == answered[w] IN
    /\ worker[w] # "over"
    /\ local[w] = note.inside + note.early + note.late
    /\ scenario > 0 =>
         /\ note.hashes = local[w] * S!Requested
         /\ w \notin S!Team(scenario) => local[w] = 0 /\ perWorker[w] = 0
    /\ worker[w] = "done" => perWorker[w] = local[w]

Summed ==
  stage = "between" /\ summaries # <<>> =>
    /\ \A w \in S!Team(scenario) : worker[w] = "done"
    /\ Last(summaries) = S!Summary

(* What one request asks for is a number.                                  *)
LEMMA RequestedType == StressInv => S!Requested \in Nat /\ batchSize \in Nat /\ hashes \in Nat
BY DEF StressInv, StressTypes, S!Requested, S!PickRandom

(* One sample more, of the phase its request was sent in.                  *)
LEMMA OneSample ==
  ASSUME NEW note \in Note, NEW since \in {"warmup", "measure"}, StressInv, phase # "warmup"
  PROVE  LET new == S!Noted(note, since) IN
         /\ new.inside + new.early + new.late = note.inside + note.early + note.late + 1
         /\ new.hashes = note.hashes + S!Requested
<1>1. /\ note.inside \in Nat /\ note.early \in 0..1 /\ note.late \in 0..1
      /\ phase \in {"measure", "over"}
  BY DEF Note, StressInv, StressTypes, S!Phases
<1> QED
  BY <1>1 DEF S!Noted

(* A worker's step keeps the tally.                                        *)
LEMMA TallyWork ==
  ASSUME StressInv, Tallied, NEW w \in Workers, S!Work(w)
  PROVE  Tallied' /\ Summed'
<1>1. /\ stage = "running" /\ w \in S!Team(scenario)
      /\ UNCHANGED <<batchSize, hashes, stage, scenario, phase, summaries>>
  BY DEF S!Work, S!Ask, S!Answer, S!Running, S!opts
<1>2. S!Requested' = S!Requested /\ S!Team(scenario') = S!Team(scenario)
  BY <1>1 DEF S!Requested
<1>3. Summed'
  BY <1>1 DEF Summed
<1>4. /\ worker \in [Workers -> {"ready", "done"} \cup S!Phases]
      /\ local \in [Workers -> Nat] /\ perWorker \in [Workers -> Nat]
      /\ answered \in [Workers -> Note] /\ phase \in {"warmup", "measure", "over"}
  BY DEF StressInv, StressTypes, S!Phases
<1>5. CASE S!Ask(w)
  <2>1. /\ answered' = answered /\ local' = local
        /\ \/ /\ worker' = [worker EXCEPT ![w] = "done"]
              /\ perWorker' = [perWorker EXCEPT ![w] = local[w]]
           \/ /\ worker' = [worker EXCEPT ![w] = phase] /\ phase # "over"
              /\ perWorker' = perWorker
    BY <1>5 DEF S!Ask
  <2>2. ASSUME NEW x \in Workers
        PROVE  /\ worker'[x] # "over"
               /\ worker'[x] = "done" => perWorker'[x] = local[x]
               /\ x # w => perWorker'[x] = perWorker[x]
    BY <1>4, <2>1 DEF Tallied
  <2>3. Tallied'
    BY <1>1, <1>2, <2>1, <2>2 DEF Tallied
  <2> QED
    BY <1>3, <2>3
<1>6. CASE S!Answer(w)
  <2>1. /\ worker[w] \in S!Phases /\ worker' = [worker EXCEPT ![w] = "ready"]
        /\ perWorker' = perWorker
        /\ \/ UNCHANGED <<local, answered>>
           \/ /\ phase # "warmup" /\ local' = [local EXCEPT ![w] = @ + 1]
              /\ answered' = [answered EXCEPT ![w] = S!Noted(@, worker[w])]
    BY <1>6 DEF S!Answer
  <2>2. CASE UNCHANGED <<local, answered>>
    BY <1>1, <1>2, <1>3, <1>4, <2>1, <2>2 DEF Tallied
  <2>3. CASE /\ phase # "warmup" /\ local' = [local EXCEPT ![w] = @ + 1]
             /\ answered' = [answered EXCEPT ![w] = S!Noted(@, worker[w])]
    <3> DEFINE note == answered[w]
               new  == S!Noted(answered[w], worker[w])
               R    == S!Requested
    <3>1. worker[w] \in {"warmup", "measure"} /\ note \in Note
      BY <1>4, <2>1 DEF Tallied, S!Phases
    <3>2. /\ new.inside + new.early + new.late = note.inside + note.early + note.late + 1
          /\ new.hashes = note.hashes + R
      BY <2>3, <3>1, OneSample
    <3>3. /\ local[w] = note.inside + note.early + note.late
          /\ scenario > 0 => note.hashes = local[w] * R
      BY DEF Tallied
    <3>4. local[w] \in Nat /\ R \in Nat
      BY <1>4, RequestedType
    <3>5. answered'[w] = new /\ local'[w] = local[w] + 1
          /\ \A x \in Workers \ {w} : answered'[x] = answered[x] /\ local'[x] = local[x]
      BY <1>4, <2>3
    <3> HIDE DEF note, new, R
    <3>6. (local[w] + 1) * R = local[w] * R + R
      BY <3>4
    <3>7. /\ local'[w] = new.inside + new.early + new.late
          /\ scenario > 0 => new.hashes = local'[w] * R
      BY <3>2, <3>3, <3>4, <3>5, <3>6
    <3>8. /\ worker'[w] = "ready"
          /\ \A x \in Workers \ {w} : worker'[x] = worker[x]
      BY <1>4, <2>1
    <3>9. S!Requested' = R
      BY <1>2 DEF R
    <3>10. ASSUME NEW x \in Workers
           PROVE  /\ worker'[x] # "over"
                  /\ local'[x] = answered'[x].inside + answered'[x].early + answered'[x].late
                  /\ scenario > 0 =>
                       /\ answered'[x].hashes = local'[x] * R
                       /\ x \notin S!Team(scenario) => local'[x] = 0 /\ perWorker'[x] = 0
                  /\ worker'[x] = "done" => perWorker'[x] = local'[x]
      <4>1. CASE x = w
        BY <1>1, <3>5, <3>7, <3>8, <4>1
      <4>2. CASE x # w
        BY <2>1, <3>5, <3>8, <4>2 DEF Tallied, R
      <4> QED
        BY <4>1, <4>2
    <3>11. Tallied'
      BY <1>1, <1>2, <3>9, <3>10 DEF Tallied
    <3> QED
      BY <1>3, <3>11
  <2> QED
    BY <2>1, <2>2, <2>3
<1> QED
  BY <1>5, <1>6 DEF S!Work

(* The steps of main and the end of a phase keep it.                       *)
LEMMA TallyMain ==
  ASSUME StressInv, Tallied, Summed, S!Main \/ S!PhaseEnds
  PROVE  Tallied' /\ Summed'
<1>1. PICK Z : summaries \in Seq(Z)
  BY DEF StressInv, Counted
<1>2. ASSUME UNCHANGED <<batchSize, hashes, scenario, worker, local, perWorker, answered>>
      PROVE  Tallied'
  <2>1. S!Requested' = S!Requested /\ S!Team(scenario') = S!Team(scenario)
    BY <1>2 DEF S!Requested
  <2> QED
    BY <1>2, <2>1 DEF Tallied
<1>3. CASE S!Load
  <2>1. summaries = <<>>
    <3>1. Len(summaries) = 0
      BY <1>3 DEF S!Load, StressInv, Counted
    <3> QED
      BY <1>1, <3>1
  <2>2. Summed'
    BY <1>3, <2>1 DEF S!Load, Summed
  <2> QED
    BY <1>2, <1>3, <2>2 DEF S!Load, S!opts
<1>4. CASE S!Start
  <2>1. CASE S!Fresh /\ stage' = "running"
    <3>1. \A x \in Workers : /\ worker'[x] = "ready" /\ local'[x] = 0 /\ perWorker'[x] = 0
                             /\ answered'[x] = S!NoSamples
      BY <2>1 DEF S!Fresh
    <3>2. S!Requested' \in Nat
      <4>1. batchSize' \in Nat /\ hashes' \in Nat
        BY <1>4, RequestedType DEF S!Start, S!opts
      <4> QED
        BY <4>1 DEF S!Requested, S!PickRandom
    <3> DEFINE next == S!Requested'
    <3>3. 0 * next = 0
      <4>1. next \in Nat
        BY <3>2
      <4> HIDE DEF next
      <4> QED
        BY <4>1
    <3>4. Tallied'
      BY <3>1, <3>3 DEF Tallied, S!NoSamples
    <3> QED
      BY <2>1, <3>4 DEF Summed
  <2>2. CASE /\ stage' = "tabled"
             /\ UNCHANGED <<batchSize, hashes, scenario, worker, local, perWorker, answered>>
    BY <1>2, <2>2 DEF Summed
  <2> QED
    BY <1>4, <2>1, <2>2 DEF S!Start, S!opts
<1>5. CASE S!Summarise
  <2>1. /\ stage' = "between" /\ summaries' = Append(summaries, S!Summary)
        /\ UNCHANGED <<batchSize, hashes, scenario, worker, local, perWorker, answered>>
        /\ \A w \in S!Team(scenario) : worker[w] = "done"
    BY <1>5 DEF S!Summarise, S!opts
  <2>2. S!Summary' = S!Summary /\ S!Team(scenario') = S!Team(scenario)
    BY <2>1 DEF S!Summary
  <2>3. Last(Append(summaries, S!Summary)) = S!Summary
    <3> DEFINE one == S!Summary
               longer == Append(summaries, one)
    <3>1. summaries \in Seq(Z \cup {one})
      BY <1>1
    <3> HIDE DEF one
    <3>2. Len(longer) = Len(summaries) + 1 /\ longer[Len(summaries) + 1] = one
      BY <3>1
    <3> QED
      BY <3>2 DEF Last, one
  <2>4. Summed'
    BY <2>1, <2>2, <2>3 DEF Summed
  <2> QED
    BY <1>2, <2>1, <2>4
<1>6. CASE S!PhaseEnds
  BY <1>2, <1>6 DEF S!PhaseEnds, S!opts, Summed
<1> QED
  BY <1>3, <1>4, <1>5, <1>6 DEF S!Main

(* The tally holds at the start and is kept by every step.                 *)
LEMMA TallyInit == S!Init => Tallied /\ Summed
<1> SUFFICES ASSUME S!Init PROVE Tallied /\ Summed
  OBVIOUS
<1>1. \A x \in Workers : /\ worker[x] = "ready" /\ local[x] = 0 /\ perWorker[x] = 0
                         /\ answered[x] = S!NoSamples
  BY DEF S!Init
<1>2. scenario = 0 /\ stage = "loading"
  BY DEF S!Init
<1> QED
  BY <1>1, <1>2 DEF Tallied, Summed, S!NoSamples

LEMMA TallyStep ==
  StressInv /\ Tallied /\ Summed /\ [S!Next]_(S!vars) => (Tallied /\ Summed)'
<1>1. ASSUME StressInv, Tallied, Summed, NEW w \in Workers, S!Work(w) PROVE (Tallied /\ Summed)'
  BY <1>1, TallyWork
<1>2. ASSUME StressInv, Tallied, Summed, S!Main \/ S!PhaseEnds PROVE (Tallied /\ Summed)'
  BY <1>2, TallyMain
<1>3. ASSUME StressInv, Tallied, Summed, UNCHANGED S!vars PROVE (Tallied /\ Summed)'
  <2>1. UNCHANGED <<batchSize, hashes, stage, scenario, worker, local, perWorker, summaries,
                    answered>>
    BY <1>3 DEF S!vars, S!opts
  <2>2. /\ S!Requested' = S!Requested /\ S!Team(scenario') = S!Team(scenario)
        /\ S!Summary' = S!Summary
    BY <2>1 DEF S!Requested, S!Summary
  <2> QED
    BY <1>3, <2>1, <2>2 DEF Tallied, Summed
<1> QED
  BY <1>1, <1>2, <1>3 DEF S!Next

(* A product grows with its factor.                                        *)
LEMMA TimesMore ==
  ASSUME NEW a \in Nat, NEW b \in Nat, NEW c \in Nat, b <= c
  PROVE  a * b <= a * c
<1>1. a * (c - b) = a * c - a * b /\ a * (c - b) >= 0
  BY Z3
<1> QED
  BY <1>1, Z3

(* What the tally says of the last summary: every sample of every worker   *)
(* of its scenario is in it and no other.                                  *)
LEMMA TallyExact == StressInv /\ Tallied /\ Summed => S!SummaryExact
<1> SUFFICES ASSUME StressInv, Tallied, Summed, stage = "between", summaries # <<>>
             PROVE  S!SummaryExact
  BY DEF S!SummaryExact
<1> DEFINE of(field) == SumFunctionOnSet([w \in Workers |-> answered[w][field]], Workers)
           Sof(field) == S!SumFunctionOnSet([w \in Workers |-> answered[w][field]], Workers)
           T == S!Team(scenario)
           total == SumFunctionOnSet(perWorker, T)
           R == S!Requested
<1>1. \A f, D : S!SumFunctionOnSet(f, D) = SumFunctionOnSet(f, D)
  BY DEF S!SumFunctionOnSet, SumFunctionOnSet, S!FoldFunctionOnSet, FoldFunctionOnSet,
         S!MapThenFoldSet, MapThenFoldSet
<1>2. Len(summaries) = scenario /\ scenario > 0 /\ scenario \in Nat
  <2>1. PICK Z : summaries \in Seq(Z)
    BY DEF StressInv, Counted
  <2>2. Len(summaries) \in Nat \ {0}
    BY <2>1
  <2>3. Len(summaries) = scenario
    BY DEF StressInv, Counted
  <2> QED
    BY <2>2, <2>3
<1>3. /\ IsFiniteSet(Workers) /\ T \in SUBSET Workers /\ IsFiniteSet(T)
  BY LoadAssumption, StressAssumption, FS_Subset DEF S!Team
<1>4. ASSUME NEW w \in Workers
      PROVE  /\ answered[w].inside \in Nat /\ answered[w].early \in Nat
             /\ answered[w].late \in Nat /\ answered[w].hashes \in Nat
             /\ local[w] \in Nat /\ perWorker[w] \in Nat
  <2>1. answered[w] \in Note /\ local[w] \in Nat /\ perWorker[w] \in Nat
    BY DEF StressInv, StressTypes
  <2>2. 0..1 \subseteq Nat
    OBVIOUS
  <2> QED
    BY <2>1, <2>2 DEF Note
<1>5. R \in Nat /\ batchSize \in Nat /\ hashes \in Nat
  BY RequestedType
<1>6. total = SumFunctionOnSet(local, Workers) /\ total \in Nat
  <2>1. \A w \in T : perWorker[w] \in Nat /\ perWorker[w] = local[w]
    BY <1>3, <1>4 DEF Tallied, Summed
  <2> HIDE DEF T
  <2>2. total = SumFunctionOnSet(local, T)
    BY <1>3, <2>1, SumSame
  <2>3. \A w \in Workers \ T : local[w] = 0
    BY <1>2 DEF Tallied, T
  <2>4. SumFunctionOnSet(local, Workers) = SumFunctionOnSet(local, T)
    BY <1>3, <1>4, <2>3, SumZero
  <2>5. T \in SUBSET T /\ \A w \in T : perWorker[w] \in Nat
    BY <2>1
  <2>6. total \in Nat
    BY <1>3, <2>5, SumType
  <2> QED
    BY <2>2, <2>4, <2>6
<1>7. total = of("inside") + of("early") + of("late")
  <2> DEFINE in == [w \in Workers |-> answered[w]["inside"]]
             ea == [w \in Workers |-> answered[w]["early"]]
             la == [w \in Workers |-> answered[w]["late"]]
             il == [w \in Workers |-> answered[w]["inside"] + answered[w]["early"]]
  <2>1. \A w \in Workers : /\ in[w] \in Nat /\ ea[w] \in Nat /\ la[w] \in Nat /\ il[w] \in Nat
                           /\ il[w] = in[w] + ea[w] /\ local[w] = il[w] + la[w]
    BY <1>4 DEF Tallied
  <2> HIDE DEF in, ea, la, il
  <2>2. SumFunctionOnSet(il, Workers) = SumFunctionOnSet(in, Workers) + SumFunctionOnSet(ea, Workers)
    BY <1>3, <2>1, SumPlus
  <2>3. SumFunctionOnSet(local, Workers) = SumFunctionOnSet(il, Workers) + SumFunctionOnSet(la, Workers)
    BY <1>3, <2>1, SumPlus
  <2> QED
    BY <1>6, <2>2, <2>3 DEF in, ea, la
<1>8. of("hashes") = total * R
  <2> DEFINE ha == [w \in Workers |-> answered[w]["hashes"]]
  <2>1. \A w \in Workers : local[w] \in Nat /\ ha[w] = local[w] * R
    BY <1>2, <1>4 DEF Tallied
  <2> HIDE DEF ha, R
  <2>2. SumFunctionOnSet(ha, Workers) = SumFunctionOnSet(local, Workers) * R
    BY <1>3, <1>5, <2>1, SumTimes
  <2> QED
    BY <1>6, <2>2 DEF ha
<1> DEFINE sums == [total |-> total, hashes |-> IF Scenarios[scenario] = "bulk" THEN total * batchSize ELSE total]
<1>9. Last(summaries) = sums
  BY <1>1 DEF Summed, S!Summary
<1>10. /\ total * 1 = total
       /\ hashes <= batchSize => total * hashes <= total * batchSize
  BY <1>5, <1>6, TimesMore
<1>11. IF Scenarios[scenario] = "single" \/ batchSize <= hashes
         THEN sums.hashes = of("hashes")
         ELSE sums.hashes >= of("hashes")
  <2> HIDE DEF total, of
  <2>1. CASE Scenarios[scenario] = "bulk"
    <3>1. R = IF batchSize >= hashes THEN hashes ELSE batchSize
      BY <2>1 DEF S!PickRandom, S!Requested
    <3>2. sums.hashes = total * batchSize
      BY <2>1
    <3> HIDE DEF R, sums
    <3>3. CASE batchSize <= hashes
      BY <1>5, <1>8, <3>1, <3>2, <3>3
    <3>4. CASE ~(batchSize <= hashes)
      <4>1. R = hashes /\ hashes <= batchSize
        BY <1>5, <3>1, <3>4
      <4>2. of("hashes") = total * hashes /\ total * hashes <= total * batchSize
        BY <1>8, <1>10, <4>1
      <4>3. total * hashes \in Nat /\ total * batchSize \in Nat
        BY <1>5, <1>6
      <4>4. sums.hashes >= of("hashes")
        BY <3>2, <4>2, <4>3
      <4> QED
        BY <2>1, <3>4, <4>4
    <3> QED
      BY <3>3, <3>4
  <2>2. CASE Scenarios[scenario] # "bulk"
    <3>1. R = 1 /\ sums.hashes = total
      BY <2>2 DEF S!Requested
    <3>2. of("hashes") = total
      BY <1>8, <1>10, <3>1
    <3>3. sums.hashes >= of("hashes")
      BY <1>6, <3>1, <3>2
    <3> QED
      BY <3>1, <3>2, <3>3
  <2> QED
    BY <2>1, <2>2
<1>12. sums.total = total
  OBVIOUS
<1> HIDE DEF sums, total
<1>13. of("inside") = Sof("inside") /\ of("early") = Sof("early") /\ of("late") = Sof("late")
       /\ of("hashes") = Sof("hashes")
  BY <1>1
<1>14. S!Last(summaries) = sums
  BY <1>9 DEF S!Last, Last
<1>15. /\ sums.total = Sof("inside") + Sof("early") + Sof("late")
       /\ IF Scenarios[scenario] = "single" \/ batchSize <= hashes
            THEN sums.hashes = Sof("hashes")
            ELSE sums.hashes >= Sof("hashes")
  BY <1>7, <1>11, <1>12, <1>13
<1> QED
  BY <1>2, <1>14, <1>15 DEF S!SummaryExact

(* A summary has every sample of every worker of its scenario and no       *)
(* other, and its rate of hashes is that of the hashes sent, unless the    *)
(* file is shorter than a batch: then it is at least that.                 *)
THEOREM ExactSummaries == S!Spec => []S!SummaryExact
BY TallyInit, TallyStep, TallyExact, StressStep, StressInit, PTL DEF S!Spec
-----------------------------------------------------------------------------
\* The two programs together: the invariant of the one that runs.
Account == Tallied /\ Summed

OfTheOneThatRuns ==
  /\ program = "blitz"  => IInv
  /\ program = "stress" => StressInv /\ Account
  /\ program \in {"blitz", "stress"}
  /\ Shown /\ DisplayTyped

(* It holds at the start, and the steps of the one leave the other alone.  *)
THEOREM EitherInvariance == Either => []OfTheOneThatRuns
<1>1. StartUp => OfTheOneThatRuns
  <2>1. StartUp => Shown /\ DisplayTyped
    BY InitIInv, ShownInit DEF StartUp, IInv, Types, DisplayTyped
  <2> QED
    BY <2>1, InitIInv, StressInit, TallyInit DEF StartUp, OfTheOneThatRuns, Account
<1>2. OfTheOneThatRuns /\ [Step]_both => OfTheOneThatRuns'
  <2> SUFFICES ASSUME OfTheOneThatRuns, [Step]_both PROVE OfTheOneThatRuns'
    OBVIOUS
  <2>1. CASE Blitzing(Next)
    <3>1. IInv' /\ program' = "blitz"
      BY <2>1, BlitzStep DEF Blitzing, OfTheOneThatRuns
    <3>2. Shown'
      BY <2>1, ShownStep DEF Blitzing, OfTheOneThatRuns
    <3> QED
      BY <3>1, <3>2 DEF OfTheOneThatRuns, IInv, Types, DisplayTyped
  <2>2. CASE Stressing(S!Next)
    <3>1. StressInv' /\ Account' /\ program' = "stress"
      BY <2>2, StressStep, TallyStep DEF Stressing, OfTheOneThatRuns, Account
    <3>2. UNCHANGED <<history, prevTotal, peakRPS, totalReqs, final>>
      BY <2>2 DEF Stressing, ofBlitz, counters, display, report
    <3>3. stage' \notin {"totalled", "reported"}
      BY <3>1 DEF StressInv, StressTypes
    <3>4. Shown' /\ DisplayTyped'
      BY <3>2, <3>3 DEF OfTheOneThatRuns, Shown, DisplayTyped
    <3> QED
      BY <3>1, <3>4 DEF OfTheOneThatRuns
  <2>3. CASE UNCHANGED both
    <3>1. UNCHANGED vars /\ UNCHANGED S!vars /\ program' = program
      BY <2>3 DEF both, ofBlitz, ofStress, vars, opts, S!vars, S!opts
    <3>2. IInv => IInv'
      BY <3>1, BlitzStep
    <3>3. StressInv /\ Account => StressInv' /\ Account'
      BY <3>1, StressStep, TallyStep DEF Account
    <3>4. Shown' /\ DisplayTyped'
      <4>1. UNCHANGED <<history, prevTotal, peakRPS, totalReqs, final, stage>>
        BY <3>1 DEF vars, counters, display, report
      <4> QED
        BY <4>1 DEF OfTheOneThatRuns, Shown, DisplayTyped
    <3> QED
      BY <3>1, <3>2, <3>3, <3>4 DEF OfTheOneThatRuns
  <2> QED
    BY <2>1, <2>2, <2>3 DEF Step
<1> QED
  BY <1>1, <1>2, PTL DEF Either

(* Whichever runs keeps the types of its variables, and none of its workers *)
(* returns before its time.                                                *)
THEOREM EitherTypeCorrect == Either => []TypesKept
<1>1. OfTheOneThatRuns => TypesKept
  BY StressInvTyped DEF OfTheOneThatRuns, TypesKept, IInv, Types, TypeOK
<1> QED
  BY <1>1, EitherInvariance, PTL

(* The report of blitz leaves out at most one request of each worker.      *)
THEOREM EitherMissesFew == Either => []MissingBounded
<1>1. OfTheOneThatRuns => MissingBounded
  BY StressInvTyped DEF OfTheOneThatRuns, S!TypeOK, MissingBounded, IInv, Accounted
<1> QED
  BY <1>1, EitherInvariance, PTL

(* The workers of blitz get the whole of --duration, a second more at most.*)
THEOREM EitherStopsInTime == Either => []RunsItsTime
<1>1. OfTheOneThatRuns => RunsItsTime
  BY StressInvTyped DEF OfTheOneThatRuns, S!TypeOK, RunsItsTime, IInv, Paced
<1> QED
  BY <1>1, EitherInvariance, PTL

(* What blitz displays adds up to what it counted.                         *)
THEOREM EitherHonestHistory == Either => []HistoryHonest
<1>1. OfTheOneThatRuns => HistoryHonest
  BY ShownHonest DEF OfTheOneThatRuns
<1> QED
  BY <1>1, EitherInvariance, PTL

(* Of the requests stress sends in the warm-up, and of those answered past *)
(* the deadline, at most one of each worker is counted.                    *)
THEOREM EitherLeaksFew == Either => []LeakBounded
<1>1. OfTheOneThatRuns => LeakBounded
  BY StressInvLeaks DEF OfTheOneThatRuns, LeakBounded
<1> QED
  BY <1>1, EitherInvariance, PTL

(* The summaries of stress have every sample of every worker and no other. *)
THEOREM EitherSummarises == Either => []SummaryExact
<1>1. OfTheOneThatRuns => SummaryExact
  BY TallyExact DEF OfTheOneThatRuns, SummaryExact, Account
<1> QED
  BY <1>1, EitherInvariance, PTL
=============================================================================
