--------------------------- MODULE HandlersProofs ---------------------------
(***************************************************************************)
(* For any number of connections, requests, hashes and slots, and any      *)
(* database: the handlers' types, the bound on lookups in flight, the      *)
(* absence of orphans, and the completeness of bulk results.               *)
(***************************************************************************)
EXTENDS Handlers, FiniteSetTheorems, SequenceTheorems, TLAPS

(* Every outcome without an error is the stored record of a key.           *)
LEMMA LookupHits ==
  ASSUME NEW t, NEW o \in Lookup(t), o.err = "nil"
  PROVE  Present(o.details) \in Result
<1> DEFINE key == HashToKey(t)
<1>1. Failure("wrapped ErrInvalidHash").err # "nil"
  BY DEF Failure
<1>2. Failure("ErrNotFound").err # "nil" /\ Failure("wrapped read error").err # "nil"
  BY DEF Failure
<1>3. key # NoKey
  BY <1>1 DEF Lookup
<1>4. key \in Stored /\ o = Hit(key)
  BY <1>2, <1>3 DEF Lookup
<1> QED
  BY <1>4 DEF Hit, Result

(* A sequence is a sequence of its own elements, and has an interval of    *)
(* the naturals for its domain.                                            *)
LEMMA SeqOfItsRange ==
  ASSUME NEW S, NEW s \in Seq(S)
  PROVE  s \in Seq(Range(s)) /\ Len(s) \in Nat /\ DOMAIN s = 1..Len(s)
<1>1. Len(s) \in Nat /\ DOMAIN s = 1..Len(s) /\ s \in [1..Len(s) -> S]
  BY LenProperties
<1>2. s \in [1..Len(s) -> Range(s)]
  BY <1>1 DEF Range
<1> QED
  BY <1>1, <1>2, SeqDef

(* What is left of the lines of a file is a sequence.                      *)
LEMMA ParsedIsSeq ==
  ASSUME NEW S, NEW lines \in Seq(S)
  PROVE  LET hashes == ParseHashLines(lines) IN hashes \in Seq(Range(hashes))
<1> DEFINE text(i) == TrimSpace(lines[i])
           kept    == {i \in DOMAIN lines : ~IsEmpty(text(i))}
           nth(n)  == CHOOSE i \in kept : Cardinality({j \in kept : j <= i}) = n
           parsed  == [n \in 1..Cardinality(kept) |-> text(nth(n))]
<1>1. Cardinality(kept) \in Nat
  <2>1. IsFiniteSet(DOMAIN lines)
    BY SeqOfItsRange, FS_Interval
  <2>2. kept \in SUBSET DOMAIN lines
    OBVIOUS
  <2> QED
    BY <2>1, <2>2, FS_Subset, FS_CardinalityType
<1> HIDE DEF kept, nth
<1>2. parsed \in [1..Cardinality(kept) -> Range(parsed)]
  BY DEF Range
<1>3. parsed \in Seq(Range(parsed))
  BY <1>1, <1>2, SeqDef
<1> QED
  BY <1>3 DEF ParseHashLines, kept, nth
-----------------------------------------------------------------------------
(* The goroutines that hold a slot, and those of one request, are finitely *)
(* many.                                                                   *)
LEMMA FiniteParts ==
  ASSUME IsFiniteSet(Goroutines)
  PROVE  /\ IsFiniteSet(looking \cup holding)
         /\ \A c : IsFiniteSet(Spawned(c))
<1>1. looking \cup holding \in SUBSET Goroutines
  BY DEF Goroutines
<1>2. \A c : Spawned(c) \in SUBSET Goroutines
  BY DEF Spawned
<1> QED
  BY <1>1, <1>2, FS_Subset

(* The invariant holds at the start.                                       *)
LEMMA InitIInv == Init => IInv
<1> SUFFICES ASSUME Init PROVE IInv
  OBVIOUS
<1>1. Goroutines = {} /\ \A c : Spawned(c) = {}
  BY DEF Init, Goroutines, Spawned
<1>2. IsFiniteSet({}) /\ Cardinality({}) = 0
  BY FS_EmptySet
<1>3. \A c \in Conns : batch[c] = <<>> /\ <<>> \in Seq(Range(<<>>))
                       /\ DOMAIN batch[c] = {} /\ Len(batch[c]) = 0
  BY EmptySeq, LenProperties DEF Init
<1>4. TypeOK
  <2>1. \A c \in Conns : results[c] \in [DOMAIN batch[c] -> Result]
    BY <1>3 DEF Init
  <2> QED
    BY <1>3, <2>1, HandlersAssumption DEF Init, TypeOK
<1>5. LookupsBounded
  BY <1>2, HandlersAssumption DEF LookupsBounded, Init
<1>6. NoOrphans /\ IsFiniteSet(Goroutines) /\ PhasesDisjoint
  BY <1>1, <1>2 DEF NoOrphans, PhasesDisjoint, Init
<1>7. WaitGroupCounts
  BY <1>1, <1>2 DEF WaitGroupCounts, Init
<1>8. /\ Dispatched
      /\ \A c \in Conns : next[c] <= Len(batch[c]) + 1 /\ pc[c] = "idle" /\ req[c] = NoRequest
  BY <1>3 DEF Dispatched, Init
<1> QED
  BY <1>4, <1>5, <1>6, <1>7, <1>8 DEF IInv, Init
-----------------------------------------------------------------------------
(* A connection that takes a request has no goroutine and keeps none.      *)
LEMMA ReceiveIInv ==
  ASSUME IInv, NEW c \in Conns, NEW q \in Requests, Receive(c, q)
  PROVE  IInv'
<1> USE DEF IInv, Receive, frame, goroutines
<1>1. TypeOK'
  BY DEF TypeOK
<1>2. Goroutines' = Goroutines /\ \A d : Spawned(d)' = Spawned(d)
  BY DEF Goroutines, Spawned
<1>3. NoOrphans'
  BY <1>2 DEF NoOrphans, TypeOK, Goroutines, Goroutine
<1>4. LookupsBounded' /\ PhasesDisjoint' /\ IsFiniteSet(Goroutines)'
  BY <1>2 DEF LookupsBounded, PhasesDisjoint
<1>5. WaitGroupCounts' /\ Dispatched'
  BY <1>2 DEF WaitGroupCounts, Dispatched
<1>6. \A d \in Conns : pc'[d] = "idle" <=> req'[d] = NoRequest
  BY HandlersAssumption DEF TypeOK
<1> QED
  BY <1>1, <1>3, <1>4, <1>5, <1>6

(* A handler that returns when its request has no goroutine left leaves    *)
(* nothing behind.                                                         *)
LEMMA RespondIInv ==
  ASSUME IInv, NEW c \in Conns, NEW reply, Spawned(c) = {}, Respond(c, reply)
  PROVE  IInv'
<1> USE DEF IInv, Respond, goroutines
<1>1. <<>> \in Seq(Range(<<>>)) /\ DOMAIN <<>> = {} /\ Len(<<>>) = 0
  BY EmptySeq, LenProperties
<1>2. TypeOK'
  <2>1. <<>> \in [{} -> Result]
    <3>1. <<>> \in [1..0 -> Result]
      BY EmptySeq, LenProperties
    <3> QED
      BY <3>1
  <2>2. \A d \in Conns : batch'[d] = (IF d = c THEN <<>> ELSE batch[d])
                         /\ results'[d] = (IF d = c THEN <<>> ELSE results[d])
    BY DEF TypeOK
  <2>3. \A d \in Conns : batch'[d] \in Seq(Range(batch'[d]))
                         /\ results'[d] \in [DOMAIN batch'[d] -> Result]
    <3> TAKE d \in Conns
    <3>1. CASE d = c
      BY <1>1, <2>1, <2>2, <3>1
    <3>2. CASE d # c
      BY <2>2, <3>2 DEF TypeOK
    <3> QED
      BY <3>1, <3>2
  <2> QED
    BY <2>3 DEF TypeOK
<1>3. Goroutines' = Goroutines /\ \A d : Spawned(d)' = Spawned(d)
  BY DEF Goroutines, Spawned
<1>4. NoOrphans'
  <2> SUFFICES ASSUME NEW g \in Goroutines
               PROVE  pc'[g[1]] = "bulk" /\ g[2] < next'[g[1]]
    BY <1>3 DEF NoOrphans
  <2>1. g[1] # c /\ g[1] \in Conns
    BY DEF Spawned, Goroutines, TypeOK, Goroutine
  <2> QED
    BY <2>1 DEF NoOrphans, TypeOK
<1>5. LookupsBounded' /\ PhasesDisjoint' /\ IsFiniteSet(Goroutines)'
  BY <1>3 DEF LookupsBounded, PhasesDisjoint
<1>6. WaitGroupCounts'
  BY <1>3, FS_EmptySet DEF WaitGroupCounts, TypeOK
<1>7. Dispatched' /\ \A d \in Conns : next'[d] <= Len(batch'[d]) + 1
  BY <1>1 DEF Dispatched, TypeOK
<1>8. \A g \in looking' : g[2] \in DOMAIN batch'[g[1]]
  BY DEF Spawned, Goroutines, TypeOK, Goroutine
<1>9. \A d \in Conns : pc'[d] = "idle" <=> req'[d] = NoRequest
  BY DEF TypeOK
<1> QED
  BY <1>2, <1>4, <1>5, <1>6, <1>7, <1>8, <1>9

(* processBulk starts with an empty results slice and nothing dispatched.  *)
LEMMA ProcessBulkIInv ==
  ASSUME IInv, NEW c \in Conns, pc[c] = "routing",
         NEW S, NEW hashes \in Seq(S), ProcessBulk(c, hashes)
  PROVE  IInv'
<1> USE DEF IInv, ProcessBulk, goroutines
<1>1. hashes \in Seq(Range(hashes)) /\ Len(hashes) \in Nat /\ DOMAIN hashes = 1..Len(hashes)
  BY SeqOfItsRange
<1>2. TypeOK'
  <2>1. [i \in DOMAIN hashes |-> Absent] \in [DOMAIN hashes -> Result]
    BY DEF Result
  <2>2. \A d \in Conns : batch'[d] \in Seq(Range(batch'[d]))
                         /\ results'[d] \in [DOMAIN batch'[d] -> Result]
    BY <1>1, <2>1 DEF TypeOK
  <2> QED
    BY <2>2 DEF TypeOK
<1>3. Goroutines' = Goroutines /\ \A d : Spawned(d)' = Spawned(d)
  BY DEF Goroutines, Spawned
<1>4. \A g \in Goroutines : g[1] # c /\ g[1] \in Conns
  BY DEF NoOrphans, Goroutines, TypeOK, Goroutine
<1>5. NoOrphans'
  BY <1>3, <1>4 DEF NoOrphans, TypeOK
<1>6. LookupsBounded' /\ PhasesDisjoint' /\ IsFiniteSet(Goroutines)'
  BY <1>3 DEF LookupsBounded, PhasesDisjoint
<1>7. WaitGroupCounts'
  <2>1. Spawned(c) = {}
    BY <1>4 DEF Spawned
  <2> QED
    BY <1>3, <2>1, FS_EmptySet DEF WaitGroupCounts, TypeOK
<1>8. Dispatched' /\ \A d \in Conns : next'[d] <= Len(batch'[d]) + 1
  BY <1>1 DEF Dispatched, TypeOK
<1>9. \A g \in looking' : g[2] \in DOMAIN batch'[g[1]]
  BY <1>4 DEF Goroutines, TypeOK
<1>10. \A d \in Conns : pc'[d] = "idle" <=> req'[d] = NoRequest
  BY DEF TypeOK
<1> QED
  BY <1>2, <1>5, <1>6, <1>7, <1>8, <1>9, <1>10
-----------------------------------------------------------------------------
(* A dispatch takes a free slot for a goroutine that did not exist.        *)
LEMMA DispatchIInv ==
  ASSUME IInv, NEW c \in Conns, Dispatch(c)
  PROVE  IInv'
<1> DEFINE g == <<c, next[c]>>
<1> USE DEF IInv, Dispatch
<1>1. g \in Goroutine /\ g \notin Goroutines
  BY DEF NoOrphans, TypeOK, Goroutine
<1>2. /\ Goroutines' = Goroutines \cup {g}
      /\ \A d \in Conns : Spawned(d)' = IF d = c THEN Spawned(d) \cup {g} ELSE Spawned(d)
      /\ (looking \cup holding)' = (looking \cup holding) \cup {g}
  BY DEF Goroutines, Spawned
<1>3. Cardinality(looking \cup holding)' = sem + 1
  BY <1>1, <1>2, FiniteParts, FS_AddElement DEF LookupsBounded, Goroutines
<1>4. TypeOK'
  <2>1. sem' \in 0..MaxBulkWorkers
    BY HandlersAssumption DEF TypeOK
  <2>2. next' \in [Conns -> Nat \ {0}] /\ wg' \in [Conns -> Nat]
    BY DEF TypeOK
  <2>3. looking' \subseteq Goroutine
    BY <1>1 DEF TypeOK
  <2> QED
    BY <2>1, <2>2, <2>3 DEF TypeOK
<1>5. LookupsBounded'
  BY <1>3, HandlersAssumption DEF LookupsBounded, TypeOK
<1>6. NoOrphans'
  <2> SUFFICES ASSUME NEW h \in Goroutines'
               PROVE  pc[h[1]] = "bulk" /\ h[2] < next'[h[1]]
    BY DEF NoOrphans
  <2>1. CASE h = g
    BY <2>1 DEF TypeOK
  <2>2. CASE h \in Goroutines
    <3>1. h[1] \in Conns /\ h[2] \in Nat
      BY <2>2 DEF Goroutines, TypeOK, Goroutine
    <3> QED
      BY <2>2, <3>1 DEF NoOrphans, TypeOK
  <2> QED
    BY <1>2, <2>1, <2>2
<1>7. IsFiniteSet(Goroutines)' /\ PhasesDisjoint'
  <2>1. IsFiniteSet(Goroutines \cup {g})
    BY FS_AddElement
  <2>2. PhasesDisjoint'
    BY <1>1 DEF PhasesDisjoint, Goroutines
  <2> QED
    BY <1>2, <2>1, <2>2
<1>8. WaitGroupCounts'
  <2>1. Cardinality(Spawned(c) \cup {g}) = Cardinality(Spawned(c)) + 1
    <3>1. IsFiniteSet(Spawned(c)) /\ g \notin Spawned(c)
      BY <1>1, FiniteParts DEF Spawned
    <3> QED
      BY <3>1, FS_AddElement
  <2> QED
    BY <1>2, <2>1 DEF WaitGroupCounts, TypeOK
<1>9. Dispatched'
  <2> SUFFICES ASSUME NEW d \in Conns, NEW i \in DOMAIN batch[d]
               PROVE  IF i < next'[d] /\ <<d, i>> \notin looking'
                        THEN Settles(results[d][i], batch[d][i])
                        ELSE results[d][i] = Absent
    BY DEF Dispatched
  <2>1. i \in Nat
    BY SeqOfItsRange DEF TypeOK
  <2>2. i < next'[d] /\ <<d, i>> \notin looking' <=> i < next[d] /\ <<d, i>> \notin looking
    BY <2>1 DEF TypeOK
  <2> QED
    BY <2>2 DEF Dispatched
<1>10. \A d \in Conns : next'[d] <= Len(batch'[d]) + 1
  BY LenProperties DEF TypeOK
<1>11. \A h \in looking' : h[2] \in DOMAIN batch'[h[1]]
  OBVIOUS
<1> QED
  BY <1>4, <1>5, <1>6, <1>7, <1>8, <1>9, <1>10, <1>11

(* A lookup settles its own index and keeps its slot.                      *)
LEMMA BulkLookupIInv ==
  ASSUME IInv, NEW g \in looking, BulkLookup(g)
  PROVE  IInv'
<1> DEFINE c == g[1]
           n == g[2]
<1> USE DEF IInv, BulkLookup
<1>1. g \in Goroutine /\ c \in Conns /\ g = <<c, n>> /\ n \in DOMAIN batch[c]
  BY DEF TypeOK, Goroutine
<1>2. /\ Goroutines' = Goroutines
      /\ \A d : Spawned(d)' = Spawned(d)
      /\ (looking \cup holding)' = looking \cup holding
  BY DEF Goroutines, Spawned
<1>3. PICK o \in Lookup(batch[c][n]) :
        results' = IF o.err = "nil"
                     THEN [results EXCEPT ![c][n] = Present(o.details)] ELSE results
  OBVIOUS
<1>4. \A d \in Conns : results'[d] \in [DOMAIN batch[d] -> Result]
  BY <1>1, <1>3, LookupHits DEF TypeOK
<1>5. TypeOK'
  <2>1. DOMAIN results' = Conns
    BY <1>3 DEF TypeOK
  <2> QED
    BY <1>1, <1>4, <2>1 DEF TypeOK
<1>6. LookupsBounded' /\ NoOrphans' /\ IsFiniteSet(Goroutines)' /\ WaitGroupCounts'
  BY <1>2 DEF LookupsBounded, NoOrphans, WaitGroupCounts
<1>7. PhasesDisjoint'
  BY DEF PhasesDisjoint
<1>8. Dispatched'
  <2> SUFFICES ASSUME NEW d \in Conns, NEW i \in DOMAIN batch[d]
               PROVE  IF i < next[d] /\ <<d, i>> \notin looking'
                        THEN Settles(results'[d][i], batch[d][i])
                        ELSE results'[d][i] = Absent
    BY DEF Dispatched
  <2>1. CASE <<d, i>> = g
    <3>1. i < next[d] /\ <<d, i>> \notin looking'
      BY <2>1 DEF NoOrphans, Goroutines
    <3>2. CASE o.err = "nil"
      <4>1. results'[d][i] = Present(o.details)
        BY <1>1, <1>3, <2>1, <3>2 DEF TypeOK
      <4> QED
        BY <2>1, <3>1, <3>2, <4>1 DEF Settles, Present
    <3>3. CASE o.err # "nil"
      <4>1. results'[d][i] = Absent
        BY <1>3, <2>1, <3>3 DEF Dispatched
      <4> QED
        BY <2>1, <3>1, <3>3, <4>1 DEF Settles, Absent
    <3> QED
      BY <3>2, <3>3
  <2>2. CASE <<d, i>> # g
    <3>1. results'[d][i] = results[d][i]
      BY <1>1, <1>3, <2>2 DEF TypeOK
    <3>2. <<d, i>> \notin looking' <=> <<d, i>> \notin looking
      BY <2>2
    <3> QED
      BY <3>1, <3>2 DEF Dispatched
  <2> QED
    BY <2>1, <2>2
<1> QED
  BY <1>5, <1>6, <1>7, <1>8

(* Giving a slot back lowers the count by the one goroutine that held it;  *)
(* the receive does not block.                                             *)
LEMMA ReleaseSlotIInv ==
  ASSUME IInv, NEW g \in holding, ReleaseSlot(g)
  PROVE  IInv'
<1> USE DEF IInv, ReleaseSlot, frame
<1>1. g \in Goroutine /\ g \notin looking /\ g \notin leaving
  BY DEF TypeOK, PhasesDisjoint
<1>2. /\ Goroutines' = Goroutines
      /\ \A d : Spawned(d)' = Spawned(d)
      /\ (looking \cup holding)' = (looking \cup holding) \ {g}
  BY <1>1 DEF Goroutines, Spawned
<1>3. Cardinality((looking \cup holding) \ {g}) = sem - 1
  <2>1. IsFiniteSet(looking \cup holding) /\ g \in looking \cup holding
    BY FiniteParts
  <2> QED
    BY <2>1, FS_RemoveElement DEF LookupsBounded
<1>4. TypeOK'
  <2>1. sem' \in 0..MaxBulkWorkers
    BY HandlersAssumption DEF TypeOK
  <2>2. holding' \subseteq Goroutine /\ leaving' \subseteq Goroutine
    BY <1>1 DEF TypeOK
  <2> QED
    BY <2>1, <2>2 DEF TypeOK
<1>5. LookupsBounded'
  <2>1. Cardinality(looking \cup holding)' = sem'
    BY <1>2, <1>3
  <2>2. sem' <= MaxBulkWorkers
    BY <1>4, HandlersAssumption DEF TypeOK
  <2> QED
    BY <2>1, <2>2 DEF LookupsBounded
<1>6. NoOrphans' /\ IsFiniteSet(Goroutines)' /\ WaitGroupCounts' /\ Dispatched'
  BY <1>2 DEF NoOrphans, WaitGroupCounts, Dispatched
<1>7. PhasesDisjoint'
  BY <1>1 DEF PhasesDisjoint
<1> QED
  BY <1>4, <1>5, <1>6, <1>7

(* A goroutine that ends is counted out of its request once.               *)
LEMMA WgDoneIInv ==
  ASSUME IInv, NEW g \in leaving, WgDone(g)
  PROVE  IInv'
<1> DEFINE c == g[1]
<1> USE DEF IInv, WgDone
<1>1. g \in Goroutine /\ c \in Conns /\ g \notin looking /\ g \notin holding
  BY DEF TypeOK, PhasesDisjoint, Goroutine
<1>2. /\ Goroutines' = Goroutines \ {g}
      /\ \A d \in Conns : Spawned(d)' = IF d = c THEN Spawned(d) \ {g} ELSE Spawned(d)
  BY <1>1 DEF Goroutines, Spawned
<1>3. Cardinality(Spawned(c) \ {g}) = wg[c] - 1 /\ wg[c] - 1 \in Nat
  <2>1. IsFiniteSet(Spawned(c)) /\ g \in Spawned(c)
    BY FiniteParts DEF Spawned, Goroutines
  <2>2. Cardinality(Spawned(c) \ {g}) = Cardinality(Spawned(c)) - 1
    BY <2>1, FS_RemoveElement
  <2>3. Cardinality(Spawned(c) \ {g}) \in Nat
    BY <2>1, FS_RemoveElement, FS_CardinalityType
  <2> QED
    BY <1>1, <2>2, <2>3 DEF WaitGroupCounts
<1>4. TypeOK'
  <2>1. wg' \in [Conns -> Nat]
    BY <1>1, <1>3 DEF TypeOK
  <2>2. leaving' \subseteq Goroutine
    BY DEF TypeOK
  <2> QED
    BY <2>1, <2>2 DEF TypeOK
<1>5. NoOrphans' /\ LookupsBounded' /\ PhasesDisjoint' /\ Dispatched'
  BY <1>2 DEF NoOrphans, LookupsBounded, PhasesDisjoint, Dispatched
<1>6. IsFiniteSet(Goroutines)'
  <2>1. IsFiniteSet(Goroutines \ {g})
    BY FS_RemoveElement
  <2> QED
    BY <1>2, <2>1
<1>7. WaitGroupCounts'
  BY <1>1, <1>2, <1>3 DEF WaitGroupCounts, TypeOK
<1> QED
  BY <1>4, <1>5, <1>6, <1>7
-----------------------------------------------------------------------------
(* A connection without running request, or whose WaitGroup is at zero,    *)
(* has no goroutine.                                                       *)
LEMMA NoneSpawned ==
  ASSUME IInv, NEW c \in Conns, pc[c] # "bulk" \/ wg[c] = 0
  PROVE  Spawned(c) = {}
<1>1. CASE pc[c] # "bulk"
  BY <1>1 DEF IInv, NoOrphans, Spawned
<1>2. CASE wg[c] = 0
  BY <1>2, FiniteParts, FS_EmptySet DEF IInv, WaitGroupCounts
<1> QED
  BY <1>1, <1>2

(* The handlers other than a running bulk keep the invariant.              *)
LEMMA HandleIInv ==
  ASSUME IInv, NEW c \in Conns, Handle(c)
  PROVE  IInv'
<1>1. pc[c] = "routing" /\ req[c].hashes \in Seq(Text)
  BY HandlersAssumption DEF Request, Handle, BodyTooBig, Read, MethodNotAllowed, UnknownPath,
         Health, HandleLookup, HandleBulk, HandleFile, Routed, IInv, TypeOK
<1>2. Spawned(c) = {}
  BY <1>1, NoneSpawned
<1>3. ASSUME NEW reply, Respond(c, reply) PROVE IInv'
  BY <1>2, <1>3, RespondIInv
<1>4. CASE BodyTooBig(c) \/ MethodNotAllowed(c) \/ UnknownPath(c) \/ Health(c)
  BY <1>3, <1>4 DEF BodyTooBig, MethodNotAllowed, UnknownPath, Health
<1>5. CASE HandleLookup(c)
  BY <1>3, <1>5 DEF HandleLookup
<1>6. CASE HandleBulk(c)
  <2>1. CASE Respond(c, Error(400))
    BY <1>3, <2>1
  <2>2. CASE ProcessBulk(c, req[c].hashes)
    BY <1>1, <2>2, ProcessBulkIInv
  <2> QED
    BY <1>6, <2>1, <2>2 DEF HandleBulk
<1>7. CASE HandleFile(c)
  <2> DEFINE hashes == ParseHashLines(req[c].hashes)
  <2>1. CASE Respond(c, Error(400))
    BY <1>3, <2>1
  <2>2. CASE ProcessBulk(c, hashes)
    <3>1. hashes \in Seq(Range(hashes))
      BY <1>1, ParsedIsSeq
    <3> QED
      BY <1>1, <2>2, <3>1, ProcessBulkIInv
  <2> QED
    BY <1>7, <2>1, <2>2 DEF HandleFile
<1> QED
  BY <1>4, <1>5, <1>6, <1>7 DEF Handle

(* The invariant is inductive.                                             *)
LEMMA StepIInv == IInv /\ [Next]_vars => IInv'
<1> SUFFICES ASSUME IInv, [Next]_vars PROVE IInv'
  OBVIOUS
<1>1. ASSUME NEW c \in Conns, NEW q \in Requests, Receive(c, q) PROVE IInv'
  BY <1>1, ReceiveIInv
<1>2. ASSUME NEW c \in Conns, Handle(c) PROVE IInv'
  BY <1>2, HandleIInv
<1>3. ASSUME NEW c \in Conns, Dispatch(c) PROVE IInv'
  BY <1>3, DispatchIInv
<1>4. ASSUME NEW c \in Conns, Finish(c) PROVE IInv'
  BY <1>4, NoneSpawned, RespondIInv DEF Finish
<1>5. ASSUME NEW g, BulkLookup(g) PROVE IInv'
  BY <1>5, BulkLookupIInv DEF BulkLookup
<1>6. ASSUME NEW g, ReleaseSlot(g) PROVE IInv'
  BY <1>6, ReleaseSlotIInv DEF ReleaseSlot
<1>7. ASSUME NEW g, WgDone(g) PROVE IInv'
  BY <1>7, WgDoneIInv DEF WgDone
<1>8. CASE UNCHANGED vars
  <2>1. /\ Goroutines' = Goroutines /\ \A d : Spawned(d)' = Spawned(d)
        /\ (looking \cup holding)' = looking \cup holding
    BY <1>8 DEF vars, Goroutines, Spawned
  <2>2. TypeOK' /\ LookupsBounded' /\ NoOrphans' /\ PhasesDisjoint'
    BY <1>8, <2>1 DEF vars, IInv, TypeOK, LookupsBounded, NoOrphans, PhasesDisjoint
  <2>3. WaitGroupCounts' /\ Dispatched'
    BY <1>8, <2>1 DEF vars, IInv, WaitGroupCounts, Dispatched
  <2> QED
    BY <1>8, <2>1, <2>2, <2>3 DEF vars, IInv
<1> QED
  BY <1>1, <1>2, <1>3, <1>4, <1>5, <1>6, <1>7, <1>8 DEF Next, Run

(* Of a batch whose dispatch loop has ended and whose WaitGroup is at zero *)
(* every index is settled.                                                 *)
LEMMA SettledAtWait == IInv => ResultsSettled
<1> SUFFICES ASSUME IInv, NEW c \in Conns,
                    next[c] \notin DOMAIN batch[c], wg[c] = 0,
                    NEW i \in DOMAIN batch[c]
             PROVE  Settles(results[c][i], batch[c][i])
  BY DEF ResultsSettled
<1>1. <<c, i>> \notin looking
  BY NoneSpawned DEF Spawned, Goroutines
<1>2. i < next[c]
  <2>1. /\ Len(batch[c]) \in Nat /\ DOMAIN batch[c] = 1..Len(batch[c])
        /\ next[c] \in Nat \ {0} /\ next[c] <= Len(batch[c]) + 1
    BY LenProperties DEF IInv, TypeOK
  <2> QED
    BY <2>1
<1> QED
  BY <1>1, <1>2 DEF IInv, Dispatched

(* The invariant holds in every reachable state.                           *)
THEOREM Invariance == Spec => []IInv
BY InitIInv, StepIInv, PTL DEF Spec

(* The handlers' variables hold what their types say, for every number of  *)
(* connections, slots, requests and hashes.                                *)
THEOREM TypeCorrect == Spec => []TypeOK
<1>1. IInv => TypeOK
  BY DEF IInv
<1> QED
  BY <1>1, Invariance, PTL

(* Whatever bulk requests run together, maxBulkWorkers bounds their        *)
(* lookups in flight, and no slot is lost.                                 *)
THEOREM Bounded == Spec => []LookupsBounded
<1>1. IInv => LookupsBounded
  BY DEF IInv
<1> QED
  BY <1>1, Invariance, PTL

(* No lookup goroutine outlives the request that spawned it.               *)
THEOREM OrphanFree == Spec => []NoOrphans
<1>1. IInv => NoOrphans
  BY DEF IInv
<1> QED
  BY <1>1, Invariance, PTL

(* When wg.Wait returns, every hash of the batch has its verdict, at its   *)
(* own index.                                                              *)
THEOREM Settled == Spec => []ResultsSettled
BY SettledAtWait, Invariance, PTL
=============================================================================
