------------------------- MODULE DehashServerProofs -------------------------
(***************************************************************************)
(* The server implements what its API promises: the process around the     *)
(* handlers adds no behaviour to them, it may only stop them, and the      *)
(* handlers implement LookupService.  From the legality of every answer    *)
(* follow the absence of false alarms and the counts the example client    *)
(* prints.                                                                 *)
(***************************************************************************)
EXTENDS DehashServer, Client, HandlersProofs, Induction

\* The indices of the first n results, by verdict.
Absents(verdicts, n)  == {i \in 1..n : ~verdicts[i].found}
Presents(verdicts, n) == {i \in 1..n : verdicts[i].found}

\* What the loop over the results has made of the first n.
Turn(hashes, verdicts, n) ==
  [ notFound |-> Service!InOrder(hashes, Absents(verdicts, n)),
    found    |-> [t \in {hashes[i] : i \in Presents(verdicts, n)} |-> Value[HashToKey(t)]],
    count    |-> Cardinality(Presents(verdicts, n)) ]

(* The instance of LookupService has operators of its own, which are the   *)
(* handlers' and the library's.                                            *)
LEMMA SameCardinality == \A S : Service!Cardinality(S) = Cardinality(S)
BY DEF Service!Cardinality, Cardinality, Service!IsFiniteSet, IsFiniteSet

LEMMA SameOperators ==
  /\ \A t : /\ Service!Lookup(t) = Lookup(t) /\ Service!HashToKey(t) = HashToKey(t)
           /\ Service!IsEmpty(t) = IsEmpty(t) /\ Service!TrimSpace(t) = TrimSpace(t)
  /\ \A o, d : Service!LookupReply(o, d) = LookupReply(o, d)
  /\ \A n, f, k, d : Service!BulkReply(n, f, k, d) = BulkReply(n, f, k, d)
  /\ \A status : Service!Error(status) = Error(status)
  /\ Service!Healthy = Healthy
<1>1. \A t : Service!HashToKey(t) = HashToKey(t) /\ Service!IsEmpty(t) = IsEmpty(t)
             /\ Service!TrimSpace(t) = TrimSpace(t)
  BY DEF Service!HashToKey, HashToKey, Service!IsEmpty, IsEmpty, Service!TrimSpace, TrimSpace,
         Service!ToLower, ToLower, Service!DecodeString, DecodeString,
         Service!IsBlank, IsBlank, Service!KindsOfLength, KindsOfLength, Service!HashKinds, HashKinds,
         Service!Width, Width, Service!Prefix, Prefix, Service!MakeKey, MakeKey, Service!NoKey, NoKey
<1>2. \A t : Service!Lookup(t) = Lookup(t)
  BY <1>1 DEF Service!Lookup, Lookup, Service!Hit, Hit, Service!Failure, Failure, Service!NoKey, NoKey
<1>3. /\ \A o, d : Service!LookupReply(o, d) = LookupReply(o, d)
      /\ \A status : Service!Error(status) = Error(status)
      /\ Service!Healthy = Healthy
  BY DEF Service!LookupReply, LookupReply, Service!Error, Error, Service!Healthy, Healthy
<1>4. \A n, f, k, d : Service!BulkReply(n, f, k, d) = BulkReply(n, f, k, d)
  BY DEF Service!BulkReply, BulkReply
<1> QED
  BY <1>1, <1>2, <1>3, <1>4

(* Any increasing enumeration of the indices says what is picked in order. *)
LEMMA InOrderBy ==
  ASSUME NEW seq, NEW S \in SUBSET Nat, IsFiniteSet(S), NEW f, Increasing(f, S)
  PROVE  Service!InOrder(seq, S) = [n \in 1..Cardinality(S) |-> seq[f[n]]]
<1> DEFINE N      == 1..Service!Cardinality(S)
           All    == [N -> S]
           Asc(p) == \A m, n \in N : m < n => p[m] < p[n]
           pos    == CHOOSE p \in All : Asc(p)
<1>0. N = 1..Cardinality(S)
  BY SameCardinality
<1>1. f \in All /\ Asc(f)
  BY <1>0 DEF Increasing
<1>2. pos \in All /\ Asc(pos)
  <2> HIDE DEF All, Asc
  <2> QED
    BY <1>1, Zenon
<1>3. Service!InOrder(seq, S) = [n \in N |-> seq[pos[n]]]
  BY DEF Service!InOrder
<1> HIDE DEF N, pos
<1>4. Increasing(pos, S)
  BY <1>0, <1>2 DEF Increasing
<1>5. pos = f
  BY <1>4, OneEnumeration
<1> QED
  BY <1>0, <1>3, <1>5

(* The elements picked in order come back as they were picked.             *)
LEMMA InOrderFacts ==
  ASSUME NEW seq, NEW S \in SUBSET Nat, IsFiniteSet(S)
  PROVE  /\ DOMAIN Service!InOrder(seq, S) = 1..Cardinality(S)
         /\ Range(Service!InOrder(seq, S)) \subseteq {seq[i] : i \in S}
         /\ Len(Service!InOrder(seq, S)) = Cardinality(S)
<1>1. PICK f : Increasing(f, S)
  BY ByRank
<1>2. Service!InOrder(seq, S) = [n \in 1..Cardinality(S) |-> seq[f[n]]]
  BY <1>1, InOrderBy
<1>3. Cardinality(S) \in Nat
  BY FS_CardinalityType
<1>4. f \in [1..Cardinality(S) -> S]
  BY <1>1 DEF Increasing
<1>5. \A n \in 1..Cardinality(S) : f[n] \in S /\ seq[f[n]] \in {seq[i] : i \in S}
  BY <1>4
<1>6. Service!InOrder(seq, S) \in [1..Cardinality(S) -> {seq[i] : i \in S}]
  BY <1>2, <1>5
<1>7. Service!InOrder(seq, S) \in Seq({seq[i] : i \in S})
  BY <1>3, <1>6, SeqDef
<1>8. Range(Service!InOrder(seq, S)) \subseteq {seq[i] : i \in S}
  BY <1>6 DEF Range
<1> QED
  BY <1>2, <1>3, <1>7, <1>8, LenProperties

(* One more index, beyond the others, adds one element at the end.         *)
LEMMA InOrderGrows ==
  ASSUME NEW seq, NEW n \in Nat, NEW S \in SUBSET (1..n)
  PROVE  Service!InOrder(seq, S \cup {n + 1}) = Append(Service!InOrder(seq, S), seq[n + 1])
<1> DEFINE c == Cardinality(S)
           T == S \cup {n + 1}
<1>1. IsFiniteSet(S) /\ c \in Nat /\ S \in SUBSET Nat /\ T \in SUBSET Nat
  <2>1. IsFiniteSet(1..n)
    BY FS_Interval
  <2>2. IsFiniteSet(S)
    BY <2>1, FS_Subset
  <2> QED
    BY <2>2, FS_CardinalityType
<1>2. IsFiniteSet(T) /\ Cardinality(T) = c + 1
  BY <1>1, FS_AddElement
<1>3. PICK f : Increasing(f, S)
  BY <1>1, ByRank
<1> DEFINE g == [k \in 1..(c + 1) |-> IF k = c + 1 THEN n + 1 ELSE f[k]]
<1>4. Increasing(g, T)
  BY <1>3, EnumerationGrows
<1> DEFINE old == Service!InOrder(seq, S)
           new == Service!InOrder(seq, T)
<1>5. old = [k \in 1..c |-> seq[f[k]]]
  BY <1>1, <1>3, InOrderBy
<1> HIDE DEF c, T
<1>6. new = [k \in 1..Cardinality(T) |-> seq[g[k]]]
  <2> HIDE DEF g
  <2> QED
    BY <1>1, <1>2, <1>4, InOrderBy
<1>7. new = [k \in 1..(c + 1) |-> IF k = c + 1 THEN seq[n + 1] ELSE seq[f[k]]]
  BY <1>1, <1>2, <1>6
<1>8. Len(old) = c
  BY <1>1, InOrderFacts DEF c
<1>9. Append(old, seq[n + 1]) = [k \in 1..(c + 1) |-> IF k = c + 1 THEN seq[n + 1] ELSE seq[f[k]]]
  <2> HIDE DEF old
  <2> QED
    BY <1>1, <1>5, <1>8
<1> QED
  BY <1>7, <1>9 DEF T

(* One more turn of the loop, when a hit holds the record of its hash.     *)
LEMMA TurnStep ==
  ASSUME NEW hashes, NEW verdicts, NEW n \in Nat, verdicts[n + 1] \in Result,
         verdicts[n + 1].found => verdicts[n + 1].d = Value[HashToKey(hashes[n + 1])]
  PROVE  Turn(hashes, verdicts, n + 1) = AddResult(hashes, verdicts, Turn(hashes, verdicts, n), n + 1)
<1> DEFINE A == Absents(verdicts, n)
           P == Presents(verdicts, n)
           rest == Turn(hashes, verdicts, n)
<1>1. /\ A \in SUBSET (1..n) /\ P \in SUBSET (1..n) /\ IsFiniteSet(1..n)
      /\ n + 1 \notin P /\ 1..(n + 1) = (1..n) \cup {n + 1}
  <2>1. IsFiniteSet(1..n)
    BY FS_Interval
  <2> QED
    BY <2>1 DEF Absents, Presents
<1>2. IsFiniteSet(P)
  BY <1>1, FS_Subset
<1>3. CASE verdicts[n + 1].found
  <2>1. Absents(verdicts, n + 1) = A /\ Presents(verdicts, n + 1) = P \cup {n + 1}
    BY <1>1, <1>3 DEF Absents, Presents
  <2>2. Cardinality(P \cup {n + 1}) = Cardinality(P) + 1
    BY <1>1, <1>2, FS_AddElement
  <2> DEFINE new == [t \in {hashes[i] : i \in P \cup {n + 1}} |-> Value[HashToKey(t)]]
             old == [t \in {hashes[i] : i \in P} |-> Value[HashToKey(t)]]
             d   == Value[HashToKey(hashes[n + 1])]
  <2>3. Put(old, hashes[n + 1], d) = new
    <3> HIDE DEF P
    <3>1. {hashes[i] : i \in P \cup {n + 1}} = {hashes[i] : i \in P} \cup {hashes[n + 1]}
      OBVIOUS
    <3> QED
      BY <3>1 DEF Put
  <2>4. rest = [notFound |-> Service!InOrder(hashes, A), found |-> old, count |-> Cardinality(P)]
    BY DEF Turn
  <2>5. Turn(hashes, verdicts, n + 1)
          = [notFound |-> Service!InOrder(hashes, A), found |-> new, count |-> Cardinality(P) + 1]
    <3> HIDE DEF A, P
    <3> QED
      BY <2>1, <2>2 DEF Turn
  <2> HIDE DEF A, P, rest, new, old, d
  <2>6. AddResult(hashes, verdicts, rest, n + 1)
          = [notFound |-> rest.notFound, found |-> Put(rest.found, hashes[n + 1], verdicts[n + 1].d),
             count |-> rest.count + 1]
    BY <1>3 DEF AddResult
  <2>7. verdicts[n + 1].d = d
    BY <1>3 DEF d
  <2>8. /\ rest.notFound = Service!InOrder(hashes, A) /\ rest.found = old
        /\ rest.count = Cardinality(P)
    BY <2>4
  <2> QED
    BY <2>3, <2>5, <2>6, <2>7, <2>8 DEF rest
<1>4. CASE ~verdicts[n + 1].found
  <2>1. Absents(verdicts, n + 1) = A \cup {n + 1} /\ Presents(verdicts, n + 1) = P
    BY <1>1, <1>4 DEF Absents, Presents
  <2> DEFINE old == Service!InOrder(hashes, A)
             new == Service!InOrder(hashes, A \cup {n + 1})
             found == [t \in {hashes[i] : i \in P} |-> Value[HashToKey(t)]]
  <2>2. new = Append(old, hashes[n + 1])
    <3> HIDE DEF A
    <3> QED
      BY <1>1, InOrderGrows
  <2>3. rest = [notFound |-> old, found |-> found, count |-> Cardinality(P)]
    BY DEF Turn
  <2>4. Turn(hashes, verdicts, n + 1) = [notFound |-> new, found |-> found, count |-> Cardinality(P)]
    <3> HIDE DEF A, P
    <3> QED
      BY <2>1 DEF Turn
  <2> HIDE DEF A, P, rest, new, old, found
  <2>5. AddResult(hashes, verdicts, rest, n + 1)
          = [rest EXCEPT !.notFound = Append(rest.notFound, hashes[n + 1])]
    BY <1>4 DEF AddResult
  <2>6. [rest EXCEPT !.notFound = Append(rest.notFound, hashes[n + 1])]
          = [rest EXCEPT !.notFound = new]
    BY <2>2, <2>3
  <2>7. [rest EXCEPT !.notFound = new] = [notFound |-> new, found |-> found, count |-> Cardinality(P)]
    BY <2>3
  <2> QED
    BY <2>4, <2>5, <2>6, <2>7 DEF rest
<1> QED
  BY <1>3, <1>4

(* The loop sorts the results as the service says: the missing hashes in   *)
(* the batch's order, the records of the others, and how many they are.    *)
LEMMA SortedTurns ==
  ASSUME NEW hashes, NEW verdicts, NEW N \in Nat, verdicts \in [1..N -> Result],
         \A i \in 1..N : verdicts[i].found => verdicts[i].d = Value[HashToKey(hashes[i])]
  PROVE  Sorted(hashes, verdicts) = Turn(hashes, verdicts, N)
<1> DEFINE base    == [notFound |-> <<>>, found |-> <<>>, count |-> 0]
           Rec(f)  == [n \in 0..N |-> IF n = 0 THEN base ELSE AddResult(hashes, verdicts, f[n - 1], n)]
           turn    == CHOOSE f : f = Rec(f)
           T       == [n \in 0..N |-> Turn(hashes, verdicts, n)]
<1>1. Turn(hashes, verdicts, 0) = base
  <2>1. Absents(verdicts, 0) = {} /\ Presents(verdicts, 0) = {}
    BY DEF Absents, Presents
  <2>2. Cardinality({}) = 0 /\ IsFiniteSet({})
    BY FS_EmptySet
  <2>3. Service!InOrder(hashes, {}) = <<>>
    <3>1. Service!Cardinality({}) = 0
      BY <2>2, SameCardinality
    <3>2. \A pos : [n \in 1..0 |-> hashes[pos[n]]] = <<>>
      OBVIOUS
    <3>3. PICK f : Increasing(f, {})
      BY <2>2, ByRank
    <3>4. Service!InOrder(hashes, {}) = [n \in 1..Cardinality({}) |-> hashes[f[n]]]
      BY <2>2, <3>3, InOrderBy
    <3> QED
      BY <2>2, <3>2, <3>4
  <2>4. [t \in {hashes[i] : i \in {}} |-> Value[HashToKey(t)]] = <<>>
    OBVIOUS
  <2> QED
    BY <2>1, <2>2, <2>3, <2>4 DEF Turn
<1>2. ASSUME NEW n \in 1..N
      PROVE  Turn(hashes, verdicts, n) = AddResult(hashes, verdicts, Turn(hashes, verdicts, n - 1), n)
  <2>1. n - 1 \in Nat /\ (n - 1) + 1 = n
    OBVIOUS
  <2>2. verdicts[n] \in Result /\ (verdicts[n].found => verdicts[n].d = Value[HashToKey(hashes[n])])
    OBVIOUS
  <2> QED
    BY <2>1, <2>2, TurnStep
<1> HIDE DEF base
<1>3. T = Rec(T)
  BY <1>1, <1>2
<1>4. turn = Rec(turn)
  <2> HIDE DEF T, Rec
  <2> QED
    BY <1>3, Zenon
<1> HIDE DEF turn
<1>5. turn[0] = base /\ \A n \in 1..N : turn[n] = AddResult(hashes, verdicts, turn[n - 1], n)
  BY <1>4
<1> DEFINE Q == {n \in 0..N : turn[n] = Turn(hashes, verdicts, n)}
<1>6. 0 \in Q
  BY <1>1, <1>5
<1>7. ASSUME NEW n \in 0..(N - 1), n \in Q PROVE n + 1 \in Q
  <2>1. n + 1 \in 1..N /\ (n + 1) - 1 = n
    OBVIOUS
  <2> QED
    BY <1>2, <1>5, <1>7, <2>1
<1>8. 0..N \subseteq Q
  <2> HIDE DEF Q
  <2> QED
    BY <1>6, <1>7, IntervalInduction
<1>9. turn[N] = Turn(hashes, verdicts, N)
  BY <1>8
<1>10. Len(verdicts) = N
  <2>1. verdicts \in Seq(Result)
    BY SeqDef
  <2> QED
    BY <2>1, LenProperties
<1>11. Sorted(hashes, verdicts) = turn[N]
  BY <1>10 DEF Sorted, turn, base
<1> QED
  BY <1>9, <1>11

(* A lookup without an error has found the record stored under the key.   *)
LEMMA OutcomeHit ==
  ASSUME NEW t, NEW o \in Lookup(t), o.err = "nil"
  PROVE  o = Hit(HashToKey(t))
<1>1. /\ Failure("wrapped ErrInvalidHash").err # "nil" /\ Failure("ErrNotFound").err # "nil"
      /\ Failure("wrapped read error").err # "nil"
  BY DEF Failure
<1>2. HashToKey(t) # NoKey
  BY <1>1 DEF Lookup
<1> QED
  BY <1>1, <1>2 DEF Lookup

(* A settled result with a record has the record stored under its hash.    *)
LEMMA SettledHit ==
  ASSUME NEW t, NEW r, Settles(r, t), r.found
  PROVE  r.d = Value[HashToKey(t)]
<1>1. PICK o \in Lookup(t) : o.err = "nil" /\ o.details = r.d
  BY DEF Settles
<1>2. o = Hit(HashToKey(t))
  BY <1>1, OutcomeHit
<1> QED
  BY <1>1, <1>2 DEF Hit

(* A bulk reply made of settled results is an answer the service may give. *)
LEMMA CollateLegal ==
  ASSUME NEW N \in Nat, NEW hashes, DOMAIN hashes = 1..N, NEW details,
         NEW verdicts \in [1..N -> Result], \A i \in 1..N : Settles(verdicts[i], hashes[i])
  PROVE  Collate(hashes, verdicts, details) \in Service!BulkAnswers(hashes, details)
<1> DEFINE hit == [i \in 1..N |-> verdicts[i].found]
           A == Absents(verdicts, N)
           P == Presents(verdicts, N)
           found == [t \in {hashes[i] : i \in P} |-> Value[HashToKey(t)]]
<1>1. Sorted(hashes, verdicts) = Turn(hashes, verdicts, N)
  BY SettledHit, SortedTurns
<1>2. Collate(hashes, verdicts, details)
        = BulkReply(Service!InOrder(hashes, A), found, Cardinality(P), details)
  BY <1>1 DEF Collate, Turn
<1>3. hit \in [1..N -> BOOLEAN]
  <2>1. Absent.found = FALSE /\ \A d : Present(d).found = TRUE
    BY DEF Absent, Present
  <2>2. ASSUME NEW i \in 1..N PROVE verdicts[i].found \in BOOLEAN
    <3>1. verdicts[i] = Absent \/ \E key \in Stored : verdicts[i] = Present(Value[key])
      BY DEF Result
    <3>2. verdicts[i].found = FALSE \/ verdicts[i].found = TRUE
      BY <2>1, <3>1
    <3> QED
      BY <3>2
  <2> QED
    BY <2>2
<1>4. A = {i \in DOMAIN hashes : ~hit[i]} /\ P = {i \in DOMAIN hashes : hit[i]}
  BY DEF Absents, Presents
<1>5. ASSUME NEW i \in 1..N
      PROVE  IF hit[i] THEN Service!MayBeFound(hashes[i]) ELSE Service!MayNotBeFound(hashes[i])
  BY SameOperators DEF Settles, Service!MayBeFound, Service!MayNotBeFound
<1> DEFINE hits == {i \in DOMAIN hashes : hit[i]}
           legal == Service!BulkReply(Service!Missing(hashes, hit),
                       [t \in {hashes[i] : i \in hits} |-> Value[Service!HashToKey(t)]],
                       Service!Cardinality(hits), details)
<1>6. legal = Collate(hashes, verdicts, details)
  <2>1. Service!Missing(hashes, hit) = Service!InOrder(hashes, A)
    BY <1>4 DEF Service!Missing
  <2>2. [t \in {hashes[i] : i \in hits} |-> Value[Service!HashToKey(t)]] = found
    BY <1>4, SameOperators
  <2>3. Service!Cardinality(hits) = Cardinality(P)
    BY <1>4, SameCardinality
  <2> HIDE DEF hits, P, found, A, hit
  <2> QED
    BY <1>2, <2>1, <2>2, <2>3, SameOperators
<1>7. legal \in Service!BulkAnswers(hashes, details)
  <2>1. hit \in {h \in [DOMAIN hashes -> BOOLEAN] :
                   \A i \in DOMAIN hashes :
                     IF h[i] THEN Service!MayBeFound(hashes[i]) ELSE Service!MayNotBeFound(hashes[i])}
    <3> HIDE DEF hit
    <3> QED
      BY <1>3, <1>5
  <2> HIDE DEF hit
  <2> QED
    BY <2>1 DEF Service!BulkAnswers
<1> QED
  BY <1>6, <1>7

(* The handler's lines of a file are the service's.                        *)
LEMMA FileLines ==
  ASSUME NEW lines \in Seq(Text)
  PROVE  ParseHashLines(lines) = Service!Trimmed(lines)
<1> DEFINE text(i) == TrimSpace(lines[i])
           kept    == {i \in DOMAIN lines : ~IsEmpty(text(i))}
           nth     == [n \in 1..Cardinality(kept) |-> CHOOSE i \in kept : Rank(kept, i) = n]
           texts   == [i \in DOMAIN lines |-> Service!TrimSpace(lines[i])]
           keptToo == {i \in DOMAIN texts : ~Service!IsEmpty(texts[i])}
<1>1. IsFiniteSet(kept) /\ kept \in SUBSET Nat /\ kept \in SUBSET DOMAIN lines
  <2>1. IsFiniteSet(DOMAIN lines) /\ DOMAIN lines \in SUBSET Nat
    <3>1. Len(lines) \in Nat /\ DOMAIN lines = 1..Len(lines)
      BY LenProperties
    <3> QED
      BY <3>1, FS_Interval
  <2>2. kept \in SUBSET DOMAIN lines
    OBVIOUS
  <2> HIDE DEF kept
  <2> QED
    BY <2>1, <2>2, FS_Subset
<1>2. keptToo = kept
  BY SameOperators
<1>3. ParseHashLines(lines) = [n \in 1..Cardinality(kept) |-> text(nth[n])]
  BY DEF ParseHashLines, Rank
<1>4. Service!Trimmed(lines) = Service!InOrder(texts, keptToo)
  BY DEF Service!Trimmed
<1> HIDE DEF kept, keptToo, texts
<1>5. Increasing(nth, kept)
  BY <1>1, ByRank
<1>6. Service!InOrder(texts, kept) = [n \in 1..Cardinality(kept) |-> texts[nth[n]]]
  <2> HIDE DEF nth
  <2> QED
    BY <1>1, <1>5, InOrderBy
<1>7. \A n \in 1..Cardinality(kept) : nth[n] \in kept
  BY <1>5 DEF Increasing
<1> HIDE DEF nth
<1>8. \A n \in 1..Cardinality(kept) : texts[nth[n]] = text(nth[n])
  BY <1>1, <1>7, SameOperators DEF texts
<1> QED
  BY <1>2, <1>3, <1>4, <1>6, <1>8
-----------------------------------------------------------------------------
(* A batch is replaced only with its request.                              *)
LEMMA BatchStep == IInv /\ BatchOfRequest /\ [Next]_vars => BatchOfRequest'
<1> SUFFICES ASSUME IInv, BatchOfRequest, [Next]_vars PROVE BatchOfRequest'
  OBVIOUS
<1> USE DEF BatchOfRequest
<1>t. /\ pc \in [Conns -> {"idle", "routing", "bulk"}] /\ DOMAIN req = Conns /\ DOMAIN batch = Conns
  BY DEF IInv, TypeOK
<1>1. ASSUME NEW c \in Conns, NEW q \in Requests, Receive(c, q) PROVE BatchOfRequest'
  BY <1>1, <1>t DEF Receive, frame
<1>2. ASSUME NEW c \in Conns, NEW reply, Respond(c, reply) PROVE BatchOfRequest'
  BY <1>2, <1>t DEF Respond
<1>3. ASSUME NEW c \in Conns, HandleBulk(c), ProcessBulk(c, req[c].hashes),
             req[c].json, req[c].hashes # <<>>
      PROVE  BatchOfRequest'
  BY <1>3, <1>t DEF HandleBulk, Routed, Read, ProcessBulk
<1>4. ASSUME NEW c \in Conns, HandleFile(c), ProcessBulk(c, ParseHashLines(req[c].hashes)),
             ParseHashLines(req[c].hashes) # <<>>
      PROVE  BatchOfRequest'
  BY <1>4, <1>t DEF HandleFile, Routed, Read, ProcessBulk
<1>5. ASSUME NEW c \in Conns, Handle(c) PROVE BatchOfRequest'
  <2>1. CASE BodyTooBig(c) \/ MethodNotAllowed(c) \/ UnknownPath(c) \/ Health(c)
    BY <1>2, <2>1 DEF BodyTooBig, MethodNotAllowed, UnknownPath, Health
  <2>2. CASE HandleLookup(c)
    BY <1>2, <2>2 DEF HandleLookup
  <2>3. CASE HandleBulk(c)
    BY <1>2, <1>3, <2>3 DEF HandleBulk
  <2>4. CASE HandleFile(c)
    BY <1>2, <1>4, <2>4 DEF HandleFile
  <2> QED
    BY <1>5, <2>1, <2>2, <2>3, <2>4 DEF Handle
<1>6. ASSUME NEW c \in Conns, Dispatch(c) PROVE BatchOfRequest'
  BY <1>6 DEF Dispatch
<1>7. ASSUME NEW c \in Conns, Finish(c) PROVE BatchOfRequest'
  BY <1>2, <1>7 DEF Finish
<1>8. ASSUME NEW g, Run(g) PROVE BatchOfRequest'
  BY <1>8 DEF Run, BulkLookup, ReleaseSlot, WgDone, frame
<1>9. CASE UNCHANGED vars
  BY <1>9 DEF vars
<1> QED
  BY <1>1, <1>5, <1>6, <1>7, <1>8, <1>9 DEF Next

(* Every batch is its request's.                                           *)
LEMMA Batches == Spec => [](IInv /\ BatchOfRequest)
<1>1. Init => BatchOfRequest
  BY DEF Init, BatchOfRequest
<1> QED
  BY <1>1, BatchStep, Invariance, PTL DEF Spec

(* What a handler replies at once is an answer the service may give.       *)
LEMMA HandleLegal ==
  ASSUME IInv, NEW c \in Conns, Handle(c)
  PROVE  UNCHANGED <<req, resp>> \/ \E a \in Service!AnswersTo(req[c]) : Respond(c, a)
<1> DEFINE q == req[c]
           Sent(a) == Respond(c, a)
           Goal == UNCHANGED <<req, resp>> \/ \E a \in Service!AnswersTo(q) : Sent(a)
<1> SUFFICES Goal
  OBVIOUS
<1>0. q.hashes \in Seq(Text)
  BY HandlersAssumption DEF Request, Handle, BodyTooBig, Read, MethodNotAllowed, UnknownPath,
         Health, HandleLookup, HandleBulk, HandleFile, Routed, IInv, TypeOK
<1> USE SameOperators DEF Service!AnswersTo, Service!RoutedAnswers, Read
<1>0a. CASE BodyTooBig(c)
  <2>1. Sent(Error(400)) /\ q.tooBig
    BY <1>0a DEF BodyTooBig
  <2> QED
    BY <2>1
<1>1. CASE MethodNotAllowed(c)
  <2>1. Sent(Error(405)) /\ q.path # "/health" /\ ~q.post /\ ~q.tooBig
    BY <1>1 DEF MethodNotAllowed
  <2> QED
    BY <2>1
<1>2. CASE UnknownPath(c)
  <2>1. Sent(Error(404)) /\ q.path = "elsewhere" /\ q.post /\ ~q.tooBig
    BY <1>2 DEF UnknownPath, Routed
  <2> QED
    BY <2>1
<1>3. CASE Health(c)
  <2>1. Sent(Healthy) /\ q.path = "/health" /\ ~q.tooBig
    BY <1>3 DEF Health, Routed
  <2> QED
    BY <2>1
<1>4. CASE HandleLookup(c)
  <2>1. q.path = "/lookup" /\ q.post /\ ~q.tooBig
    BY <1>4 DEF HandleLookup, Routed
  <2>2. Service!AnswersTo(q) = Service!LookupAnswers(q)
    BY <2>1
  <2> HIDE DEF Sent
  <2>3. CASE ~q.json \/ q.hashes = <<>> \/ IsEmpty(q.hashes[1])
    <3>1. Sent(Error(400))
      BY <1>4, <2>3 DEF HandleLookup, Sent
    <3>2. Error(400) \in Service!LookupAnswers(q)
      BY <2>3 DEF Service!LookupAnswers
    <3> QED
      BY <2>2, <3>1, <3>2
  <2>4. CASE ~(~q.json \/ q.hashes = <<>> \/ IsEmpty(q.hashes[1]))
    <3>1. PICK o \in Lookup(q.hashes[1]) : Sent(LookupReply(o, q.details))
      BY <1>4, <2>4 DEF HandleLookup, Sent
    <3>2. LookupReply(o, q.details) \in Service!LookupAnswers(q)
      BY <2>4, <3>1 DEF Service!LookupAnswers
    <3> QED
      BY <2>2, <3>1, <3>2
  <2> QED
    BY <2>3, <2>4
<1>5. CASE HandleBulk(c)
  <2>1. q.path = "/bulk" /\ q.post /\ ~q.tooBig
    BY <1>5 DEF HandleBulk, Routed
  <2>2. CASE ~q.json \/ q.hashes = <<>>
    <3>1. Sent(Error(400))
      BY <1>5, <2>2 DEF HandleBulk
    <3>2. Service!AnswersTo(q) = {Error(400)}
      BY <2>1, <2>2
    <3> HIDE DEF Sent
    <3> QED
      BY <3>1, <3>2
  <2>3. CASE ~(~q.json \/ q.hashes = <<>>)
    BY <1>5, <2>3 DEF HandleBulk, ProcessBulk
  <2> QED
    BY <2>2, <2>3
<1>6. CASE HandleFile(c)
  <2>1. q.path = "/file" /\ q.post /\ ~q.tooBig
    BY <1>6 DEF HandleFile, Routed
  <2>2. CASE ParseHashLines(q.hashes) = <<>>
    <3>1. Sent(Error(400))
      BY <1>6, <2>2 DEF HandleFile
    <3>2. Service!Trimmed(q.hashes) = <<>>
      BY <1>0, <2>2, FileLines
    <3>3. Service!AnswersTo(q) = {Error(400)}
      BY <2>1, <3>2
    <3> HIDE DEF Sent
    <3> QED
      BY <3>1, <3>3
  <2>3. CASE ParseHashLines(q.hashes) # <<>>
    BY <1>6, <2>3 DEF HandleFile, ProcessBulk
  <2> QED
    BY <2>2, <2>3
<1> QED
  BY <1>0a, <1>1, <1>2, <1>3, <1>4, <1>5, <1>6 DEF Handle

(* So is what a bulk request is replied in the end, whatever the order its *)
(* goroutines ran in.                                                      *)
LEMMA FinishLegal ==
  ASSUME IInv, BatchOfRequest, NEW c \in Conns, Finish(c)
  PROVE  \E a \in Service!AnswersTo(req[c]) : Respond(c, a)
<1> DEFINE q == req[c]
           reply == Collate(batch[c], results[c], q.details)
<1>1. Respond(c, reply) /\ pc[c] = "bulk"
  BY DEF Finish
<1>2. PICK N \in Nat : DOMAIN batch[c] = 1..N
  BY LenProperties DEF IInv, TypeOK
<1>3. results[c] \in [1..N -> Result]
  BY <1>2 DEF IInv, TypeOK
<1>4. \A i \in 1..N : Settles(results[c][i], batch[c][i])
  BY <1>2, SettledAtWait DEF ResultsSettled, Finish
<1>5. reply \in Service!BulkAnswers(batch[c], q.details)
  BY <1>2, <1>3, <1>4, CollateLegal
<1>6. q \in Requests
  BY <1>1 DEF IInv, TypeOK
<1>7. reply \in Service!AnswersTo(q)
  <2> HIDE DEF reply
  <2>1. CASE q.path = "/bulk" /\ q.json /\ batch[c] = q.hashes
    BY <1>1, <1>5, <2>1 DEF BatchOfRequest, Service!AnswersTo, Service!RoutedAnswers
  <2>2. CASE q.path = "/file" /\ batch[c] = ParseHashLines(q.hashes)
    <3>1. q.hashes \in Seq(Text)
      BY <1>6, HandlersAssumption DEF Request
    <3>2. batch[c] = Service!Trimmed(q.hashes) /\ batch[c] # <<>> /\ q.post /\ ~q.tooBig
      BY <1>1, <2>2, <3>1, FileLines DEF BatchOfRequest
    <3> QED
      BY <1>5, <2>2, <3>2 DEF Service!AnswersTo, Service!RoutedAnswers
  <2> QED
    BY <1>1, <2>1, <2>2 DEF BatchOfRequest
<1> QED
  BY <1>1, <1>7

(* A step of the handlers is a step of the service or none at all.         *)
LEMMA ServiceStep ==
  IInv /\ BatchOfRequest /\ [Next]_vars => [Service!Next]_(Service!vars)
<1> SUFFICES ASSUME IInv, BatchOfRequest, [Next]_vars
             PROVE  Service!Next \/ UNCHANGED <<req, resp>>
  BY DEF Service!vars
<1>1. ASSUME NEW c \in Conns, NEW q \in Requests, Receive(c, q)
      PROVE  Service!Next
  <2>1. req[c] = NoRequest
    BY <1>1 DEF Receive, IInv
  <2> QED
    BY <1>1, <2>1 DEF Receive, Service!Next, Service!Ask
<1>2. ASSUME NEW c \in Conns, pc[c] # "idle",
             \E a \in Service!AnswersTo(req[c]) : Respond(c, a)
      PROVE  Service!Next
  <2>1. req[c] # NoRequest
    BY <1>2 DEF IInv
  <2>2. Service!Reply(c)
    BY <1>2, <2>1 DEF Respond, Service!Reply
  <2> QED
    BY <2>2 DEF Service!Next
<1>3. ASSUME NEW c \in Conns, Handle(c) PROVE Service!Next \/ UNCHANGED <<req, resp>>
  <2>1. pc[c] # "idle"
    BY <1>3 DEF Handle, BodyTooBig, Read, MethodNotAllowed, UnknownPath, Health,
                HandleLookup, HandleBulk, HandleFile, Routed
  <2> QED
    BY <1>2, <1>3, <2>1, HandleLegal
<1>4. ASSUME NEW c \in Conns, Finish(c) PROVE Service!Next
  <2>1. pc[c] # "idle"
    BY <1>4 DEF Finish
  <2> QED
    BY <1>2, <1>4, <2>1, FinishLegal
<1>5. ASSUME NEW c \in Conns, Dispatch(c) PROVE UNCHANGED <<req, resp>>
  BY <1>5 DEF Dispatch
<1>6. ASSUME NEW g, Run(g) PROVE UNCHANGED <<req, resp>>
  BY <1>6 DEF Run, BulkLookup, ReleaseSlot, WgDone
<1>7. CASE UNCHANGED vars
  BY <1>7 DEF vars
<1> QED
  BY <1>1, <1>3, <1>4, <1>5, <1>6, <1>7 DEF Next

(* The handlers implement the service: every request is answered as if in  *)
(* one step from the database, for any number of connections, worker slots *)
(* and hashes, and whatever the order the lookups ran in.                  *)
THEOREM HandlersImplementService == Spec => ImplementsService
<1>1. Init => Service!Init
  BY DEF Init, Service!Init
<1> QED
  BY <1>1, ServiceStep, Batches, PTL DEF ImplementsService, Service!Spec, Spec

(* A text whose lookup may fail has no readable record.                    *)
LEMMA AbsentVerdict ==
  ASSUME NEW t, Service!MayNotBeFound(t)
  PROVE  HashToKey(t) \notin Stored \ Unreadable
<1> SUFFICES ASSUME HashToKey(t) \in Stored, HashToKey(t) \notin Unreadable PROVE FALSE
  OBVIOUS
<1>1. HashToKey(t) # NoKey
  <2>1. \A p, raw : MakeKey(p, raw) # NoKey
    BY DEF MakeKey, NoKey
  <2> QED
    BY <2>1, StoreAssumption DEF Keys
<1>2. Lookup(t) = {Hit(HashToKey(t))}
  BY <1>1 DEF Lookup
<1>3. Hit(HashToKey(t)).err = "nil"
  BY DEF Hit
<1> QED
  BY <1>2, <1>3, SameOperators DEF Service!MayNotBeFound

(* A bulk answer lists as missing only texts whose lookup may fail, and    *)
(* counts every text of the batch once.                                    *)
LEMMA BulkAnswerFacts ==
  ASSUME NEW N \in Nat, NEW hashes, DOMAIN hashes = 1..N, NEW details \in BOOLEAN,
         NEW a \in Service!BulkAnswers(hashes, details)
  PROVE  /\ {"notFound", "count"} \subseteq DOMAIN a /\ a.status = 200
         /\ \A t \in Range(a.notFound) : HashToKey(t) \notin Stored \ Unreadable
         /\ a.count \in Nat /\ Len(a.notFound) \in Nat /\ a.count + Len(a.notFound) = N
<1>1. PICK hit \in { h \in [DOMAIN hashes -> BOOLEAN] :
                       \A i \in DOMAIN hashes :
                         IF h[i] THEN Service!MayBeFound(hashes[i])
                                 ELSE Service!MayNotBeFound(hashes[i]) } :
        a = LET hits == {i \in DOMAIN hashes : hit[i]}
            IN  Service!BulkReply(Service!Missing(hashes, hit),
                  [t \in {hashes[i] : i \in hits} |-> Value[Service!HashToKey(t)]],
                  Service!Cardinality(hits), details)
  BY DEF Service!BulkAnswers
<1> DEFINE P == {i \in 1..N : hit[i]}
           A == {i \in 1..N : ~hit[i]}
           missing == Service!InOrder(hashes, A)
<1>2. /\ {"notFound", "count"} \subseteq DOMAIN a /\ a.status = 200
      /\ a.notFound = missing /\ a.count = Cardinality(P)
  <2>1. a.status = 200 /\ a.notFound = Service!Missing(hashes, hit) /\ a.count = Service!Cardinality(P)
        /\ {"notFound", "count"} \subseteq DOMAIN a
    BY <1>1 DEF Service!BulkReply
  <2> QED
    BY <2>1, SameCardinality DEF Service!Missing
<1>3. /\ IsFiniteSet(1..N) /\ Cardinality(1..N) = N
      /\ A \in SUBSET (1..N) /\ P \in SUBSET (1..N)
      /\ A \cup P = 1..N /\ A \cap P = {} /\ A \in SUBSET Nat
  <2>1. IsFiniteSet(1..N) /\ Cardinality(1..N) = N
    BY FS_Interval
  <2>2. A \cup P = 1..N /\ A \cap P = {}
    OBVIOUS
  <2> QED
    BY <2>1, <2>2
<1>4. \A i \in A : HashToKey(hashes[i]) \notin Stored \ Unreadable
  BY <1>1, AbsentVerdict
<1> HIDE DEF A, P
<1>5. IsFiniteSet(A) /\ IsFiniteSet(P) /\ Cardinality(A) \in Nat /\ Cardinality(P) \in Nat
  BY <1>3, FS_Subset, FS_CardinalityType
<1>6. Cardinality(A) + Cardinality(P) = N
  <2>1. Cardinality(A \cup P) = Cardinality(A) + Cardinality(P) - Cardinality(A \cap P)
    BY <1>5, FS_Union
  <2>2. Cardinality(A \cap P) = 0
    BY <1>3, FS_EmptySet
  <2>3. Cardinality(A \cup P) = N
    BY <1>3
  <2> QED
    BY <1>5, <2>1, <2>2, <2>3
<1>7. Len(missing) = Cardinality(A) /\ Range(missing) \subseteq {hashes[i] : i \in A}
  BY <1>3, <1>5, InOrderFacts
<1> HIDE DEF missing
<1> QED
  BY <1>2, <1>4, <1>5, <1>6, <1>7

(* The service's lines of a file are the written ones; the client counts   *)
(* them all unless one is too long.                                        *)
LEMMA TrimmedLines ==
  ASSUME NEW lines \in Seq(Text)
  PROVE  LET written == Cardinality(Written(lines)) IN
         /\ written \in Nat /\ DOMAIN Service!Trimmed(lines) = 1..written
         /\ written = 0 <=> Written(lines) = {}
         /\ CountLines(lines) \in Nat /\ CountLines(lines) <= written
         /\ Range(lines) \cap LongLines = {} => CountLines(lines) = written
<1> DEFINE kept == Written(lines)
           read == {i \in kept : \A j \in 1..i : lines[j] \notin LongLines}
           texts == [i \in DOMAIN lines |-> Service!TrimSpace(lines[i])]
<1>1. Len(lines) \in Nat /\ DOMAIN lines = 1..Len(lines)
  BY LenProperties
<1>2. IsFiniteSet(kept) /\ kept \in SUBSET Nat /\ kept \in SUBSET DOMAIN lines
  <2>1. IsFiniteSet(DOMAIN lines) /\ DOMAIN lines \in SUBSET Nat
    BY <1>1, FS_Interval
  <2>2. kept \in SUBSET DOMAIN lines
    BY DEF Written
  <2> HIDE DEF kept
  <2> QED
    BY <2>1, <2>2, FS_Subset
<1>3. {i \in DOMAIN texts : ~Service!IsEmpty(texts[i])} = kept
  BY SameOperators DEF Written
<1>4. Service!Trimmed(lines) = Service!InOrder(texts, kept)
  BY <1>3 DEF Service!Trimmed
<1>5. Range(lines) \cap LongLines = {} => read = kept
  BY <1>1, <1>2 DEF Range
<1>6. read \in SUBSET kept
  OBVIOUS
<1> HIDE DEF kept, texts, read
<1>7. /\ Cardinality(kept) \in Nat /\ Cardinality(read) \in Nat
      /\ Cardinality(read) <= Cardinality(kept)
  BY <1>2, <1>6, FS_Subset, FS_CardinalityType
<1>8. DOMAIN Service!Trimmed(lines) = 1..Cardinality(kept)
  BY <1>2, <1>4, InOrderFacts
<1>9. Cardinality(kept) = 0 <=> kept = {}
  BY <1>2, FS_EmptySet
<1>10. CountLines(lines) = Cardinality(read)
  BY DEF CountLines, read, kept
<1> QED
  BY <1>5, <1>7, <1>8, <1>9, <1>10 DEF kept

\* What the client's report on an answered file has to be.
FileReport(a, q) ==
  IF a.status = 200
    THEN Complete(FileShows(a), q.hashes)
    ELSE /\ FileShows(a) = [found |-> 0, notFound |-> 0]
         /\ q.tooBig \/ Written(q.hashes) = {}

(* What the answers to a request can be.                                   *)
LEMMA AnswerFacts ==
  ASSUME NEW q \in Requests, NEW a \in Service!AnswersTo(q)
  PROVE  /\ "notFound" \in DOMAIN a =>
              \A t \in Range(a.notFound) : HashToKey(t) \notin Stored \ Unreadable
         /\ q.post /\ q.path = "/file" => FileReport(a, q)
         /\ q.post /\ q.path = "/lookup" =>
              LET shown == SingleShows(a, q.details)
              IN  shown.details # NoDetails =>
                    shown.status = "found" /\ shown.details = Value[HashToKey(q.hashes[1])]
<1>1. /\ q.path \in Paths /\ q.post \in BOOLEAN /\ q.details \in BOOLEAN /\ q.hashes \in Seq(Text)
      /\ q.tooBig \in BOOLEAN
  BY HandlersAssumption DEF Request
<1> USE SameOperators
<1>2. \A status : DOMAIN Error(status) = {"status"} /\ Error(status).status = status
  BY DEF Error
<1>2a. CASE q.tooBig
  <2>1. a = Error(400)
    BY <1>2a DEF Service!AnswersTo
  <2>2. FileReport(a, q)
    BY <1>2, <1>2a, <2>1 DEF FileReport, FileShows
  <2>3. SingleShows(a, q.details).details = NoDetails
    BY <1>2, <2>1 DEF SingleShows
  <2> QED
    BY <1>2, <2>1, <2>2, <2>3
<1>2b. ~q.tooBig => a \in Service!RoutedAnswers(q)
  BY DEF Service!AnswersTo
<1>3. CASE ~q.tooBig /\ q.path = "/health"
  <2>1. a = Healthy
    BY <1>2b, <1>3 DEF Service!RoutedAnswers
  <2> QED
    BY <1>3, <2>1 DEF Healthy
<1>4. CASE ~q.tooBig /\ q.path # "/health" /\ ~q.post
  <2>1. a = Error(405)
    BY <1>2b, <1>4 DEF Service!RoutedAnswers
  <2> QED
    BY <1>2, <1>4, <2>1
<1>5. CASE ~q.tooBig /\ q.path = "elsewhere" /\ q.post
  <2>1. a = Error(404)
    BY <1>2b, <1>5 DEF Service!RoutedAnswers
  <2> QED
    BY <1>2, <1>5, <2>1
<1>6. CASE ~q.tooBig /\ q.path = "/lookup" /\ q.post
  <2>1. a \in Service!LookupAnswers(q)
    BY <1>2b, <1>6 DEF Service!RoutedAnswers
  <2>2. a = Error(400) \/ \E o \in Lookup(q.hashes[1]) : a = LookupReply(o, q.details)
    BY <2>1 DEF Service!LookupAnswers
  <2>3. CASE a = Error(400)
    BY <1>2, <1>6, <2>3 DEF SingleShows
  <2>4. ASSUME NEW o \in Lookup(q.hashes[1]), a = LookupReply(o, q.details)
        PROVE  /\ "notFound" \notin DOMAIN a
               /\ LET shown == SingleShows(a, q.details)
                  IN  shown.details # NoDetails =>
                        shown.status = "found" /\ shown.details = Value[HashToKey(q.hashes[1])]
    <3>1. CASE o.err = "nil"
      <4>1. o.details = Value[HashToKey(q.hashes[1])]
        <5>1. o = Hit(HashToKey(q.hashes[1]))
          BY <3>1, OutcomeHit
        <5> QED
          BY <5>1 DEF Hit
      <4>2. a = IF q.details THEN [status |-> 200, verdict |-> "found", details |-> o.details]
                ELSE [status |-> 200, verdict |-> "found"]
        BY <1>1, <2>4, <3>1 DEF LookupReply
      <4>3. CASE q.details
        BY <4>1, <4>2, <4>3 DEF SingleShows
      <4>4. CASE ~q.details
        BY <4>2, <4>4 DEF SingleShows
      <4> QED
        BY <4>3, <4>4
    <3>2. CASE o.err # "nil"
      <4>1. a \in {[status |-> 200, verdict |-> "not_found"], Error(400), Error(500)}
        BY <2>4, <3>2 DEF LookupReply
      <4>2. "details" \notin DOMAIN a /\ "notFound" \notin DOMAIN a
        BY <1>2, <4>1
      <4> QED
        BY <4>2 DEF SingleShows
    <3> QED
      BY <3>1, <3>2
  <2> QED
    BY <1>6, <2>2, <2>3, <2>4
<1>7. CASE ~q.tooBig /\ q.path = "/bulk" /\ q.post
  <2>1. a = Error(400) \/ a \in Service!BulkAnswers(q.hashes, q.details)
    BY <1>2b, <1>7 DEF Service!RoutedAnswers
  <2>2. CASE a = Error(400)
    BY <1>2, <1>7, <2>2
  <2>3. CASE a \in Service!BulkAnswers(q.hashes, q.details)
    <3>1. Len(q.hashes) \in Nat /\ DOMAIN q.hashes = 1..Len(q.hashes)
      BY <1>1, LenProperties
    <3> QED
      BY <1>1, <1>7, <2>3, <3>1, BulkAnswerFacts
  <2> QED
    BY <2>1, <2>2, <2>3
<1>8. CASE ~q.tooBig /\ q.path = "/file" /\ q.post
  <2> DEFINE lines == Service!Trimmed(q.hashes)
  <2>1. IF lines = <<>> THEN a = Error(400) ELSE a \in Service!BulkAnswers(lines, q.details)
    BY <1>2b, <1>8 DEF Service!RoutedAnswers
  <2> DEFINE written == Cardinality(Written(q.hashes))
  <2>2. /\ written \in Nat /\ DOMAIN lines = 1..written
        /\ written = 0 <=> Written(q.hashes) = {}
        /\ CountLines(q.hashes) \in Nat /\ CountLines(q.hashes) <= written
        /\ Range(q.hashes) \cap LongLines = {} => CountLines(q.hashes) = written
    BY <1>1, TrimmedLines
  <2> HIDE DEF lines, written
  <2>3. CASE lines = <<>>
    <3>1. written = 0
      BY <2>2, <2>3
    <3> QED
      BY <1>2, <1>8, <2>1, <2>2, <2>3, <3>1 DEF FileReport, FileShows
  <2>4. CASE lines # <<>>
    <3>1. /\ {"notFound", "count"} \subseteq DOMAIN a /\ a.status = 200
          /\ \A t \in Range(a.notFound) : HashToKey(t) \notin Stored \ Unreadable
          /\ a.count \in Nat /\ Len(a.notFound) \in Nat
          /\ a.count + Len(a.notFound) = written
      BY <1>1, <2>1, <2>2, <2>4, BulkAnswerFacts
    <3>2. FileShows(a).found = a.count /\ FileShows(a).notFound = Len(a.notFound)
      BY <3>1 DEF FileShows
    <3>3. Complete(FileShows(a), q.hashes)
      BY <2>2, <3>1, <3>2 DEF Complete, written
    <3> QED
      BY <1>8, <3>1, <3>3 DEF FileReport
  <2> QED
    BY <2>3, <2>4
<1> QED
  BY <1>1, <1>2a, <1>3, <1>4, <1>5, <1>6, <1>7, <1>8 DEF Paths

(* Only a reply takes a request away, and it is a legal one.               *)
LEMMA AnsweredLegally ==
  ASSUME IInv, BatchOfRequest, [Next]_vars, NEW c \in Conns
  PROVE  \/ UNCHANGED <<req[c], resp[c]>>
         \/ req[c] = NoRequest /\ req'[c] # NoRequest /\ resp'[c] = NoReply
         \/ /\ req[c] \in Requests /\ req'[c] = NoRequest
            /\ resp'[c] \in Service!AnswersTo(req[c])
<1>1. /\ req \in [Conns -> Requests \cup {NoRequest}] /\ DOMAIN resp = Conns
      /\ NoRequest \notin Requests
  BY HandlersAssumption DEF IInv, TypeOK
<1>2. [Service!Next]_(Service!vars)
  BY ServiceStep
<1>3. ASSUME NEW d \in Conns, NEW q \in Requests, Service!Ask(d, q)
      PROVE  \/ UNCHANGED <<req[c], resp[c]>>
             \/ req[c] = NoRequest /\ req'[c] # NoRequest /\ resp'[c] = NoReply
  <2>1. CASE c = d
    <3>1. req'[c] = q /\ resp'[c] = NoReply /\ req[c] = NoRequest
      BY <1>1, <1>3, <2>1 DEF Service!Ask
    <3> QED
      BY <1>1, <3>1
  <2>2. CASE c # d
    <3>1. req'[c] = req[c] /\ resp'[c] = resp[c]
      BY <1>1, <1>3, <2>2 DEF Service!Ask
    <3> QED
      BY <3>1
  <2> QED
    BY <2>1, <2>2
<1>4. ASSUME NEW d \in Conns, Service!Reply(d)
      PROVE  \/ UNCHANGED <<req[c], resp[c]>>
             \/ /\ req[c] \in Requests /\ req'[c] = NoRequest
                /\ resp'[c] \in Service!AnswersTo(req[c])
  BY <1>1, <1>4 DEF Service!Reply
<1> QED
  BY <1>2, <1>3, <1>4 DEF Service!Next, Service!vars

(* No false alarm: whatever goroutines ran before, a hash is reported      *)
(* missing only if it has no record or its record may be unreadable.       *)
THEOREM FalseAlarmFree == Spec => []NoFalseAlarm
<1>1. Init => NoFalseAlarm
  BY DEF Init, NoFalseAlarm, ReportedMissing
<1>2. IInv /\ BatchOfRequest /\ NoFalseAlarm /\ [Next]_vars => NoFalseAlarm'
  <2> SUFFICES ASSUME IInv, BatchOfRequest, NoFalseAlarm, [Next]_vars,
                      NEW c \in Conns, resp'[c] # NoReply, "notFound" \in DOMAIN resp'[c],
                      NEW t \in Range(resp'[c].notFound)
               PROVE  HashToKey(t) \notin Stored \ Unreadable
    BY DEF NoFalseAlarm, ReportedMissing
  <2>1. CASE UNCHANGED <<req[c], resp[c]>>
    BY <2>1 DEF NoFalseAlarm, ReportedMissing
  <2>2. CASE req[c] \in Requests /\ resp'[c] \in Service!AnswersTo(req[c])
    BY <2>2, AnswerFacts
  <2> QED
    BY <2>1, <2>2, AnsweredLegally
<1> QED
  BY <1>1, <1>2, Batches, PTL DEF Spec

(* What the example client prints adds up, for every file and every hash:  *)
(* the report covers all lines of the file, and an error is shown only of  *)
(* a file with nothing on its lines or too big for the server.             *)
THEOREM ClientCounts == Spec => ClientAddsUp
<1>1. IInv /\ BatchOfRequest /\ [Next]_vars =>
        \A c \in Conns : Answered(c) /\ req[c].post =>
          /\ req[c].path = "/file" =>
               LET shown == FileShows(resp'[c])
               IN  IF resp'[c].status = 200
                     THEN Complete(shown, req[c].hashes)
                     ELSE /\ shown = [found |-> 0, notFound |-> 0]
                          /\ req[c].tooBig \/ Written(req[c].hashes) = {}
          /\ req[c].path = "/lookup" =>
               LET shown == SingleShows(resp'[c], req[c].details)
               IN  shown.details # NoDetails =>
                     shown.status = "found" /\ shown.details = Value[HashToKey(req[c].hashes[1])]
  <2> SUFFICES ASSUME IInv, BatchOfRequest, [Next]_vars, NEW c \in Conns, Answered(c), req[c].post
               PROVE  /\ req[c].path = "/file" => FileReport(resp'[c], req[c])
                      /\ req[c].path = "/lookup" =>
                           LET shown == SingleShows(resp'[c], req[c].details)
                           IN  shown.details # NoDetails =>
                                 shown.status = "found"
                                 /\ shown.details = Value[HashToKey(req[c].hashes[1])]
    BY DEF FileReport
  <2>1. req[c] \in Requests /\ resp'[c] \in Service!AnswersTo(req[c])
    BY AnsweredLegally DEF Answered
  <2> QED
    BY <2>1, AnswerFacts
<1> QED
  BY <1>1, Batches, PTL DEF ClientAddsUp, Spec

(* When every stored record can be read, "not_found" means what the README *)
(* says: the hash is not in the database.                                  *)
COROLLARY NotFoundExact ==
  ASSUME Unreadable = {}
  PROVE  Spec => []NotFoundMeansAbsent
<1>1. NoFalseAlarm => NotFoundMeansAbsent
  BY DEF NoFalseAlarm, NotFoundMeansAbsent
<1> QED
  BY <1>1, FalseAlarmFree, PTL
-----------------------------------------------------------------------------
(* A step of the process is a step of the handlers or leaves them alone.   *)
LEMMA ServerStep == [ServerNext]_allvars => [Next]_vars
<1> SUFFICES ASSUME [ServerNext]_allvars PROVE [Next]_vars
  OBVIOUS
<1>1. CASE MainStep \/ AcceptFails \/ Sigterm \/ TakeSignal \/ Drained \/ Panic
  BY <1>1 DEF MainStep, MainGoes, OpenStore, OpenFails, Notify, Listen, ListenFails, ServeReturns,
              CloseStore, Exit, AcceptFails, Sigterm, TakeSignal, Drained, Panic
<1>2. ASSUME NEW c \in Conns, ServeConn(c) PROVE Next
  BY <1>2 DEF ServeConn, Next
<1>3. ASSUME NEW c \in Conns, NEW q \in Requests, Accept(c, q) PROVE Next
  BY <1>3 DEF Accept, Next
<1>4. ASSUME NEW g \in looking \cup holding \cup leaving, ServeGoroutine(g) PROVE Next
  BY <1>4 DEF ServeGoroutine, Next
<1>5. CASE UNCHANGED allvars
  BY <1>5 DEF allvars
<1> QED
  BY <1>1, <1>2, <1>3, <1>4, <1>5 DEF ServerNext

(* The server process implements the handlers' specification.              *)
THEOREM ServerRefinesHandlers == ServerSpec => Spec
<1>1. ServerInit => Init
  BY DEF ServerInit
<1> QED
  BY <1>1, ServerStep, PTL DEF ServerSpec, Spec

(* The bound on lookups in flight holds in the process at all times.       *)
THEOREM ServerBounded == ServerSpec => []LookupsBounded
BY ServerRefinesHandlers, Bounded, PTL

(* Main, the shutdown goroutine and the signal channel keep their types.   *)
LEMMA ServerTypes ==
  ServerTypeOK /\ TypeOK' /\ [ServerNext]_allvars => ServerTypeOK'
<1> SUFFICES ASSUME ServerTypeOK, TypeOK', [ServerNext]_allvars PROVE ServerTypeOK'
  OBVIOUS
<1> USE ServerAssumption DEF ServerTypeOK, Phases
<1>1. CASE MainStep
  BY <1>1 DEF MainStep, MainGoes, OpenStore, OpenFails, Notify, Listen, ListenFails,
              ServeReturns, CloseStore, Exit
<1>2. CASE Sigterm
  BY <1>2 DEF Sigterm
<1>3. CASE AcceptFails \/ TakeSignal \/ Drained \/ Panic
  BY <1>3 DEF AcceptFails, TakeSignal, Drained, Panic
<1>4. CASE UNCHANGED server
  BY <1>4 DEF server
<1> QED
  BY <1>1, <1>2, <1>3, <1>4 DEF ServerNext, ServeConn, Accept, ServeGoroutine, allvars

\* What makes it inductive: with no listener there is no request, and while it
\* is open main serves; only a signal has it closed.
Attended ==
  /\ listener = "none" => \A c \in Conns : req[c] = NoRequest
  /\ listener = "none" => main # "panicked"
  /\ listener = "open" => main = "serving"
  /\ listener = "closed" => sent > 0
  /\ quit = 1 => sent > 0

(* Every step keeps the listener attended: only an error of accept and a   *)
(* signal let main leave an open one.                                      *)
LEMMA AttendedStep ==
  Attended /\ ServerTypeOK /\ IInv /\ [ServerNext]_allvars => Attended'
<1> SUFFICES ASSUME Attended, ServerTypeOK, IInv, [ServerNext]_allvars
             PROVE  Attended'
  OBVIOUS
<1> USE DEF Attended
<1>1. \A c \in Conns : pc[c] = "idle" <=> req[c] = NoRequest
  BY DEF IInv
<1>2. \A g \in looking \cup holding \cup leaving : g[1] \in Conns /\ pc[g[1]] = "bulk"
  BY DEF IInv, NoOrphans, Goroutines, TypeOK, Goroutine
<1>3. sent \in Nat
  BY ServerAssumption DEF ServerTypeOK
<1>4. CASE MainStep
  BY <1>4 DEF MainStep, MainGoes, OpenStore, OpenFails, Notify, Listen, ListenFails,
              ServeReturns, CloseStore, Exit, vars
<1>5. CASE AcceptFails
  BY <1>5 DEF AcceptFails, vars
<1>6. CASE Sigterm
  BY <1>6, <1>3 DEF Sigterm, vars
<1>7. CASE TakeSignal
  BY <1>7 DEF TakeSignal, vars
<1>8. CASE Drained
  BY <1>8 DEF Drained, vars
<1>9. CASE Panic
  <2>1. CASE listener = "none"
    <3>1. \A c \in Conns : pc[c] = "idle"
      BY <2>1, <1>1
    <3>2. looking = {}
      BY <3>1, <1>2
    <3>3. \A c \in Conns : ~ReadsStore(c)
      BY <3>1 DEF ReadsStore, Routed, Read
    <3> QED
      BY <1>9, <3>2, <3>3 DEF Panic
  <2>2. CASE listener # "none"
    BY <1>9, <2>2 DEF Panic, StoreClosed, vars
  <2> QED
    BY <2>1, <2>2
<1>10. ASSUME NEW c \in Conns, ServeConn(c) PROVE Attended'
  <2>1. UNCHANGED server
    BY <1>10 DEF ServeConn
  <2>2. pc[c] # "idle"
    BY <1>10 DEF ServeConn, Handle, BodyTooBig, Read, MethodNotAllowed, UnknownPath, Health,
                 HandleLookup, HandleBulk, HandleFile, Routed, Dispatch, Finish
  <2> QED
    BY <2>1, <2>2, <1>1 DEF server
<1>11. ASSUME NEW c \in Conns, NEW q \in Requests, Accept(c, q) PROVE Attended'
  BY <1>11 DEF Accept, server
<1>12. ASSUME NEW g \in looking \cup holding \cup leaving, ServeGoroutine(g) PROVE Attended'
  BY <1>12, <1>1, <1>2 DEF ServeGoroutine, server
<1>13. CASE UNCHANGED allvars
  BY <1>13 DEF allvars, vars, server
<1> QED
  BY <1>4, <1>5, <1>6, <1>7, <1>8, <1>9, <1>10, <1>11, <1>12, <1>13 DEF ServerNext

(* The process keeps its types, for any number of signals.                 *)
THEOREM ServerTypeCorrect == ServerSpec => []ServerTypeOK
<1>1. ServerInit /\ TypeOK => ServerTypeOK
  BY ServerAssumption DEF ServerInit, ServerTypeOK, Phases
<1> QED
  BY <1>1, ServerTypes, ServerRefinesHandlers, TypeCorrect, PTL DEF ServerSpec

(* A request is dropped, or the closed database read under it, only after *)
(* the listener broke or a caught signal had it closed; a failure to open  *)
(* or to bind and a signal before there is a listener cost no request.     *)
THEOREM DropsExplained == ServerSpec => []DropsOnlyWhenStopped
<1>1. ServerInit => Attended
  BY DEF ServerInit, Init, Attended
<1>2. Attended /\ ServerTypeOK => DropsOnlyWhenStopped
  BY DEF Attended, ServerTypeOK, DropsOnlyWhenStopped, Alive
<1> QED
  BY <1>1, <1>2, AttendedStep, ServerTypeCorrect, ServerRefinesHandlers, Invariance, PTL
     DEF ServerSpec

(* The whole server, signals and shutdown included, gives only answers the *)
(* service may give.                                                       *)
COROLLARY ServerImplementsService == ServerSpec => ImplementsService
BY ServerRefinesHandlers, HandlersImplementService, PTL
=============================================================================
