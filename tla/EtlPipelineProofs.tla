-------------------------- MODULE EtlPipelineProofs --------------------------
(***************************************************************************)
(* For any table, any number of workers and any sizes of the channels: no  *)
(* row is lost between the table and the writer, and the channels are      *)
(* closed in an order in which nobody sends on a closed one.  As long as   *)
(* Pebble refuses no Set, every row with a hash is in exactly one place    *)
(* from the table to the disk; hence the import implements Import, the     *)
(* hashes of a file stay together, and in the end the database holds what  *)
(* was read but for what was still in memory.                              *)
(***************************************************************************)
EXTENDS EtlPipeline, Induction

Read     == {i \in Rows : Source[i].scans}
Messages == {Message(i) : i \in Imported}

IsSequence(s) == \E S : s \in Seq(S)

Types ==
  /\ stage \in {"loading", "writing", "reported"} \cup Ended
  /\ pos \in 1..(Len(Source) + 1) /\ streamErr \in BOOLEAN
  /\ rowCh \in Seq(Read) /\ Len(rowCh) <= RowCap /\ rowClosed \in BOOLEAN
  /\ worker \in [Workers -> {Ready, Done} \cup Messages]
  /\ kvCh \in Seq(Messages) /\ Len(kvCh) <= KvCap /\ kvClosed \in BOOLEAN
  /\ IsSequence(batch) /\ Len(batch) <= CommitEvery
  /\ IsSequence(mem) /\ Len(mem) <= MemStop
  /\ crew \subseteq Workers /\ compactors \in Nat
  /\ level0 \in Nat /\ count \in Nat /\ skipped \in Nat

\* Where the rows read so far that have a hash are.
Taken   == {i \in Imported : i < pos}
Queued  == {n \in DOMAIN rowCh : rowCh[n] \in Imported}
Holding == {w \in Workers : worker[w] \notin {Ready, Done}}

Conserved ==
  Cardinality(Taken)
    = Cardinality(Queued) + Cardinality(Holding) + Len(kvCh) + count

\* Each channel is closed when those who send on it have come to their end.
Closing ==
  /\ rowClosed => streamErr \/ pos > Len(Source)
  /\ \A w \in Workers \ crew : worker[w] = Done
  /\ \A w \in crew : worker[w] = Done => rowClosed /\ rowCh = <<>>
  /\ kvClosed => \A w \in Workers : worker[w] = Done
  /\ stage \in {"reported", "exited"} => kvClosed /\ kvCh = <<>>

IInv == Types /\ Conserved /\ Closing
-----------------------------------------------------------------------------
(* The lengths are numbers.                                                *)
LEMMA Bounds ==
  /\ Len(Source) \in Nat /\ IsFiniteSet(Workers)
  /\ RowCap \in Nat \ {0} /\ KvCap \in Nat \ {0}
  /\ CommitEvery \in Nat \ {0} /\ MemStop \in Nat \ {0}
<1>1. Source \in Seq(Row)
  BY EtlAssumption
<1> QED
  BY <1>1, EtlAssumption, LenProperties

(* A row has finitely many keys; the message of one with a key can be told *)
(* from Ready and Done, that of one without is Ready.                      *)
LEMMA MessageFacts ==
  ASSUME NEW i \in Rows
  PROVE  /\ IsFiniteSet(DOMAIN Message(i))
         /\ i \in Imported  => Message(i) # Ready /\ Message(i) # Done
         /\ KeysOf(i) = {} => Message(i) = Ready
<1>1. DOMAIN Message(i) = KeysOf(i)
  BY DEF Message
<1>2. IsFiniteSet(KeysOf(i))
  <2> DEFINE cell == [k \in HashKinds |-> CellKey(k, Source[i].cells[k])]
             cells == {cell[k] : k \in HashKinds}
  <2>1. IsFiniteSet({"SHA1"})
    BY FS_Singleton
  <2>2. IsFiniteSet({"SHA1"} \cup {"SHA256"})
    BY <2>1, FS_AddElement
  <2>3. IsFiniteSet(({"SHA1"} \cup {"SHA256"}) \cup {"MD5"})
    BY <2>2, FS_AddElement
  <2>4. IsFiniteSet((({"SHA1"} \cup {"SHA256"}) \cup {"MD5"}) \cup {"CRC32"})
    BY <2>3, FS_AddElement
  <2>5. HashKinds = (({"SHA1"} \cup {"SHA256"}) \cup {"MD5"}) \cup {"CRC32"}
    BY DEF HashKinds
  <2>6. cell \in Surjection(HashKinds, cells)
    BY DEF Surjection
  <2>7. IsFiniteSet(HashKinds)
    BY <2>4, <2>5
  <2>8. IsFiniteSet(cells)
    BY <2>6, <2>7, FS_Surjection
  <2>9. KeysOf(i) \subseteq cells
    BY DEF KeysOf
  <2> QED
    BY <2>8, <2>9, FS_Subset
<1>3. DOMAIN Ready = {}
  BY DEF Ready
<1>4. i \in Imported => Message(i) # Ready
  BY <1>1, <1>3 DEF Imported
<1>5. Message(i) # Done
  BY DoneAssumption DEF Rows
<1>6. KeysOf(i) = {} => Message(i) = Ready
  BY DEF Message, Ready
<1> QED
  BY <1>1, <1>2, <1>4, <1>5, <1>6

(* A sequence that grows or loses its head has one hit more or less if the *)
(* row added or taken is one, and as many as before if it is not.          *)
Hits(s) == {n \in DOMAIN s : s[n] \in Imported}

LEMMA HitsCount ==
  ASSUME NEW s \in Seq(Read)
  PROVE  IsFiniteSet(Hits(s)) /\ Cardinality(Hits(s)) \in Nat
<1>1. Len(s) \in Nat /\ DOMAIN s = 1..Len(s)
  BY LenProperties
<1>2. IsFiniteSet(1..Len(s))
  BY <1>1, FS_Interval
<1>3. Hits(s) \subseteq 1..Len(s)
  BY <1>1 DEF Hits
<1> QED
  BY <1>2, <1>3, FS_Subset, FS_CardinalityType

LEMMA HitsAppend ==
  ASSUME NEW s \in Seq(Read), NEW x \in Read
  PROVE  Cardinality(Hits(Append(s, x)))
           = IF x \in Imported THEN Cardinality(Hits(s)) + 1 ELSE Cardinality(Hits(s))
<1>1. /\ Len(s) \in Nat /\ DOMAIN s = 1..Len(s)
      /\ DOMAIN Append(s, x) = 1..(Len(s) + 1)
      /\ \A n \in 1..Len(s) : Append(s, x)[n] = s[n]
      /\ Append(s, x)[Len(s) + 1] = x
  BY LenProperties
<1>2. Hits(Append(s, x)) = IF x \in Imported THEN Hits(s) \cup {Len(s) + 1} ELSE Hits(s)
  BY <1>1 DEF Hits
<1>3. Len(s) + 1 \notin Hits(s)
  BY <1>1 DEF Hits
<1> QED
  BY <1>2, <1>3, HitsCount, FS_AddElement

LEMMA HitsTail ==
  ASSUME NEW s \in Seq(Read), s # <<>>
  PROVE  Cardinality(Hits(s))
           = IF Head(s) \in Imported THEN Cardinality(Hits(Tail(s))) + 1 ELSE Cardinality(Hits(Tail(s)))
<1> DEFINE rest == Hits(s) \ {1}
           back == [n \in rest |-> n - 1]
<1>1. /\ Len(s) \in Nat \ {0} /\ DOMAIN s = 1..Len(s) /\ Head(s) = s[1]
      /\ Tail(s) \in Seq(Read) /\ DOMAIN Tail(s) = 1..(Len(s) - 1)
      /\ \A n \in 1..(Len(s) - 1) : Tail(s)[n] = s[n + 1]
  BY LenProperties, EmptySeq, HeadTailProperties
<1>2. back \in Injection(rest, Hits(Tail(s)))
  BY <1>1 DEF Hits, Injection, IsInjective
<1>3. back \in Surjection(rest, Hits(Tail(s)))
  <2> SUFFICES ASSUME NEW m \in Hits(Tail(s)) PROVE \E n \in rest : back[n] = m
    BY <1>2 DEF Injection, Surjection
  <2>1. m \in 1..(Len(s) - 1) /\ m + 1 \in rest
    BY <1>1 DEF Hits
  <2> QED
    BY <2>1
<1>4. IsFiniteSet(rest) /\ ExistsBijection(rest, Hits(Tail(s)))
  BY <1>2, <1>3, HitsCount, FS_RemoveElement DEF Bijection, ExistsBijection
<1>5. Cardinality(Hits(Tail(s))) = Cardinality(rest)
  BY <1>4, FS_Bijection
<1>6. 1 \in Hits(s) <=> Head(s) \in Imported
  BY <1>1 DEF Hits
<1>7. Cardinality(rest) = IF 1 \in Hits(s) THEN Cardinality(Hits(s)) - 1 ELSE Cardinality(Hits(s))
  BY HitsCount, FS_RemoveElement
<1> HIDE DEF rest, back
<1> QED
  BY <1>1, <1>5, <1>6, <1>7, HitsCount

(* The rows read are finitely many.                                        *)
LEMMA TakenNext ==
  ASSUME pos \in Rows
  PROVE  Cardinality({i \in Imported : i < pos + 1})
           = IF pos \in Imported THEN Cardinality(Taken) + 1 ELSE Cardinality(Taken)
<1>1. IsFiniteSet(Taken)
  <2>1. Taken \subseteq 1..Len(Source) /\ IsFiniteSet(1..Len(Source))
    BY Bounds, FS_Interval DEF Taken, Imported, Rows
  <2> QED
    BY <2>1, FS_Subset
<1>2. {i \in Imported : i < pos + 1} = IF pos \in Imported THEN Taken \cup {pos} ELSE Taken
  BY Bounds DEF Taken, Imported, Rows
<1>3. pos \notin Taken
  BY Bounds DEF Taken, Rows
<1>4. Cardinality(Taken) \in Nat
  BY <1>1, FS_CardinalityType
<1> QED
  BY <1>1, <1>2, <1>3, <1>4, FS_AddElement

(* The workers that hold a message are finitely many.                      *)
LEMMA HoldingCount ==
  /\ IsFiniteSet(Holding) /\ Cardinality(Holding) \in Nat
  /\ \A w \in Workers :
       /\ w \notin Holding => Cardinality(Holding \cup {w}) = Cardinality(Holding) + 1
       /\ w \in Holding => Cardinality(Holding \ {w}) = Cardinality(Holding) - 1
<1>1. IsFiniteSet(Holding)
  BY Bounds, FS_Subset DEF Holding
<1> QED
  BY <1>1, FS_CardinalityType, FS_AddElement, FS_RemoveElement
-----------------------------------------------------------------------------
(* Nothing has been read at the start.                                     *)
LEMMA InitIInv == Init => IInv
<1> SUFFICES ASSUME Init PROVE IInv
  OBVIOUS
<1> USE DEF Init
<1>1. Types
  <2>1. crew \subseteq Workers /\ compactors \in Nat
    BY EtlAssumption
  <2>2. <<>> \in Seq(Read) /\ <<>> \in Seq(Messages) /\ Len(<<>>) = 0
    BY EmptySeq
  <2>3. pos \in 1..(Len(Source) + 1)
    BY Bounds
  <2>4. worker \in [Workers -> {Ready, Done} \cup Messages]
    OBVIOUS
  <2>5. IsSequence(batch) /\ IsSequence(mem)
    BY <2>2 DEF IsSequence
  <2> QED
    <3>1. /\ stage \in {"loading", "writing", "reported"} \cup Ended
          /\ streamErr \in BOOLEAN /\ rowClosed \in BOOLEAN /\ kvClosed \in BOOLEAN
          /\ rowCh \in Seq(Read) /\ kvCh \in Seq(Messages)
      BY <2>2
    <3>2. Len(rowCh) <= RowCap /\ Len(kvCh) <= KvCap /\ Len(batch) <= CommitEvery /\ Len(mem) <= MemStop
      BY <2>2, Bounds
    <3>3. level0 \in Nat /\ count \in Nat /\ skipped \in Nat
      OBVIOUS
    <3> HIDE DEF Init
    <3> QED
      BY <2>1, <2>3, <2>4, <2>5, <3>1, <3>2, <3>3 DEF Types
<1>2. Taken = {} /\ Queued = {} /\ Holding = {}
  BY Bounds DEF Taken, Queued, Holding, Imported, Rows
<1>3. Conserved
  BY <1>2, FS_EmptySet, EmptySeq DEF Conserved
<1>4. Closing
  <2>1. \A w \in crew : worker[w] # Done
    BY <1>1, DoneAssumption DEF Types
  <2> QED
    BY <2>1 DEF Closing
<1> QED
  BY <1>1, <1>3, <1>4 DEF IInv

(* A step that moves no row leaves the balance as it is.                   *)
LEMMA Unmoved ==
  ASSUME Conserved, UNCHANGED <<pos, rowCh, worker, kvCh, count>>
  PROVE  Conserved'
BY DEF Conserved, Taken, Queued, Holding

(* The reader: the row it passes is taken, and queued if it can be read.   *)
LEMMA StreamIInv ==
  ASSUME IInv, Stream
  PROVE  IInv'
<1> USE DEF IInv, opts, reader, writer, disk
<1>1. stage' = stage /\ ~rowClosed
  BY DEF Stream, StreamRow, StreamEnds, Streaming
<1>2. CASE StreamRow
  <2>1. pos \in Rows /\ pos' = pos + 1 /\ pos' \in 1..(Len(Source) + 1)
    BY <1>2, Bounds DEF StreamRow, Types, Rows
  <2>2. CASE Source[pos].scans
    <3>1. pos \in Read /\ rowCh' = Append(rowCh, pos) /\ Len(rowCh) < RowCap
      BY <1>2, <2>1, <2>2 DEF StreamRow, Read
    <3>2. rowCh' \in Seq(Read) /\ Len(rowCh') = Len(rowCh) + 1 /\ Len(rowCh) \in Nat
      BY <3>1, AppendProperties, LenProperties DEF Types
    <3>3. Types'
      <4>1. Len(rowCh') <= RowCap
        BY <3>1, <3>2, Bounds
      <4>2. UNCHANGED <<opts, streamErr, rowClosed, worker, kvCh, kvClosed, batch, mem, level0, count, skipped>>
        BY <1>2 DEF StreamRow
      <4> QED
        BY <1>1, <2>1, <3>2, <4>1, <4>2 DEF Types
    <3>4. Cardinality(Queued')
            = IF pos \in Imported THEN Cardinality(Queued) + 1 ELSE Cardinality(Queued)
      <4>1. rowCh \in Seq(Read) /\ Queued = Hits(rowCh) /\ Queued' = Hits(Append(rowCh, pos))
        BY <3>1 DEF Hits, Queued, Types
      <4> QED
        BY <3>1, <4>1, HitsAppend
    <3>5. Cardinality(Taken')
            = IF pos \in Imported THEN Cardinality(Taken) + 1 ELSE Cardinality(Taken)
      BY <2>1, TakenNext DEF Taken
    <3>6. Conserved'
      <4>1. Holding' = Holding /\ kvCh' = kvCh /\ count' = count
        BY <1>2 DEF StreamRow, Holding
      <4> HIDE DEF Queued, Taken, Holding
      <4>2. Cardinality(Queued) \in Nat /\ Cardinality(Holding) \in Nat /\ Len(kvCh) \in Nat
        BY HitsCount, HoldingCount, LenProperties DEF Types, Queued, Hits
      <4> QED
        BY <3>4, <3>5, <4>1, <4>2 DEF Conserved, Types
    <3>7. Closing'
      BY <1>1, <1>2 DEF StreamRow, Closing
    <3> QED
      BY <3>3, <3>6, <3>7
  <2>3. CASE ~Source[pos].scans
    <3>1. rowCh' = rowCh /\ pos \notin Imported
      BY <1>2, <2>3 DEF StreamRow, Imported
    <3>2. Types'
      BY <1>1, <1>2, <2>1, <3>1 DEF StreamRow, Types
    <3>3. Cardinality(Taken') = Cardinality(Taken)
      BY <2>1, <3>1, TakenNext DEF Taken
    <3>4. Queued' = Queued /\ Holding' = Holding /\ kvCh' = kvCh /\ count' = count
      BY <1>2, <3>1 DEF StreamRow, Queued, Holding
    <3>5. Conserved'
      BY <3>3, <3>4 DEF Conserved
    <3>6. Closing'
      BY <1>1, <1>2 DEF StreamRow, Closing
    <3> QED
      BY <3>2, <3>5, <3>6
  <2> QED
    BY <2>2, <2>3
<1>3. CASE StreamEnds
  <2>1. UNCHANGED <<pos, rowCh, worker, kvCh, count, kvClosed, crew>> /\ rowClosed'
        /\ (streamErr' \/ pos' > Len(Source)) /\ streamErr' \in BOOLEAN
    BY <1>3 DEF StreamEnds, Types
  <2>2. Types'
    BY <1>1, <1>3, <2>1 DEF StreamEnds, Types
  <2>3. Conserved'
    BY <2>1, Unmoved
  <2>4. Closing'
    BY <1>1, <2>1 DEF Closing
  <2> QED
    BY <2>2, <2>3, <2>4
<1> QED
  BY <1>2, <1>3 DEF Stream

(* The workers: a message passes from rowCh through the hands of one of    *)
(* them into kvCh, which is open as long as one is not done.               *)
LEMMA WorkIInv ==
  ASSUME IInv, NEW w \in Workers, Work(w)
  PROVE  IInv'
<1> USE DEF IInv, opts, reader, writer, disk
<1>1. stage' = stage /\ ~kvClosed /\ worker[w] # Done /\ w \in crew
      /\ UNCHANGED <<crew, pos, streamErr, rowClosed, kvClosed, count>>
  BY DEF Work, TakeRow, SendPairs, WorkerDone, Working, Closing
<1>2. stage \notin {"reported", "exited"}
  BY <1>1 DEF Closing
<1>3. Taken' = Taken
  BY <1>1 DEF Taken
<1>4. /\ Cardinality(Queued) \in Nat /\ Cardinality(Holding) \in Nat /\ Len(kvCh) \in Nat
  BY HitsCount, HoldingCount, LenProperties DEF Types, Queued, Hits
<1>5. CASE TakeRow(w)
  <2> DEFINE i == Head(rowCh)
  <2>1. /\ worker[w] = Ready /\ rowCh # <<>> /\ rowCh' = Tail(rowCh) /\ kvCh' = kvCh
        /\ worker' = [worker EXCEPT ![w] = Message(i)]
    BY <1>5 DEF TakeRow
  <2>2. /\ i \in Read /\ i \in Rows /\ rowCh' \in Seq(Read)
        /\ Len(rowCh') = Len(rowCh) - 1 /\ Len(rowCh) \in Nat
    BY <2>1, HeadTailProperties, LenProperties DEF Types, Read
  <2>3. i \in Imported \/ Message(i) = Ready
    BY <2>2, MessageFacts DEF Imported, Read
  <2>4. Types'
    <3>1. Message(i) \in {Ready, Done} \cup Messages
      BY <2>3 DEF Messages
    <3>2. worker' \in [Workers -> {Ready, Done} \cup Messages]
      BY <2>1, <3>1 DEF Types
    <3>3. Len(rowCh') <= RowCap
      BY <2>2, Bounds DEF Types
    <3> QED
      BY <1>1, <1>5, <2>1, <2>2, <3>2, <3>3 DEF TakeRow, Types
  <2>5. Cardinality(Queued)
          = IF i \in Imported THEN Cardinality(Queued') + 1 ELSE Cardinality(Queued')
    BY <2>1, HitsTail DEF Hits, Queued, Types
  <2>6. Cardinality(Holding')
          = IF i \in Imported THEN Cardinality(Holding) + 1 ELSE Cardinality(Holding)
    <3>1. CASE i \in Imported
      <4>1. Message(i) \notin {Ready, Done}
        BY <2>2, <3>1, MessageFacts
      <4>2. Holding' = Holding \cup {w} /\ w \notin Holding
        BY <2>1, <4>1 DEF Holding, Types
      <4> QED
        BY <3>1, <4>2, HoldingCount
    <3>2. CASE i \notin Imported
      <4>1. Holding' = Holding
        BY <2>1, <2>3, <3>2 DEF Holding, Types
      <4> QED
        BY <3>2, <4>1
    <3> QED
      BY <3>1, <3>2
  <2>7. Cardinality(Queued') \in Nat
    BY <2>2, HitsCount DEF Queued, Hits
  <2>8. Conserved'
    <3> HIDE DEF i
    <3> QED
      BY <1>1, <1>3, <1>4, <2>1, <2>5, <2>6, <2>7 DEF Conserved, Types
  <2>9. Closing'
    <3>1. Message(i) # Done
      BY <2>2, DoneAssumption DEF Rows
    <3>2. \A v \in Workers : worker'[v] = Done => v # w /\ worker[v] = Done
      BY <2>1, <3>1 DEF Types
    <3>3. rowClosed /\ rowCh = <<>> => FALSE
      BY <2>1
    <3> QED
      BY <1>1, <1>2, <2>1, <3>2 DEF Closing, Types
  <2> QED
    BY <2>4, <2>8, <2>9
<1>6. CASE SendPairs(w)
  <2>1. /\ worker[w] # Ready /\ rowCh' = rowCh /\ kvCh' = Append(kvCh, worker[w])
        /\ worker' = [worker EXCEPT ![w] = Ready] /\ Len(kvCh) < KvCap
    BY <1>6 DEF SendPairs
  <2>2. worker[w] \in Messages
    BY <1>1, <2>1 DEF Types
  <2>3. kvCh' \in Seq(Messages) /\ Len(kvCh') = Len(kvCh) + 1
    BY <2>1, <2>2, AppendProperties DEF Types
  <2>4. Types'
    <3>1. Len(kvCh') <= KvCap
      BY <1>4, <2>1, <2>3, Bounds
    <3> QED
      BY <1>1, <1>6, <2>1, <2>3, <3>1 DEF SendPairs, Types
  <2>5. Queued' = Queued
    BY <2>1 DEF Queued
  <2>6. Holding' = Holding \ {w} /\ w \in Holding
    BY <1>1, <2>1 DEF Holding, Types
  <2>7. Cardinality(Holding') = Cardinality(Holding) - 1
    BY <2>6, HoldingCount
  <2>8. Conserved'
    BY <1>1, <1>3, <1>4, <2>3, <2>5, <2>7 DEF Conserved, Types
  <2>9. Closing'
    <3>1. \A v \in Workers : worker'[v] = Done => v # w /\ worker[v] = Done
      BY <2>1, DoneAssumption DEF Types
    <3> QED
      BY <1>1, <1>2, <2>1, <3>1 DEF Closing, Types
  <2> QED
    BY <2>4, <2>8, <2>9
<1>7. CASE WorkerDone(w)
  <2>1. /\ worker[w] = Ready /\ rowCh = <<>> /\ rowClosed /\ rowCh' = rowCh /\ kvCh' = kvCh
        /\ worker' = [worker EXCEPT ![w] = Done]
    BY <1>7 DEF WorkerDone
  <2>2. Types'
    BY <1>1, <1>7, <2>1 DEF WorkerDone, Types
  <2>3. Queued' = Queued /\ Holding' = Holding
    BY <2>1 DEF Queued, Holding, Types
  <2>4. Conserved'
    BY <1>1, <1>3, <2>1, <2>3 DEF Conserved
  <2>5. Closing'
    BY <1>1, <1>2, <2>1 DEF Closing, Types
  <2> QED
    BY <2>2, <2>4, <2>5
<1> QED
  BY <1>5, <1>6, <1>7 DEF Work
-----------------------------------------------------------------------------
(* A sequence, whatever of, can grow by anything and lose its head.        *)
LEMMA SequenceFacts ==
  ASSUME NEW s, IsSequence(s), NEW x
  PROVE  /\ Len(s) \in Nat
         /\ IsSequence(Append(s, x)) /\ Len(Append(s, x)) = Len(s) + 1
         /\ s # <<>> => IsSequence(Tail(s)) /\ Len(Tail(s)) = Len(s) - 1
<1>1. PICK S : s \in Seq(S)
  BY DEF IsSequence
<1>2. s \in Seq(S \cup {x})
  BY <1>1, SeqMonotonic
<1>3. Append(s, x) \in Seq(S \cup {x}) /\ Len(Append(s, x)) = Len(s) + 1 /\ Len(s) \in Nat
  BY <1>2, AppendProperties, LenProperties
<1>4. s # <<>> => Tail(s) \in Seq(S) /\ Len(Tail(s)) = Len(s) - 1
  BY <1>1, HeadTailProperties
<1> QED
  BY <1>3, <1>4 DEF IsSequence

LEMMA NoneSequence == IsSequence(<<>>) /\ Len(<<>>) = 0
BY EmptySeq DEF IsSequence

(* A commit or its failure touches the batch, the memtables and the stage. *)
LEMMA CommitTypes ==
  ASSUME Types, CommitBatch
  PROVE  /\ IsSequence(batch') /\ Len(batch') <= CommitEvery
         /\ IsSequence(mem') /\ Len(mem') <= MemStop
<1>1. IsSequence(batch') /\ Len(batch') <= CommitEvery
  BY NoneSequence, Bounds DEF CommitBatch
<1>2. CASE UNCHANGED mem
  BY <1>1, <1>2 DEF Types
<1>3. CASE Room /\ mem' = Append(mem, batch)
  <2>1. IsSequence(mem') /\ Len(mem') = Len(mem) + 1 /\ Len(mem) \in Nat
    BY <1>3, SequenceFacts DEF Types
  <2> QED
    BY <1>1, <1>3, <2>1, Bounds DEF Room
<1> QED
  BY <1>2, <1>3 DEF CommitBatch

(* The writer: a message it takes is counted; it ends when kvCh is empty   *)
(* and closed.                                                             *)
LEMMA WriteIInv ==
  ASSUME IInv, Write
  PROVE  IInv'
<1> USE DEF IInv, opts, reader, writer, disk
<1>1. CASE WritePairs
  <2>1. /\ kvCh # <<>> /\ kvCh' = Tail(kvCh) /\ count' = count + 1 /\ Len(batch) # CommitEvery
        /\ UNCHANGED <<crew, compactors, stage, pos, streamErr, rowClosed, rowCh, worker, kvClosed, mem, level0>>
    BY <1>1 DEF WritePairs, CommitIsDue
  <2>2. PICK m : /\ batch' = Append(batch, m)
                 /\ skipped' = skipped + Cardinality(DOMAIN Head(kvCh) \ DOMAIN m)
    BY <1>1 DEF WritePairs
  <2>3. /\ Head(kvCh) \in Messages /\ kvCh' \in Seq(Messages)
        /\ Len(kvCh') = Len(kvCh) - 1 /\ Len(kvCh) \in Nat
    BY <2>1, HeadTailProperties, LenProperties DEF Types
  <2>4. Cardinality(DOMAIN Head(kvCh) \ DOMAIN m) \in Nat
    <3>1. PICK i \in Rows : Head(kvCh) = Message(i)
      BY <2>3 DEF Messages, Imported
    <3>2. IsFiniteSet(DOMAIN Head(kvCh))
      BY <3>1, MessageFacts
    <3> QED
      BY <3>2, FS_Difference, FS_CardinalityType
  <2>5. IsSequence(batch') /\ Len(batch') <= CommitEvery
    <3>1. IsSequence(batch') /\ Len(batch') = Len(batch) + 1 /\ Len(batch) \in Nat
      BY <2>2, SequenceFacts DEF Types
    <3> QED
      BY <2>1, <3>1, Bounds DEF Types
  <2>6. Types'
    <3>1. count' \in Nat /\ skipped' \in Nat /\ Len(kvCh') <= KvCap
      BY <2>1, <2>2, <2>3, <2>4, Bounds DEF Types
    <3> QED
      BY <2>1, <2>3, <2>5, <3>1 DEF Types
  <2>7. Conserved'
    <3>1. Taken' = Taken /\ Queued' = Queued /\ Holding' = Holding
      BY <2>1 DEF Taken, Queued, Holding
    <3>2. Cardinality(Queued) \in Nat /\ Cardinality(Holding) \in Nat
      BY HitsCount, HoldingCount DEF Types, Queued, Hits
    <3>3. count \in Nat /\ Cardinality(Taken) = Cardinality(Queued) + Cardinality(Holding) + Len(kvCh) + count
      BY DEF Conserved, Types
    <3>4. Cardinality(Taken)
            = Cardinality(Queued) + Cardinality(Holding) + Len(kvCh') + count'
      BY <2>1, <2>3, <3>2, <3>3
    <3> QED
      BY <3>1, <3>4 DEF Conserved
  <2>8. Closing'
    BY <1>1, <2>1 DEF WritePairs, Closing
  <2> QED
    BY <2>6, <2>7, <2>8
<1>2. CASE PeriodicCommit \/ FinalCommit
  <2>1. UNCHANGED <<crew, compactors, pos, streamErr, rowClosed, rowCh, worker, kvCh, kvClosed, count, skipped, level0>>
    BY <1>2 DEF PeriodicCommit, FinalCommit
  <2>2. /\ stage = "writing" /\ stage' \in {"writing", "reported", "failed"}
        /\ stage' = "reported" => kvClosed /\ kvCh = <<>>
    BY <1>2 DEF PeriodicCommit, FinalCommit
  <2>3. CommitBatch \/ UNCHANGED <<batch, mem>>
    BY <1>2 DEF PeriodicCommit, FinalCommit
  <2>4. /\ IsSequence(batch') /\ Len(batch') <= CommitEvery
        /\ IsSequence(mem') /\ Len(mem') <= MemStop
    BY <2>3, CommitTypes DEF Types
  <2>5. Types'
    BY <2>1, <2>2, <2>4 DEF Types, Ended
  <2>6. Conserved'
    BY <2>1, Unmoved
  <2>7. Closing'
    BY <2>1, <2>2 DEF Closing
  <2> QED
    BY <2>5, <2>6, <2>7
<1>3. CASE ClosePebble
  <2>1. /\ UNCHANGED <<crew, compactors, pos, streamErr, rowClosed, rowCh, worker, kvCh, kvClosed, batch, count, skipped, level0>>
        /\ stage = "reported" /\ stage' = "exited" /\ mem' = mem
    BY <1>3 DEF ClosePebble
  <2>2. IsSequence(mem') /\ Len(mem') <= MemStop
    BY <2>1 DEF Types
  <2>3. Types'
    BY <2>1, <2>2 DEF Types, Ended
  <2>4. Conserved'
    BY <2>1, Unmoved
  <2>5. Closing'
    BY <2>1 DEF Closing
  <2> QED
    BY <2>3, <2>4, <2>5
<1> QED
  BY <1>1, <1>2, <1>3 DEF Write

(* Opening, the closing goroutine, Pebble's goroutines and a kill.         *)
LEMMA OtherIInv ==
  ASSUME IInv, Load \/ CloseKv \/ Flush \/ Compact \/ Kill
  PROVE  IInv'
<1> USE DEF IInv, opts, reader, writer, disk
<1>1. UNCHANGED <<crew, compactors, pos, streamErr, rowClosed, rowCh, worker, kvCh, batch, count, skipped>>
  BY DEF Load, CloseKv, Flush, Compact, Kill
<1>2. /\ stage' \in {"loading", "writing", "reported"} \cup Ended
      /\ stage' \in {"reported", "exited"} => stage' = stage
  BY DEF Load, CloseKv, Flush, Compact, Kill, Types, Ended
<1>3. /\ kvClosed' \in BOOLEAN
      /\ kvClosed => kvClosed'
      /\ kvClosed' => kvClosed \/ \A w \in Workers : worker[w] = Done
  <2>1. CASE CloseKv
    BY <2>1 DEF CloseKv
  <2>2. CASE Load \/ Flush \/ Compact \/ Kill
    <3>1. UNCHANGED kvClosed
      BY <2>2 DEF Load, Flush, Compact, Kill
    <3> QED
      BY <3>1 DEF Types
  <2> QED
    BY <2>1, <2>2
<1>4. IsSequence(mem') /\ Len(mem') <= MemStop /\ level0' \in Nat
  <2>1. CASE Flush
    <3>1. mem # <<>> /\ mem' = Tail(mem) /\ level0' = level0 + 1
      BY <2>1 DEF Flush
    <3>2. IsSequence(mem') /\ Len(mem') = Len(mem) - 1 /\ Len(mem) \in Nat
      BY <3>1, SequenceFacts DEF Types
    <3> QED
      BY <3>1, <3>2, Bounds DEF Types
  <2>2. CASE Compact
    BY <2>2 DEF Compact, Types
  <2>3. CASE Load \/ CloseKv \/ Kill
    <3>1. UNCHANGED <<mem, level0>>
      BY <2>3 DEF Load, CloseKv, Kill
    <3> QED
      BY <3>1 DEF Types
  <2> QED
    BY <2>1, <2>2, <2>3
<1>5. Types'
  BY <1>1, <1>2, <1>3, <1>4 DEF Types
<1>6. Conserved'
  BY <1>1, Unmoved
<1>7. Closing'
  BY <1>1, <1>2, <1>3 DEF Closing
<1> QED
  BY <1>5, <1>6, <1>7

\* The inductive invariant.
THEOREM Invariance == Spec => []IInv
<1>1. IInv /\ [Next]_vars => IInv'
  <2> SUFFICES ASSUME IInv, [Next]_vars PROVE IInv'
    OBVIOUS
  <2>1. CASE UNCHANGED vars
    BY <2>1 DEF vars, opts, reader, writer, disk, IInv, Types, Conserved, Closing, Taken, Queued, Holding
  <2>2. CASE Stream
    BY <2>2, StreamIInv
  <2>3. ASSUME NEW w \in Workers, Work(w) PROVE IInv'
    BY <2>3, WorkIInv
  <2>4. CASE Write
    BY <2>4, WriteIInv
  <2>5. CASE Load \/ CloseKv \/ Flush \/ Compact \/ Kill
    BY <2>5, OtherIInv
  <2> QED
    BY <2>1, <2>2, <2>3, <2>4, <2>5 DEF Next
<1> QED
  BY <1>1, InitIInv, PTL DEF Spec

(* The importer's variables keep their types: no channel, batch or memtable*)
(* queue outgrows its bound, and what a worker holds is a message of a row.*)
THEOREM TypeCorrect == Spec => []TypeOK
<1>1. IInv => TypeOK
  <2> SUFFICES ASSUME IInv PROVE TypeOK
    OBVIOUS
  <2>1. rowCh \in Seq(Rows)
    <3>1. rowCh \in Seq(Read) /\ Read \subseteq Rows
      BY DEF IInv, Types, Read
    <3> QED
      BY <3>1, SeqMonotonic
  <2> QED
    BY <2>1 DEF IInv, Types, TypeOK, Messages
<1> QED
  BY <1>1, Invariance, PTL

(* No row with a hash is lost or doubled on its way to the writer, nobody  *)
(* sends on a closed channel, and a final count is that of the whole table *)
(* unless the stream failed or no worker was started.                      *)
THEOREM NothingLost == Spec => []NothingLostInFlight
<1>1. IInv => NothingLostInFlight
  <2> SUFFICES ASSUME IInv PROVE NothingLostInFlight
    OBVIOUS
  <2> USE DEF IInv
  <2>1. Cardinality(Taken) = Cardinality(Queued) + Cardinality(Holding) + Len(kvCh) + count
    BY DEF Conserved
  <2>2. kvClosed => \A w \in Workers : worker[w] = Done
    BY DEF Closing
  <2>3. ASSUME stage \in {"reported", "exited"}, crew # {}
        PROVE  count = Cardinality(Taken) /\ (streamErr \/ pos > Len(Source))
    <3>1. kvCh = <<>> /\ \A w \in Workers : worker[w] = Done
      BY <2>3 DEF Closing
    <3>2. rowClosed /\ rowCh = <<>>
      BY <2>3, <3>1 DEF Closing, Types
    <3>3. Queued = {} /\ Holding = {}
      BY <3>1, <3>2 DEF Queued, Holding
    <3>4. Cardinality(Queued) = 0 /\ Cardinality(Holding) = 0 /\ Len(kvCh) = 0 /\ count \in Nat
      BY <3>1, <3>3, FS_EmptySet, EmptySeq DEF Types
    <3> QED
      BY <2>1, <3>2, <3>4 DEF Closing
  <2> QED
    BY <2>1, <2>2, <2>3 DEF NothingLostInFlight, Taken, Queued, Holding
<1> QED
  BY <1>1, Invariance, PTL
-----------------------------------------------------------------------------
\* The rows whose messages are in a sequence, or in the committed batches.
In(s)     == {i \in Imported : \E n \in DOMAIN s : s[n] = Message(i)}
Memory(m) == UNION {In(m[b]) : b \in DOMAIN m}

\* Where a row with a hash may be, from the table to the disk.
AtTable == {i \in Imported : i >= pos}
AtRows  == {i \in Imported : \E n \in DOMAIN rowCh : rowCh[n] = i}
AtHands == {i \in Imported : \E w \in Workers : worker[w] = Message(i)}
Place   == <<AtTable, AtRows, AtHands, In(kvCh), In(batch), Memory(mem), In(durable)>>

Apart(place)  == \A p, q \in 1..7 : p # q => place[p] \cap place[q] = {}
Covers(place) == \A i \in Imported : \E p \in 1..7 : i \in place[p]

\* A row is in no place twice.
Once(s) == \A m, n \in DOMAIN s : s[m] = s[n] => m = n

Sound(m) ==
  /\ m \in Seq(Seq(Messages))
  /\ \A b \in DOMAIN m : m[b] # <<>> /\ Once(m[b])
  /\ \A b, c \in DOMAIN m : b # c => In(m[b]) \cap In(m[c]) = {}

RowsOnce  == \A m, n \in DOMAIN rowCh : rowCh[m] = rowCh[n] /\ rowCh[m] \in Imported => m = n
HandsOnce == \A v, w \in Workers : worker[v] = worker[w] /\ worker[v] \in Messages => v = w
Single    == RowsOnce /\ HandsOnce /\ Once(kvCh) /\ Once(batch) /\ Once(durable) /\ Sound(mem)

\* A row is in exactly one place.
Spread == Apart(Place) /\ Covers(Place)

\* Without workers nothing comes out of the table; the writer leaves nothing.
Drained ==
  /\ crew = {} => kvCh = <<>> /\ batch = <<>> /\ mem = <<>> /\ durable = <<>>
  /\ stage \in {"reported", "exited"} => batch = <<>>

Placed ==
  /\ batch \in Seq(Messages) /\ durable \in Seq(Messages)
  /\ Single /\ Spread /\ Drained

(* The value under a key is that of the last write that sets it, or the    *)
(* old one if none does.                                                   *)
LEMMA LastWrite ==
  ASSUME NEW S, NEW s \in Seq(S), NEW key, Setting(key, s) # {}
  PROVE  /\ Max(Setting(key, s)) \in Setting(key, s)
         /\ \A n \in Setting(key, s) : n <= Max(Setting(key, s))
<1>1. Len(s) \in Nat /\ DOMAIN s = 1..Len(s)
  BY LenProperties
<1>2. Setting(key, s) \subseteq 0..Len(s)
  BY <1>1 DEF Setting
<1>3. PICK x \in Setting(key, s) : \A y \in Setting(key, s) : y <= x
  BY <1>1, <1>2, GreatestNatural
<1>4. \A y \in Setting(key, s) : x >= y
  BY <1>1, <1>2, <1>3
<1>5. /\ Max(Setting(key, s)) \in Setting(key, s)
      /\ \A y \in Setting(key, s) : Max(Setting(key, s)) >= y
  BY <1>4 DEF Max
<1> QED
  BY <1>1, <1>2, <1>5

LEMMA WrittenBy ==
  ASSUME NEW S, NEW s \in Seq(S), NEW old, NEW key, NEW n \in Setting(key, s),
         \A m \in Setting(key, s) : m <= n
  PROVE  key \in DOMAIN Written(old, s) /\ Written(old, s)[key] = s[n][key]
<1>1. Max(Setting(key, s)) = n
  <2>1. Max(Setting(key, s)) \in Setting(key, s) /\ n <= Max(Setting(key, s))
    BY LastWrite
  <2>2. Max(Setting(key, s)) <= n
    BY <2>1
  <2>3. n \in Nat /\ Max(Setting(key, s)) \in Nat
    BY <2>1, LenProperties DEF Setting
  <2> QED
    BY <2>1, <2>2, <2>3
<1>2. key \in AllKeys(old, s)
  BY DEF AllKeys, Setting
<1> QED
  BY <1>1, <1>2 DEF Written

(* Where the elements of two sequences are, one put behind the other.      *)
LEMMA ConcatParts ==
  ASSUME NEW S, NEW s \in Seq(S), NEW t \in Seq(S)
  PROVE  /\ s \o t \in Seq(S)
         /\ Len(s) \in Nat /\ Len(t) \in Nat
         /\ DOMAIN s = 1..Len(s) /\ DOMAIN t = 1..Len(t) /\ DOMAIN (s \o t) = 1..(Len(s) + Len(t))
         /\ \A n \in 1..Len(s) : (s \o t)[n] = s[n]
         /\ \A n \in 1..Len(t) : (s \o t)[Len(s) + n] = t[n]
<1> DEFINE both == s \o t
<1>1. both \in Seq(S) /\ Len(both) = Len(s) + Len(t)
      /\ \A n \in 1..Len(s) + Len(t) : both[n] = IF n <= Len(s) THEN s[n] ELSE t[n - Len(s)]
  BY ConcatProperties
<1>2. Len(s) \in Nat /\ Len(t) \in Nat /\ DOMAIN s = 1..Len(s) /\ DOMAIN t = 1..Len(t)
      /\ DOMAIN both = 1..Len(both)
  BY <1>1, LenProperties
<1> HIDE DEF both
<1>3. \A n \in 1..Len(s) : both[n] = s[n]
  BY <1>1, <1>2
<1>4. ASSUME NEW n \in 1..Len(t) PROVE both[Len(s) + n] = t[n]
  <2>1. Len(s) + n \in 1..(Len(s) + Len(t)) /\ ~ (Len(s) + n <= Len(s)) /\ (Len(s) + n) - Len(s) = n
    BY <1>2
  <2> QED
    BY <1>1, <2>1
<1> QED
  BY <1>1, <1>2, <1>3, <1>4 DEF both

(* No write changes nothing, and two runs of writes, one after the other,  *)
(* leave what one run of all of them leaves.                               *)
LEMMA WrittenNone ==
  ASSUME NEW old, old = [key \in DOMAIN old |-> old[key]]
  PROVE  Written(old, <<>>) = old
<1>1. DOMAIN <<>> = {}
  OBVIOUS
<1>2. AllKeys(old, <<>>) = DOMAIN old /\ \A key : Setting(key, <<>>) = {}
  BY <1>1 DEF AllKeys, Setting
<1> QED
  BY <1>2 DEF Written

LEMMA WrittenTwice ==
  ASSUME NEW S, NEW s \in Seq(S), NEW t \in Seq(S), NEW old
  PROVE  Written(Written(old, s), t) = Written(old, s \o t)
<1> DEFINE both == s \o t
           once == Written(old, s)
<1>1. /\ both \in Seq(S)
      /\ Len(s) \in Nat /\ Len(t) \in Nat
      /\ DOMAIN s = 1..Len(s) /\ DOMAIN t = 1..Len(t) /\ DOMAIN both = 1..(Len(s) + Len(t))
      /\ \A n \in 1..Len(s) : both[n] = s[n]
      /\ \A n \in 1..Len(t) : both[Len(s) + n] = t[n]
  BY ConcatParts
<1>2. \A key : Setting(key, both) = Setting(key, s) \cup {Len(s) + n : n \in Setting(key, t)}
  <2> HIDE DEF both
  <2> TAKE key
  <2>1. ASSUME NEW n \in Setting(key, both)
        PROVE  n \in Setting(key, s) \cup {Len(s) + m : m \in Setting(key, t)}
    <3>1. n \in 1..(Len(s) + Len(t)) /\ key \in DOMAIN both[n]
      BY <1>1 DEF Setting
    <3>2. CASE n \in 1..Len(s)
      BY <1>1, <3>1, <3>2 DEF Setting
    <3>3. CASE n \notin 1..Len(s)
      <4>1. n - Len(s) \in 1..Len(t) /\ n = Len(s) + (n - Len(s))
        BY <1>1, <3>1, <3>3
      <4>2. n - Len(s) \in Setting(key, t)
        BY <1>1, <3>1, <4>1 DEF Setting
      <4> QED
        BY <4>1, <4>2
    <3> QED
      BY <3>2, <3>3
  <2>2. ASSUME NEW n \in Setting(key, s) PROVE n \in Setting(key, both)
    BY <1>1 DEF Setting
  <2>3. ASSUME NEW n \in Setting(key, t) PROVE Len(s) + n \in Setting(key, both)
    <3>1. n \in 1..Len(t) /\ key \in DOMAIN t[n]
      BY <1>1 DEF Setting
    <3>2. Len(s) + n \in DOMAIN both
      BY <1>1, <3>1
    <3> QED
      BY <1>1, <3>1, <3>2 DEF Setting
  <2> QED
    BY <2>1, <2>2, <2>3
<1>3. DOMAIN once = AllKeys(old, s)
  BY DEF Written
<1>4. AllKeys(once, t) = AllKeys(old, both)
  <2>0. \A o, w, key : key \in AllKeys(o, w) <=> key \in DOMAIN o \/ Setting(key, w) # {}
    BY DEF AllKeys, Setting
  <2> HIDE DEF both, once
  <2>1. \A key : key \in AllKeys(once, t) <=> key \in DOMAIN old \/ Setting(key, s) # {} \/ Setting(key, t) # {}
    <3>1. \A key : key \in AllKeys(once, t) <=> key \in DOMAIN once \/ Setting(key, t) # {}
      BY <2>0
    <3>2. \A key : key \in AllKeys(old, s) <=> key \in DOMAIN old \/ Setting(key, s) # {}
      BY <2>0
    <3>3. \A key : key \in DOMAIN once <=> key \in DOMAIN old \/ Setting(key, s) # {}
      BY <1>3, <3>2
    <3> QED
      BY <3>1, <3>3
  <2>2. \A key : Setting(key, both) # {} <=> Setting(key, s) # {} \/ Setting(key, t) # {}
    <3> TAKE key
    <3> DEFINE shifted == {Len(s) + n : n \in Setting(key, t)}
    <3>1. shifted # {} <=> Setting(key, t) # {}
      OBVIOUS
    <3>2. Setting(key, both) = Setting(key, s) \cup shifted
      BY <1>2
    <3> HIDE DEF shifted
    <3> QED
      BY <3>1, <3>2
  <2>3. \A key : key \in AllKeys(once, t) <=> key \in AllKeys(old, both)
    BY <2>0, <2>1, <2>2
  <2>4. AllKeys(once, t) \subseteq AllKeys(old, both) /\ AllKeys(old, both) \subseteq AllKeys(once, t)
    BY <2>3
  <2> QED
    BY <2>4
<1>5. ASSUME NEW key \in AllKeys(old, both)
      PROVE  Written(once, t)[key] = Written(old, both)[key]
  <2>1. CASE Setting(key, t) # {}
    <3>1. PICK n \in Setting(key, t) : \A m \in Setting(key, t) : m <= n
      BY <2>1, LastWrite
    <3>2. n \in 1..Len(t)
      BY <1>1 DEF Setting
    <3>3. Len(s) + n \in Setting(key, both)
      BY <1>2
    <3>4. \A m \in Setting(key, both) : m <= Len(s) + n
      <4> HIDE DEF both
      <4>1. Setting(key, s) \subseteq 1..Len(s) /\ Setting(key, t) \subseteq 1..Len(t)
        BY <1>1 DEF Setting
      <4> QED
        BY <1>1, <1>2, <3>1, <3>2, <4>1
    <3>5. Written(once, t)[key] = t[n][key]
      <4> HIDE DEF once
      <4> QED
        BY <3>1, WrittenBy
    <3>6. Written(old, both)[key] = both[Len(s) + n][key]
      <4>1. both \in Seq(S)
        BY <1>1
      <4> HIDE DEF both
      <4> QED
        BY <3>3, <3>4, <4>1, WrittenBy
    <3> QED
      BY <1>1, <3>2, <3>5, <3>6
  <2>2. CASE Setting(key, t) = {}
    <3>1. Written(once, t)[key] = once[key]
      BY <1>4, <2>2 DEF Written
    <3>2. Setting(key, both) = Setting(key, s)
      BY <1>2, <2>2
    <3>3. CASE Setting(key, s) = {}
      <4>1. key \in AllKeys(old, s)
        BY <3>2, <3>3 DEF AllKeys, Setting
      <4>2. once[key] = old[key]
        BY <3>3, <4>1 DEF Written
      <4>3. Written(old, both)[key] = old[key]
        <5> HIDE DEF both
        <5> QED
          BY <3>2, <3>3 DEF Written
      <4> QED
        BY <3>1, <4>2, <4>3
    <3>4. CASE Setting(key, s) # {}
      <4>1. PICK n \in Setting(key, s) : \A m \in Setting(key, s) : m <= n
        BY <3>4, LastWrite
      <4>2. once[key] = s[n][key]
        BY <4>1, WrittenBy
      <4>3. Written(old, both)[key] = both[n][key]
        <5>1. both \in Seq(S)
          BY <1>1
        <5> HIDE DEF both
        <5>2. n \in Setting(key, both) /\ \A m \in Setting(key, both) : m <= n
          BY <3>2, <4>1
        <5> QED
          BY <5>1, <5>2, WrittenBy
      <4>4. n \in 1..Len(s)
        BY <1>1 DEF Setting
      <4> QED
        BY <1>1, <3>1, <4>2, <4>3, <4>4
    <3> QED
      BY <3>3, <3>4
  <2> QED
    BY <2>1, <2>2
<1> HIDE DEF both, once
<1>6. /\ Written(once, t) = [key \in AllKeys(once, t) |-> Written(once, t)[key]]
      /\ Written(old, both) = [key \in AllKeys(old, both) |-> Written(old, both)[key]]
  BY DEF Written
<1>7. Written(once, t) = Written(old, both)
  BY <1>4, <1>5, <1>6
<1> QED
  BY <1>7 DEF both, once
-----------------------------------------------------------------------------
(* A message of a row with a hash says which row it is of.                 *)
LEMMA MessageInjective ==
  ASSUME NEW i \in Imported, NEW j \in Imported, Message(i) = Message(j)
  PROVE  i = j
<1>1. PICK key \in KeysOf(i) : TRUE
  BY DEF Imported
<1>2. DOMAIN Message(i) = KeysOf(i) /\ DOMAIN Message(j) = KeysOf(j)
  BY DEF Message
<1>3. key \in KeysOf(j)
  BY <1>1, <1>2
<1>4. Message(i)[key] = i /\ Message(j)[key] = j
  BY <1>1, <1>3 DEF Message
<1> QED
  BY <1>4

(* The rows in a sequence of messages that grows, loses its head or is put *)
(* behind another.                                                         *)
LEMMA InNone == In(<<>>) = {} /\ Once(<<>>)
BY DEF In, Once

LEMMA InAppend ==
  ASSUME NEW s \in Seq(Messages), NEW i \in Imported
  PROVE  /\ In(Append(s, Message(i))) = In(s) \cup {i}
         /\ Once(s) /\ i \notin In(s) => Once(Append(s, Message(i)))
<1> DEFINE m == Message(i)
           t == Append(s, m)
<1>1. m \in Messages
  BY DEF Messages
<1>2. /\ Len(s) \in Nat /\ DOMAIN s = 1..Len(s) /\ DOMAIN t = 1..(Len(s) + 1)
      /\ \A n \in 1..Len(s) : t[n] = s[n]
      /\ t[Len(s) + 1] = m
  BY <1>1, LenProperties
<1> HIDE DEF t
<1>3. In(t) = In(s) \cup {i}
  <2>1. ASSUME NEW j \in In(t) PROVE j \in In(s) \cup {i}
    <3>1. PICK n \in 1..(Len(s) + 1) : t[n] = Message(j)
      BY <1>2 DEF In
    <3>2. CASE n \in 1..Len(s)
      BY <1>2, <3>1, <3>2 DEF In
    <3>3. CASE n = Len(s) + 1
      BY <1>2, <3>1, <3>3, MessageInjective DEF In
    <3> QED
      BY <1>2, <3>1, <3>2, <3>3
  <2>2. In(s) \subseteq In(t)
    <3> SUFFICES ASSUME NEW j \in In(s) PROVE j \in In(t)
      OBVIOUS
    <3>1. PICK n \in 1..Len(s) : s[n] = Message(j)
      BY <1>2 DEF In
    <3>2. n \in 1..(Len(s) + 1) /\ t[n] = Message(j)
      BY <1>2, <3>1
    <3> QED
      BY <1>2, <3>2 DEF In
  <2>3. i \in In(t)
    <3>1. Len(s) + 1 \in DOMAIN t
      BY <1>2
    <3> QED
      BY <1>2, <3>1 DEF In
  <2> QED
    BY <2>1, <2>2, <2>3
<1>4. ASSUME Once(s), i \notin In(s) PROVE Once(t)
  <2>1. \A n \in 1..Len(s) : s[n] # m
    BY <1>2, <1>4 DEF In
  <2> QED
    BY <1>2, <1>4, <2>1 DEF Once
<1> QED
  BY <1>3, <1>4 DEF t

LEMMA InTail ==
  ASSUME NEW s \in Seq(Messages), s # <<>>, Once(s)
  PROVE  /\ Tail(s) \in Seq(Messages) /\ Once(Tail(s))
         /\ \E i \in Imported : Head(s) = Message(i) /\ i \in In(s) /\ In(Tail(s)) = In(s) \ {i}
<1> DEFINE t == Tail(s)
<1>1. /\ Len(s) \in Nat \ {0} /\ DOMAIN s = 1..Len(s) /\ Head(s) = s[1]
      /\ t \in Seq(Messages) /\ DOMAIN t = 1..(Len(s) - 1)
      /\ \A n \in 1..(Len(s) - 1) : t[n] = s[n + 1]
  BY LenProperties, EmptySeq, HeadTailProperties
<1> HIDE DEF t
<1>2. PICK i \in Imported : s[1] = Message(i)
  <2>1. s[1] \in Messages
    BY <1>1
  <2> QED
    BY <2>1 DEF Messages
<1>3. i \in In(s)
  BY <1>1, <1>2 DEF In
<1>4. i \notin In(t)
  <2> SUFFICES ASSUME NEW n \in 1..(Len(s) - 1), t[n] = Message(i) PROVE FALSE
    BY <1>1 DEF In
  <2>1. n + 1 \in 1..Len(s) /\ 1 \in 1..Len(s) /\ n + 1 # 1
    BY <1>1
  <2>2. s[n + 1] = s[1]
    BY <1>1, <1>2
  <2> QED
    BY <1>1, <2>1, <2>2 DEF Once
<1>5. In(t) \subseteq In(s)
  <2> SUFFICES ASSUME NEW j \in Imported, NEW n \in 1..(Len(s) - 1), t[n] = Message(j)
               PROVE  j \in In(s)
    BY <1>1 DEF In
  <2>1. n + 1 \in 1..Len(s) /\ s[n + 1] = Message(j)
    BY <1>1
  <2> QED
    BY <1>1, <2>1 DEF In
<1>6. ASSUME NEW j \in In(s), j # i PROVE j \in In(t)
  <2>1. PICK n \in 1..Len(s) : s[n] = Message(j)
    BY <1>1 DEF In
  <2>2. n # 1
    BY <1>2, <1>6, <2>1, MessageInjective DEF In
  <2>3. n - 1 \in 1..(Len(s) - 1) /\ (n - 1) + 1 = n
    BY <1>1, <2>1, <2>2
  <2>4. t[n - 1] = Message(j)
    BY <1>1, <2>1, <2>3
  <2> QED
    BY <1>1, <2>3, <2>4 DEF In
<1>7. Once(t)
  <2> SUFFICES ASSUME NEW m \in 1..(Len(s) - 1), NEW n \in 1..(Len(s) - 1), t[m] = t[n]
               PROVE  m = n
    BY <1>1 DEF Once
  <2>1. m + 1 \in 1..Len(s) /\ n + 1 \in 1..Len(s) /\ s[m + 1] = s[n + 1]
    BY <1>1
  <2>2. m + 1 = n + 1
    BY <1>1, <2>1 DEF Once
  <2> QED
    BY <2>2
<1>8. In(t) = In(s) \ {i}
  BY <1>4, <1>5, <1>6
<1> QED
  BY <1>1, <1>2, <1>3, <1>7, <1>8 DEF t

LEMMA InConcat ==
  ASSUME NEW s \in Seq(Messages), NEW t \in Seq(Messages)
  PROVE  /\ s \o t \in Seq(Messages)
         /\ In(s \o t) = In(s) \cup In(t)
         /\ Once(s) /\ Once(t) /\ In(s) \cap In(t) = {} => Once(s \o t)
<1> DEFINE both == s \o t
<1>1. /\ both \in Seq(Messages)
      /\ Len(s) \in Nat /\ Len(t) \in Nat
      /\ DOMAIN s = 1..Len(s) /\ DOMAIN t = 1..Len(t) /\ DOMAIN both = 1..(Len(s) + Len(t))
      /\ \A n \in 1..Len(s) : both[n] = s[n]
      /\ \A n \in 1..Len(t) : both[Len(s) + n] = t[n]
  BY ConcatParts
<1> HIDE DEF both
<1>2. ASSUME NEW n \in 1..(Len(s) + Len(t))
      PROVE  \/ n \in 1..Len(s) /\ both[n] = s[n]
             \/ n - Len(s) \in 1..Len(t) /\ both[n] = t[n - Len(s)]
  <2>1. CASE n \in 1..Len(s)
    BY <1>1, <2>1
  <2>2. CASE n \notin 1..Len(s)
    <3>1. n - Len(s) \in 1..Len(t) /\ n = Len(s) + (n - Len(s))
      BY <1>1, <2>2
    <3> QED
      BY <1>1, <3>1
  <2> QED
    BY <2>1, <2>2
<1>3. ASSUME NEW j \in In(both) PROVE j \in In(s) \cup In(t)
  <2>1. PICK n \in 1..(Len(s) + Len(t)) : both[n] = Message(j)
    BY <1>1 DEF In
  <2> QED
    BY <1>1, <1>2, <2>1 DEF In
<1>4. ASSUME NEW j \in In(s) PROVE j \in In(both)
  <2>1. PICK n \in 1..Len(s) : s[n] = Message(j)
    BY <1>1 DEF In
  <2>2. n \in 1..(Len(s) + Len(t)) /\ both[n] = Message(j)
    BY <1>1, <2>1
  <2> QED
    BY <1>1, <2>2 DEF In
<1>5. ASSUME NEW j \in In(t) PROVE j \in In(both)
  <2>1. PICK n \in 1..Len(t) : t[n] = Message(j)
    BY <1>1 DEF In
  <2>2. Len(s) + n \in 1..(Len(s) + Len(t)) /\ both[Len(s) + n] = Message(j)
    BY <1>1, <2>1
  <2> QED
    BY <1>1, <2>2 DEF In
<1>6. ASSUME Once(s), Once(t), In(s) \cap In(t) = {} PROVE Once(both)
  <2>1. ASSUME NEW m \in 1..Len(s), NEW n \in 1..Len(t), s[m] = t[n] PROVE FALSE
    <3>1. s[m] \in Messages
      BY <1>1
    <3>2. PICK j \in Imported : s[m] = Message(j)
      BY <3>1 DEF Messages
    <3>3. j \in In(s) /\ j \in In(t)
      BY <1>1, <2>1, <3>2 DEF In
    <3> QED
      BY <1>6, <3>3
  <2> SUFFICES ASSUME NEW m \in 1..(Len(s) + Len(t)), NEW n \in 1..(Len(s) + Len(t)), both[m] = both[n]
               PROVE  m = n
    BY <1>1 DEF Once
  <2>2. CASE m \in 1..Len(s) /\ both[m] = s[m] /\ n \in 1..Len(s) /\ both[n] = s[n]
    BY <1>1, <1>6, <2>2 DEF Once
  <2>3. CASE m - Len(s) \in 1..Len(t) /\ both[m] = t[m - Len(s)] /\ n - Len(s) \in 1..Len(t) /\ both[n] = t[n - Len(s)]
    <3>1. m - Len(s) = n - Len(s)
      BY <1>1, <1>6, <2>3 DEF Once
    <3> QED
      BY <1>1, <3>1
  <2> QED
    BY <1>2, <2>1, <2>2, <2>3
<1> QED
  BY <1>1, <1>3, <1>4, <1>5, <1>6 DEF both
-----------------------------------------------------------------------------
(* Committed batches grow by one, or lose the oldest.                      *)
LEMMA MemoryAppend ==
  ASSUME NEW m, Sound(m), NEW s \in Seq(Messages), s # <<>>, Once(s), In(s) \cap Memory(m) = {}
  PROVE  Sound(Append(m, s)) /\ Memory(Append(m, s)) = Memory(m) \cup In(s)
<1> DEFINE t == Append(m, s)
<1>1. /\ Len(m) \in Nat /\ DOMAIN m = 1..Len(m) /\ DOMAIN t = 1..(Len(m) + 1)
      /\ t \in Seq(Seq(Messages))
      /\ \A n \in 1..Len(m) : t[n] = m[n]
      /\ t[Len(m) + 1] = s
  BY LenProperties, AppendProperties DEF Sound
<1> HIDE DEF t
<1>2. DOMAIN t = DOMAIN m \cup {Len(m) + 1} /\ Len(m) + 1 \notin DOMAIN m
  BY <1>1
<1>3. Memory(t) = Memory(m) \cup In(s)
  BY <1>1, <1>2 DEF Memory
<1>4. \A b \in DOMAIN t : t[b] # <<>> /\ Once(t[b])
  BY <1>1, <1>2 DEF Sound
<1>5. \A b \in DOMAIN m : In(m[b]) \cap In(s) = {}
  BY DEF Memory
<1>6. \A b, c \in DOMAIN t : b # c => In(t[b]) \cap In(t[c]) = {}
  <2> SUFFICES ASSUME NEW b \in DOMAIN t, NEW c \in DOMAIN t, b # c PROVE In(t[b]) \cap In(t[c]) = {}
    OBVIOUS
  <2>1. CASE b \in DOMAIN m /\ c \in DOMAIN m
    BY <1>1, <2>1 DEF Sound
  <2>2. CASE b \in DOMAIN m /\ c = Len(m) + 1
    BY <1>1, <1>5, <2>2
  <2>3. CASE b = Len(m) + 1 /\ c \in DOMAIN m
    BY <1>1, <1>5, <2>3
  <2> QED
    BY <1>2, <2>1, <2>2, <2>3
<1> QED
  BY <1>1, <1>3, <1>4, <1>6 DEF Sound, t

LEMMA MemoryTail ==
  ASSUME NEW m, Sound(m), m # <<>>
  PROVE  /\ Head(m) \in Seq(Messages) /\ Head(m) # <<>> /\ Once(Head(m))
         /\ Sound(Tail(m)) /\ Memory(Tail(m)) = Memory(m) \ In(Head(m))
         /\ In(Head(m)) \subseteq Memory(m)
<1> DEFINE t == Tail(m)
<1>1. /\ Len(m) \in Nat \ {0} /\ DOMAIN m = 1..Len(m) /\ Head(m) = m[1]
      /\ t \in Seq(Seq(Messages)) /\ DOMAIN t = 1..(Len(m) - 1)
      /\ \A n \in 1..(Len(m) - 1) : t[n] = m[n + 1]
  BY LenProperties, EmptySeq, HeadTailProperties DEF Sound
<1> HIDE DEF t
<1>2. 1 \in DOMAIN m /\ m[1] \in Seq(Messages)
  BY <1>1 DEF Sound
<1>3. \A b \in DOMAIN t : b + 1 \in DOMAIN m /\ b + 1 # 1 /\ t[b] = m[b + 1]
  BY <1>1
<1>4. \A b \in DOMAIN m : b = 1 \/ (b - 1 \in DOMAIN t /\ t[b - 1] = m[b])
  <2> SUFFICES ASSUME NEW b \in 1..Len(m), b # 1 PROVE b - 1 \in DOMAIN t /\ t[b - 1] = m[b]
    BY <1>1
  <2>1. b - 1 \in 1..(Len(m) - 1) /\ (b - 1) + 1 = b
    BY <1>1
  <2> QED
    BY <1>1, <2>1
<1>5. Memory(t) \subseteq Memory(m) \ In(m[1])
  <2> SUFFICES ASSUME NEW b \in DOMAIN t, NEW j \in In(t[b]) PROVE j \in Memory(m) /\ j \notin In(m[1])
    BY DEF Memory
  <2>1. j \in In(m[b + 1]) /\ b + 1 \in DOMAIN m /\ b + 1 # 1
    BY <1>3
  <2> QED
    BY <1>2, <2>1 DEF Memory, Sound
<1>6. Memory(m) \ In(m[1]) \subseteq Memory(t)
  <2> SUFFICES ASSUME NEW b \in DOMAIN m, NEW j \in In(m[b]), j \notin In(m[1]) PROVE j \in Memory(t)
    BY DEF Memory
  <2>1. b - 1 \in DOMAIN t /\ t[b - 1] = m[b]
    BY <1>4
  <2> QED
    BY <2>1 DEF Memory
<1>7. \A b \in DOMAIN t : t[b] # <<>> /\ Once(t[b])
  BY <1>3 DEF Sound
<1>8. \A b, c \in DOMAIN t : b # c => In(t[b]) \cap In(t[c]) = {}
  <2> SUFFICES ASSUME NEW b \in DOMAIN t, NEW c \in DOMAIN t, b # c PROVE In(t[b]) \cap In(t[c]) = {}
    OBVIOUS
  <2>1. b + 1 # c + 1
    BY <1>1
  <2>2. b + 1 \in DOMAIN m /\ c + 1 \in DOMAIN m /\ t[b] = m[b + 1] /\ t[c] = m[c + 1]
    BY <1>3
  <2> QED
    BY <2>1, <2>2 DEF Sound
<1>9. In(m[1]) \subseteq Memory(m)
  BY <1>2 DEF Memory
<1>10. Sound(t)
  BY <1>1, <1>7, <1>8 DEF Sound
<1>11. Memory(t) = Memory(m) \ In(m[1])
  BY <1>5, <1>6
<1> QED
  BY <1>1, <1>2, <1>9, <1>10, <1>11 DEF Sound, t

(* Rows that pass from one place into another are still in one place only. *)
LEMMA MoveKeeps ==
  ASSUME NEW old, NEW new, NEW p \in 1..7, NEW q \in 1..7, p # q, NEW rows,
         rows \subseteq old[p], new[p] = old[p] \ rows, new[q] = old[q] \cup rows,
         \A o \in 1..7 : o # p /\ o # q => new[o] = old[o]
  PROVE  /\ Apart(old) => Apart(new)
         /\ Covers(old) => Covers(new)
<1>1. ASSUME NEW i PROVE \A o \in 1..7 : i \in new[o] <=> IF i \in rows /\ i \in old[p] THEN (o = q \/ (o # p /\ i \in old[o])) ELSE i \in old[o]
  OBVIOUS
<1>2. ASSUME Apart(old) PROVE Apart(new)
  <2> SUFFICES ASSUME NEW a \in 1..7, NEW b \in 1..7, a # b, NEW i \in new[a], i \in new[b] PROVE FALSE
    BY DEF Apart
  <2>1. \A c, d \in 1..7 : i \in old[c] /\ i \in old[d] => c = d
    BY <1>2 DEF Apart
  <2> QED
    BY <1>1, <2>1
<1>3. ASSUME Covers(old) PROVE Covers(new)
  BY <1>1, <1>3 DEF Covers
<1> QED
  BY <1>2, <1>3
-----------------------------------------------------------------------------
(* At the start every row is in the table.                                 *)
LEMMA InitPlaced == Init => Placed
<1> SUFFICES ASSUME Init PROVE Placed
  OBVIOUS
<1>0. IInv
  BY InitIInv
<1>1. /\ pos = 1 /\ rowCh = <<>> /\ kvCh = <<>> /\ batch = <<>> /\ mem = <<>> /\ durable = <<>>
      /\ stage = "loading" /\ \A w \in Workers : worker[w] \in {Ready, Done}
  BY DEF Init
<1>2. DOMAIN <<>> = {} /\ <<>> \in Seq(Messages) /\ <<>> \in Seq(Seq(Messages))
  BY EmptySeq
<1>3. \A i \in Imported : Message(i) # Ready /\ Message(i) # Done
  BY MessageFacts DEF Imported
<1>4. Single
  <2>1. RowsOnce /\ Sound(mem)
    BY <1>1, <1>2 DEF RowsOnce, Sound
  <2>2. HandsOnce
    BY <1>1, <1>3 DEF HandsOnce, Messages
  <2> QED
    BY <1>1, <2>1, <2>2, InNone DEF Single
<1>5. AtTable = Imported
  BY <1>1, Bounds DEF AtTable, Imported, Rows
<1>6. AtRows = {} /\ AtHands = {} /\ Memory(mem) = {} /\ In(<<>>) = {}
  BY <1>1, <1>2, <1>3, InNone DEF AtRows, AtHands, Memory
<1>7. /\ Place[1] = Imported /\ Place[2] = {} /\ Place[3] = {} /\ Place[4] = {}
      /\ Place[5] = {} /\ Place[6] = {} /\ Place[7] = {}
  BY <1>1, <1>5, <1>6 DEF Place
<1>8. Spread
  <2> HIDE DEF Place
  <2> QED
    BY <1>7 DEF Spread, Apart, Covers
<1>9. Drained
  BY <1>1 DEF Drained
<1> QED
  BY <1>1, <1>2, <1>4, <1>8, <1>9 DEF Placed

(* A step that moves nothing leaves every row in its place.                *)
LEMMA StillPlaced ==
  ASSUME Placed, UNCHANGED <<crew, pos, rowCh, worker, kvCh, batch, mem, durable>>,
         stage' \in {"reported", "exited"} => stage \in {"reported", "exited"}
  PROVE  Placed'
<1>1. Single' = Single
  BY DEF Single, RowsOnce, HandsOnce, Once, Sound, In
<1>2. Place' = Place
  <2>1. AtTable' = AtTable /\ AtRows' = AtRows /\ AtHands' = AtHands
    BY DEF AtTable, AtRows, AtHands
  <2>2. In(kvCh)' = In(kvCh) /\ In(batch)' = In(batch) /\ In(durable)' = In(durable)
    BY DEF In
  <2>3. Memory(mem)' = Memory(mem)
    BY DEF Memory, In
  <2> QED
    BY <2>1, <2>2, <2>3 DEF Place
<1>3. Spread'
  BY <1>2 DEF Placed, Spread
<1>4. Drained'
  BY DEF Placed, Drained
<1> QED
  BY <1>1, <1>3, <1>4 DEF Placed

(* The reader takes the next row out of the table.                         *)
LEMMA StreamPlaced ==
  ASSUME IInv, Placed, Stream
  PROVE  Placed'
<1> USE DEF opts, reader, writer, disk
<1>1. UNCHANGED <<crew, stage, worker, kvCh, batch, mem, durable>>
  BY DEF Stream, StreamRow, StreamEnds
<1>2. CASE StreamEnds
  <2>1. UNCHANGED <<pos, rowCh>>
    BY <1>2 DEF StreamEnds
  <2> QED
    BY <1>1, <2>1, StillPlaced
<1>3. CASE StreamRow
  <2> DEFINE rows == {i \in Imported : i = pos}
  <2>1. pos \in Rows /\ pos' = pos + 1
    BY <1>3, Bounds DEF StreamRow, IInv, Types, Rows
  <2>2. rowCh' = (IF Source[pos].scans THEN Append(rowCh, pos) ELSE rowCh) /\ pos \in Nat
    BY <1>3, <2>1, Bounds DEF StreamRow, Rows
  <2>3. rowCh \in Seq(Read)
    BY DEF IInv, Types
  <2>4. AtTable' = AtTable \ rows /\ rows \subseteq AtTable
    BY <2>1, Bounds DEF AtTable, Imported, Rows
  <2>5. AtRows' = AtRows \cup rows /\ (RowsOnce => RowsOnce')
    <3>1. CASE Source[pos].scans
      <4>1. pos \in Read /\ rowCh' = Append(rowCh, pos)
        BY <2>1, <2>2, <3>1 DEF Read
      <4>2. /\ Len(rowCh) \in Nat /\ DOMAIN rowCh = 1..Len(rowCh)
            /\ DOMAIN rowCh' = 1..(Len(rowCh) + 1)
            /\ \A n \in 1..Len(rowCh) : rowCh'[n] = rowCh[n]
            /\ rowCh'[Len(rowCh) + 1] = pos
        BY <2>3, <4>1, LenProperties
      <4>3. DOMAIN rowCh' = DOMAIN rowCh \cup {Len(rowCh) + 1} /\ Len(rowCh) + 1 \notin DOMAIN rowCh
        BY <4>2
      <4>4. AtRows' = AtRows \cup rows
        BY <4>2, <4>3 DEF AtRows
      <4>5. pos \notin AtRows
        <5>1. AtTable \cap AtRows = {}
          BY DEF Placed, Spread, Apart, Place
        <5> QED
          BY <2>4, <5>1 DEF AtRows
      <4>6. \A n \in DOMAIN rowCh : rowCh[n] # pos \/ pos \notin Imported
        BY <4>5 DEF AtRows
      <4>7. RowsOnce => RowsOnce'
        BY <4>2, <4>3, <4>6 DEF RowsOnce
      <4> QED
        BY <4>4, <4>7
    <3>2. CASE ~Source[pos].scans
      <4>1. rows = {} /\ rowCh' = rowCh
        BY <2>2, <3>2 DEF Imported
      <4> HIDE DEF rows
      <4> QED
        BY <4>1 DEF AtRows, RowsOnce
    <3> QED
      BY <3>1, <3>2
  <2>6. /\ Place[1] = AtTable /\ Place[2] = AtRows
        /\ Place'[1] = AtTable' /\ Place'[2] = AtRows'
        /\ \A o \in 1..7 : o # 1 /\ o # 2 => Place'[o] = Place[o]
    BY <1>1 DEF Place, AtHands, In, Memory
  <2>7. Spread'
    <3> HIDE DEF rows
    <3>1. (Apart(Place) => Apart(Place')) /\ (Covers(Place) => Covers(Place'))
      <4> HIDE DEF Place
      <4> QED
        BY <2>4, <2>5, <2>6, MoveKeeps
    <3> QED
      BY <1>1, <3>1 DEF Placed, Spread
  <2>8. Single'
    <3>1. HandsOnce' = HandsOnce /\ Sound(mem)' = Sound(mem)
          /\ Once(kvCh)' = Once(kvCh) /\ Once(batch)' = Once(batch) /\ Once(durable)' = Once(durable)
      BY <1>1 DEF HandsOnce, Sound, Once, In
    <3> QED
      BY <2>5, <3>1 DEF Placed, Single
  <2>9. Drained'
    BY <1>1 DEF Placed, Drained
  <2> QED
    BY <1>1, <2>7, <2>8, <2>9 DEF Placed
<1> QED
  BY <1>2, <1>3 DEF Stream

(* A worker takes a row into its hands and passes it on.                   *)
LEMMA WorkPlaced ==
  ASSUME IInv, Placed, NEW w \in Workers, Work(w)
  PROVE  Placed'
<1> USE DEF opts, reader, writer, disk
<1>1. /\ UNCHANGED <<crew, stage, pos, batch, mem, durable>>
      /\ worker[w] # Done /\ w \in crew
  BY DEF Work, TakeRow, SendPairs, WorkerDone, Working, IInv, Closing
<1>2. /\ rowCh \in Seq(Read) /\ kvCh \in Seq(Messages)
      /\ worker \in [Workers -> {Ready, Done} \cup Messages]
  BY DEF IInv, Types
<1>3. \A i \in Imported : Message(i) # Ready /\ Message(i) # Done
  BY MessageFacts DEF Imported
<1>4. /\ AtTable' = AtTable /\ In(batch)' = In(batch) /\ In(durable)' = In(durable)
      /\ Memory(mem)' = Memory(mem)
  BY <1>1 DEF AtTable, In, Memory
<1>5. Sound(mem)' /\ Once(batch)' /\ Once(durable)'
  <2>1. Sound(mem)' = Sound(mem) /\ Once(batch)' = Once(batch) /\ Once(durable)' = Once(durable)
    BY <1>1 DEF Sound, Once, In
  <2> QED
    BY <2>1 DEF Placed, Single
<1>7. CASE TakeRow(w)
  <2> DEFINE rows == {i \in Imported : i = Head(rowCh)}
  <2>1. /\ worker[w] = Ready /\ rowCh # <<>> /\ rowCh' = Tail(rowCh) /\ kvCh' = kvCh
        /\ worker' = [worker EXCEPT ![w] = Message(Head(rowCh))]
    BY <1>7 DEF TakeRow
  <2>2. /\ Len(rowCh) \in Nat \ {0} /\ DOMAIN rowCh = 1..Len(rowCh) /\ Head(rowCh) = rowCh[1]
        /\ DOMAIN rowCh' = 1..(Len(rowCh) - 1)
        /\ \A n \in 1..(Len(rowCh) - 1) : rowCh'[n] = rowCh[n + 1]
    BY <1>2, <2>1, LenProperties, EmptySeq, HeadTailProperties
  <2>3. 1 \in DOMAIN rowCh /\ \A n \in DOMAIN rowCh' : n + 1 \in DOMAIN rowCh /\ n + 1 # 1 /\ rowCh'[n] = rowCh[n + 1]
    BY <2>2
  <2>4. \A n \in DOMAIN rowCh : n = 1 \/ (n - 1 \in DOMAIN rowCh' /\ rowCh'[n - 1] = rowCh[n])
    <3> SUFFICES ASSUME NEW n \in 1..Len(rowCh), n # 1
                 PROVE  n - 1 \in DOMAIN rowCh' /\ rowCh'[n - 1] = rowCh[n]
      BY <2>2
    <3>1. n - 1 \in 1..(Len(rowCh) - 1) /\ (n - 1) + 1 = n
      BY <2>2
    <3> QED
      BY <2>2, <3>1
  <2>5. RowsOnce
    BY DEF Placed, Single
  <2>6. rows \subseteq AtRows /\ AtRows' = AtRows \ rows
    <3>1. rows \subseteq AtRows
      BY <2>2, <2>3 DEF AtRows
    <3>2. ASSUME NEW i \in AtRows' PROVE i \in AtRows \ rows
      <4>1. PICK n \in DOMAIN rowCh' : rowCh'[n] = i
        BY DEF AtRows
      <4>2. n + 1 \in DOMAIN rowCh /\ n + 1 # 1 /\ rowCh[n + 1] = i /\ i \in Imported
        BY <2>3, <4>1 DEF AtRows
      <4>3. rowCh[1] # i
        BY <2>3, <2>5, <4>2 DEF RowsOnce
      <4> QED
        BY <2>2, <4>2, <4>3 DEF AtRows
    <3>3. ASSUME NEW i \in AtRows \ rows PROVE i \in AtRows'
      <4>1. PICK n \in DOMAIN rowCh : rowCh[n] = i
        BY DEF AtRows
      <4>2. n # 1
        BY <2>2, <4>1 DEF AtRows
      <4> QED
        BY <2>4, <4>1, <4>2 DEF AtRows
    <3> QED
      BY <3>1, <3>2, <3>3
  <2>7. RowsOnce'
    <3> SUFFICES ASSUME NEW m \in DOMAIN rowCh', NEW n \in DOMAIN rowCh', rowCh'[m] = rowCh'[n], rowCh'[m] \in Imported
                 PROVE  m = n
      BY DEF RowsOnce
    <3>1. m + 1 = n + 1
      BY <2>3, <2>5 DEF RowsOnce
    <3> QED
      BY <2>2, <3>1
  <2>8. Message(Head(rowCh)) = Ready \/ (Head(rowCh) \in Imported)
    <3>1. Head(rowCh) \in Read
      BY <1>2, <2>1, HeadTailProperties
    <3> QED
      BY <3>1, MessageFacts DEF Imported, Read
  <2>9. AtHands' = AtHands \cup rows /\ HandsOnce'
    <3>1. \A v \in Workers : worker'[v] = IF v = w THEN Message(Head(rowCh)) ELSE worker[v]
      BY <1>2, <2>1
    <3>2. CASE Head(rowCh) \in Imported
      <4>1. \A i \in Imported : Message(Head(rowCh)) = Message(i) <=> i = Head(rowCh)
        BY <3>2, MessageInjective
      <4>2. \A i \in Imported : worker[w] # Message(i)
        BY <1>3, <2>1
      <4>3. AtHands' = AtHands \cup rows
        BY <3>1, <4>1, <4>2 DEF AtHands
      <4>4. \A v \in Workers : worker[v] # Message(Head(rowCh))
        <5>1. AtRows \cap AtHands = {}
          BY DEF Placed, Spread, Apart, Place
        <5> QED
          BY <2>6, <3>2, <5>1 DEF AtHands
      <4>5. HandsOnce'
        BY <3>1, <4>4 DEF HandsOnce, Placed, Single
      <4> QED
        BY <4>3, <4>5
    <3>3. CASE Head(rowCh) \notin Imported
      <4>1. rows = {} /\ worker' = worker
        BY <1>2, <2>1, <2>8, <3>3
      <4> HIDE DEF rows
      <4> QED
        BY <4>1 DEF AtHands, HandsOnce, Placed, Single
    <3> QED
      BY <3>2, <3>3
  <2>10. Single'
    <3>1. Once(kvCh)'
      BY <2>1 DEF Placed, Single, Once
    <3> QED
      BY <1>5, <2>7, <2>9, <3>1 DEF Single
  <2>11. Spread'
    <3>1. In(kvCh)' = In(kvCh)
      BY <2>1 DEF In
    <3>2. /\ Place[2] = AtRows /\ Place[3] = AtHands /\ Place'[2] = AtRows' /\ Place'[3] = AtHands'
          /\ \A o \in 1..7 : o # 2 /\ o # 3 => Place'[o] = Place[o]
      BY <1>4, <3>1 DEF Place
    <3> HIDE DEF rows
    <3>3. (Apart(Place) => Apart(Place')) /\ (Covers(Place) => Covers(Place'))
      <4> HIDE DEF Place
      <4> QED
        BY <2>6, <2>9, <3>2, MoveKeeps
    <3> QED
      BY <1>1, <3>3 DEF Placed, Spread
  <2>12. Drained'
    BY <1>1, <2>1 DEF Placed, Drained
  <2> QED
    BY <1>1, <2>10, <2>11, <2>12 DEF Placed
<1>8. CASE SendPairs(w)
  <2>1. /\ worker[w] # Ready /\ rowCh' = rowCh /\ kvCh' = Append(kvCh, worker[w])
        /\ worker' = [worker EXCEPT ![w] = Ready]
    BY <1>8 DEF SendPairs
  <2>2. PICK i \in Imported : worker[w] = Message(i)
    BY <1>1, <1>2, <2>1 DEF Messages
  <2>3. i \in AtHands
    BY <2>2 DEF AtHands
  <2>4. i \notin In(kvCh)
    <3>1. AtHands \cap In(kvCh) = {}
      BY DEF Placed, Spread, Apart, Place
    <3> QED
      BY <2>3, <3>1
  <2>5. In(kvCh)' = In(kvCh) \cup {i} /\ Once(kvCh)'
    <3>1. In(kvCh') = In(kvCh) \cup {i} /\ Once(kvCh')
      BY <1>2, <2>1, <2>2, <2>4, InAppend DEF Placed, Single
    <3> QED
      BY <3>1 DEF In, Once
  <2>6. \A v \in Workers : worker'[v] = IF v = w THEN Ready ELSE worker[v]
    BY <1>2, <2>1
  <2>7. HandsOnce
    BY DEF Placed, Single
  <2>8. AtHands' = AtHands \ {i}
    <3>1. \A v \in Workers : worker[v] = Message(i) => v = w
      BY <2>2, <2>7 DEF HandsOnce, Messages
    <3>2. \A j \in Imported : worker[w] = Message(j) => j = i
      BY <2>2, MessageInjective
    <3> QED
      BY <1>3, <2>6, <3>1, <3>2 DEF AtHands
  <2>9. HandsOnce'
    <3>1. Ready \notin Messages
      BY <1>3 DEF Messages
    <3> QED
      BY <2>6, <2>7, <3>1 DEF HandsOnce
  <2>10. Single'
    <3>1. RowsOnce'
      BY <2>1 DEF Placed, Single, RowsOnce
    <3> QED
      BY <1>5, <2>5, <2>9, <3>1 DEF Single
  <2>11. Spread'
    <3>1. AtRows' = AtRows
      BY <2>1 DEF AtRows
    <3>2. /\ Place[3] = AtHands /\ Place[4] = In(kvCh) /\ Place'[3] = AtHands' /\ Place'[4] = In(kvCh)'
          /\ \A o \in 1..7 : o # 3 /\ o # 4 => Place'[o] = Place[o]
      BY <1>4, <3>1 DEF Place
    <3> DEFINE rows == {i}
    <3>3. Place'[3] = Place[3] \ rows /\ Place'[4] = Place[4] \cup rows /\ rows \subseteq Place[3]
      BY <2>3, <2>5, <2>8, <3>2
    <3>4. (Apart(Place) => Apart(Place')) /\ (Covers(Place) => Covers(Place'))
      <4> HIDE DEF Place, rows
      <4> QED
        BY <3>2, <3>3, MoveKeeps
    <3> QED
      BY <1>1, <3>4 DEF Placed, Spread
  <2>12. Drained'
    BY <1>1 DEF Placed, Drained
  <2> QED
    BY <1>1, <2>10, <2>11, <2>12 DEF Placed
<1>9. CASE WorkerDone(w)
  <2>1. /\ worker[w] = Ready /\ rowCh' = rowCh /\ kvCh' = kvCh
        /\ worker' = [worker EXCEPT ![w] = Done]
    BY <1>9 DEF WorkerDone
  <2>2. \A v \in Workers : worker'[v] = IF v = w THEN Done ELSE worker[v]
    BY <1>2, <2>1
  <2>3. AtHands' = AtHands
    BY <1>3, <2>1, <2>2 DEF AtHands
  <2>4. HandsOnce'
    <3>1. Done \notin Messages
      BY <1>3 DEF Messages
    <3> QED
      BY <2>2, <3>1 DEF HandsOnce, Placed, Single
  <2>5. Single'
    BY <1>5, <2>1, <2>4 DEF Placed, Single, RowsOnce, Once
  <2>6. Place' = Place
    <3>1. AtRows' = AtRows /\ In(kvCh)' = In(kvCh)
      BY <2>1 DEF AtRows, In
    <3> QED
      BY <1>4, <2>3, <3>1 DEF Place
  <2>7. Spread'
    BY <1>1, <2>6 DEF Placed, Spread
  <2>8. Drained'
    BY <1>1, <2>1 DEF Placed, Drained
  <2> QED
    BY <1>1, <2>5, <2>7, <2>8 DEF Placed
<1> QED
  BY <1>7, <1>8, <1>9 DEF Work

(* The writer puts a message into the batch, whole if no Set is refused,   *)
(* and the batch into the memory.                                          *)
LEMMA WritePlaced ==
  ASSUME IInv, Placed, Write, "set" \notin Faults
  PROVE  Placed'
<1> USE DEF opts, reader, writer, disk
<1>1. UNCHANGED <<crew, pos, rowCh, worker, durable>>
  BY DEF Write, WritePairs, PeriodicCommit, FinalCommit, ClosePebble
<1>2. kvCh \in Seq(Messages) /\ batch \in Seq(Messages) /\ Once(kvCh) /\ Once(batch) /\ Sound(mem)
  BY DEF IInv, Types, Placed, Single
<1>3. /\ AtTable' = AtTable /\ AtRows' = AtRows /\ AtHands' = AtHands
      /\ In(durable)' = In(durable)
  BY <1>1 DEF AtTable, AtRows, AtHands, In
<1>4. RowsOnce' /\ HandsOnce' /\ Once(durable)' /\ durable' \in Seq(Messages)
  <2>1. RowsOnce' = RowsOnce /\ HandsOnce' = HandsOnce /\ Once(durable)' = Once(durable)
    BY <1>1 DEF RowsOnce, HandsOnce, Once
  <2> QED
    BY <1>1, <2>1 DEF Placed, Single
<1>5. CASE WritePairs
  <2>1. /\ kvCh # <<>> /\ kvCh' = Tail(kvCh) /\ batch' = Append(batch, Head(kvCh))
        /\ stage = "writing" /\ UNCHANGED <<stage, mem>>
    BY <1>5 DEF WritePairs, Accepted
  <2>2. /\ Tail(kvCh) \in Seq(Messages) /\ Once(Tail(kvCh))
        /\ \E i \in Imported : Head(kvCh) = Message(i) /\ i \in In(kvCh) /\ In(Tail(kvCh)) = In(kvCh) \ {i}
    BY <1>2, <2>1, InTail
  <2>3. PICK i \in Imported : Head(kvCh) = Message(i) /\ i \in In(kvCh) /\ In(Tail(kvCh)) = In(kvCh) \ {i}
    BY <2>2
  <2>4. i \notin In(batch)
    <3>1. In(kvCh) \cap In(batch) = {}
      BY DEF Placed, Spread, Apart, Place
    <3> QED
      BY <2>3, <3>1
  <2>5. In(batch') = In(batch) \cup {i} /\ Once(batch')
    BY <1>2, <2>1, <2>3, <2>4, InAppend
  <2>6. batch' \in Seq(Messages)
    BY <1>2, <2>1, <2>3, AppendProperties DEF Messages
  <2>7. Single'
    <3>1. Once(kvCh)' /\ Once(batch)'
      BY <2>1, <2>2, <2>5 DEF Once
    <3>2. Sound(mem)' = Sound(mem)
      BY <2>1 DEF Sound, Once, In
    <3> QED
      BY <1>2, <1>4, <3>1, <3>2 DEF Single
  <2>8. Spread'
    <3>1. In(kvCh)' = In(kvCh) \ {i} /\ In(batch)' = In(batch) \cup {i} /\ Memory(mem)' = Memory(mem)
      <4>1. In(kvCh)' = In(kvCh) \ {i}
        BY <2>1, <2>3 DEF In
      <4>2. In(batch)' = In(batch) \cup {i}
        BY <2>5 DEF In
      <4>3. Memory(mem)' = Memory(mem)
        BY <2>1 DEF Memory, In
      <4> QED
        BY <4>1, <4>2, <4>3
    <3>2. /\ Place[4] = In(kvCh) /\ Place[5] = In(batch) /\ Place'[4] = In(kvCh)' /\ Place'[5] = In(batch)'
          /\ \A o \in 1..7 : o # 4 /\ o # 5 => Place'[o] = Place[o]
      BY <1>3, <3>1 DEF Place
    <3> DEFINE rows == {i}
    <3>3. Place'[4] = Place[4] \ rows /\ Place'[5] = Place[5] \cup rows /\ rows \subseteq Place[4]
      BY <2>3, <3>1, <3>2
    <3>4. (Apart(Place) => Apart(Place')) /\ (Covers(Place) => Covers(Place'))
      <4> HIDE DEF Place, rows
      <4> QED
        BY <3>2, <3>3, MoveKeeps
    <3> QED
      BY <2>1, <3>4 DEF Placed, Spread
  <2>9. Drained'
    <3>1. crew # {}
      BY <2>1 DEF Placed, Drained
    <3> QED
      BY <1>1, <2>1, <3>1 DEF Drained
  <2> QED
    BY <1>4, <2>6, <2>7, <2>8, <2>9 DEF Placed
<1>6. CASE PeriodicCommit \/ FinalCommit
  <2>1. /\ kvCh' = kvCh /\ stage = "writing" /\ stage' \in {"writing", "reported", "failed"}
        /\ CommitBatch \/ (UNCHANGED <<batch, mem>> /\ stage' # "reported")
    BY <1>6 DEF PeriodicCommit, FinalCommit
  <2>2. CASE UNCHANGED <<batch, mem>> /\ stage' # "reported"
    BY <1>1, <2>1, <2>2, StillPlaced
  <2>3. CASE CommitBatch
    <3>1. batch' = <<>> /\ ((batch = <<>> /\ mem' = mem) \/ (batch # <<>> /\ mem' = Append(mem, batch)))
      BY <2>3 DEF CommitBatch, Room
    <3>2. Sound(mem') /\ Memory(mem') = Memory(mem) \cup In(batch)
      <4>1. In(batch) \cap Memory(mem) = {}
        BY DEF Placed, Spread, Apart, Place
      <4>2. CASE batch = <<>> /\ mem' = mem
        BY <1>2, <4>2, InNone
      <4>3. CASE batch # <<>> /\ mem' = Append(mem, batch)
        BY <1>2, <4>1, <4>3, MemoryAppend
      <4> QED
        BY <3>1, <4>2, <4>3
    <3>3. batch' \in Seq(Messages) /\ In(batch') = {} /\ Once(batch')
      BY <3>1, InNone, EmptySeq
    <3>4. Single'
      <4>1. Sound(mem)' /\ Once(batch)'
        BY <3>2, <3>3 DEF Sound, Once, In
      <4>2. Once(kvCh)' = Once(kvCh)
        BY <2>1 DEF Once
      <4> QED
        BY <1>2, <1>4, <4>1, <4>2 DEF Single
    <3>5. Spread'
      <4>1. In(kvCh)' = In(kvCh) /\ In(batch)' = In(batch) \ In(batch) /\ Memory(mem)' = Memory(mem) \cup In(batch)
        <5>1. In(kvCh)' = In(kvCh)
          BY <2>1 DEF In
        <5>2. In(batch)' = {}
          BY <3>3 DEF In
        <5>3. Memory(mem)' = Memory(mem) \cup In(batch)
          BY <3>2 DEF In, Memory
        <5> QED
          BY <5>1, <5>2, <5>3
      <4>2. /\ Place[5] = In(batch) /\ Place[6] = Memory(mem) /\ Place'[5] = In(batch)' /\ Place'[6] = Memory(mem)'
            /\ \A o \in 1..7 : o # 5 /\ o # 6 => Place'[o] = Place[o]
        BY <1>3, <4>1 DEF Place
      <4> DEFINE rows == In(batch)
      <4>3. Place'[5] = Place[5] \ rows /\ Place'[6] = Place[6] \cup rows /\ rows \subseteq Place[5]
        BY <4>1, <4>2
      <4>4. (Apart(Place) => Apart(Place')) /\ (Covers(Place) => Covers(Place'))
        <5> HIDE DEF Place, rows
        <5> QED
          BY <4>2, <4>3, MoveKeeps
      <4> QED
        BY <2>1, <4>4 DEF Placed, Spread
    <3>6. Drained'
      BY <1>1, <2>1, <3>1 DEF Placed, Drained
    <3> QED
      BY <1>4, <3>3, <3>4, <3>5, <3>6 DEF Placed
  <2> QED
    BY <2>1, <2>2, <2>3
<1>7. CASE ClosePebble
  <2>1. /\ UNCHANGED <<crew, pos, rowCh, worker, kvCh, batch, mem, durable>>
        /\ stage = "reported" /\ stage' = "exited"
    BY <1>7 DEF ClosePebble
  <2> QED
    BY <2>1, StillPlaced
<1> QED
  BY <1>5, <1>6, <1>7 DEF Write

(* A flush takes the oldest batch from the memory to the disk.             *)
LEMMA FlushPlaced ==
  ASSUME IInv, Placed, Flush
  PROVE  Placed'
<1> USE DEF opts, reader, writer, disk
<1>1. /\ UNCHANGED <<crew, stage, pos, rowCh, worker, kvCh, batch>>
      /\ mem # <<>> /\ mem' = Tail(mem) /\ durable' = durable \o Head(mem)
      /\ stage \in {"writing", "reported"}
  BY DEF Flush
<1>2. durable \in Seq(Messages) /\ Once(durable) /\ Sound(mem)
  BY DEF Placed, Single
<1>3. /\ Head(mem) \in Seq(Messages) /\ Once(Head(mem))
      /\ Sound(mem') /\ Memory(mem') = Memory(mem) \ In(Head(mem))
      /\ In(Head(mem)) \subseteq Memory(mem)
  BY <1>1, <1>2, MemoryTail
<1>4. In(durable) \cap In(Head(mem)) = {}
  <2>1. In(durable) \cap Memory(mem) = {}
    BY DEF Placed, Spread, Apart, Place
  <2> QED
    BY <1>3, <2>1
<1>5. durable' \in Seq(Messages) /\ In(durable') = In(durable) \cup In(Head(mem)) /\ Once(durable')
  BY <1>1, <1>2, <1>3, <1>4, InConcat
<1>6. Single'
  <2>1. /\ RowsOnce' = RowsOnce /\ HandsOnce' = HandsOnce
        /\ Once(kvCh)' = Once(kvCh) /\ Once(batch)' = Once(batch)
    BY <1>1 DEF RowsOnce, HandsOnce, Once
  <2>2. Sound(mem)' /\ Once(durable)'
    BY <1>3, <1>5 DEF Sound, Once, In
  <2> QED
    BY <2>1, <2>2 DEF Placed, Single
<1>7. Spread'
  <2> DEFINE rows == In(Head(mem))
  <2>1. AtTable' = AtTable /\ AtRows' = AtRows /\ AtHands' = AtHands
    BY <1>1 DEF AtTable, AtRows, AtHands
  <2>2. In(kvCh)' = In(kvCh) /\ In(batch)' = In(batch)
    BY <1>1 DEF In
  <2>3. In(durable)' = In(durable) \cup rows
    BY <1>5 DEF In
  <2>4. Memory(mem)' = Memory(mem) \ rows
    BY <1>3 DEF In, Memory
  <2>5. /\ Place[6] = Memory(mem) /\ Place[7] = In(durable) /\ Place'[6] = Memory(mem)' /\ Place'[7] = In(durable)'
        /\ \A o \in 1..7 : o # 6 /\ o # 7 => Place'[o] = Place[o]
    BY <2>1, <2>2 DEF Place
  <2>6. Place'[6] = Place[6] \ rows /\ Place'[7] = Place[7] \cup rows /\ rows \subseteq Place[6]
    BY <1>3, <2>3, <2>4, <2>5
  <2>7. (Apart(Place) => Apart(Place')) /\ (Covers(Place) => Covers(Place'))
    <3> HIDE DEF Place, rows
    <3> QED
      BY <2>5, <2>6, MoveKeeps
  <2> QED
    BY <1>1, <2>7 DEF Placed, Spread
<1>8. Drained'
  <2>1. crew # {}
    BY <1>1 DEF Placed, Drained
  <2> QED
    BY <1>1, <2>1 DEF Placed, Drained
<1> QED
  BY <1>1, <1>5, <1>6, <1>7, <1>8 DEF Placed

\* As long as no Set is refused, every row with a hash is in one place.
LEMMA PlacedInvariant ==
  ASSUME "set" \notin Faults
  PROVE  Spec => [](IInv /\ Placed)
<1>1. IInv /\ Placed /\ [Next]_vars => Placed'
  <2> SUFFICES ASSUME IInv, Placed, [Next]_vars PROVE Placed'
    OBVIOUS
  <2>1. CASE UNCHANGED vars
    BY <2>1, StillPlaced DEF vars, opts, reader, writer, disk
  <2>2. CASE Stream
    BY <2>2, StreamPlaced
  <2>3. ASSUME NEW w \in Workers, Work(w) PROVE Placed'
    BY <2>3, WorkPlaced
  <2>4. CASE Write
    BY <2>4, WritePlaced
  <2>5. CASE Flush
    BY <2>5, FlushPlaced
  <2>6. CASE Load \/ CloseKv \/ Compact \/ Kill
    <3>1. UNCHANGED <<crew, pos, rowCh, worker, kvCh, batch, mem, durable>>
      BY <2>6 DEF Load, CloseKv, Compact, Kill, opts, reader, writer, disk
    <3>2. /\ stage' \in {"reported", "exited"} => stage' = stage
          /\ stage = "exited" => stage' = stage
      BY <2>6 DEF Load, CloseKv, Compact, Kill, Ended
    <3> QED
      BY <3>1, <3>2, StillPlaced
  <2> QED
    BY <2>1, <2>2, <2>3, <2>4, <2>5, <2>6 DEF Next
<1>2. Spec => []IInv
  BY Invariance
<1> QED
  BY <1>1, <1>2, InitPlaced, PTL DEF Spec
-----------------------------------------------------------------------------
(* What is found under a key: the row whose message set it last, or what   *)
(* was there before.                                                       *)
LEMMA Found ==
  ASSUME durable \in Seq(Messages), NEW key
  PROVE  /\ key \in DOMAIN Contents <=> key \in Prior \/ \E i \in In(durable) : key \in KeysOf(i)
         /\ Setting(key, durable) # {} <=> \E i \in In(durable) : key \in KeysOf(i)
         /\ Setting(key, durable) # {} =>
              \E i \in In(durable) : \E n \in Setting(key, durable) :
                 /\ \A m \in Setting(key, durable) : m <= n
                 /\ durable[n] = Message(i) /\ key \in KeysOf(i) /\ Contents[key] = i
         /\ Setting(key, durable) = {} /\ key \in Prior => Contents[key] = Old
<1> DEFINE old == [k \in Prior |-> Old]
<1>1. Contents = Written(old, durable) /\ DOMAIN old = Prior /\ \A k \in Prior : old[k] = Old
  BY DEF Contents
<1> HIDE DEF old
<1>2. \A n \in DOMAIN durable : \E i \in Imported : durable[n] = Message(i) /\ i \in In(durable)
  <2>1. \A n \in DOMAIN durable : durable[n] \in Messages
    BY LenProperties
  <2> QED
    BY <2>1 DEF In, Messages
<1>3. \A i \in Rows : DOMAIN Message(i) = KeysOf(i) /\ \A k \in KeysOf(i) : Message(i)[k] = i
  BY DEF Message
<1>4. Imported \subseteq Rows
  BY DEF Imported
<1>5. Setting(key, durable) # {} <=> \E i \in In(durable) : key \in KeysOf(i)
  <2>1. ASSUME NEW n \in Setting(key, durable) PROVE \E i \in In(durable) : key \in KeysOf(i)
    <3>1. n \in DOMAIN durable /\ key \in DOMAIN durable[n]
      BY DEF Setting
    <3> QED
      BY <1>2, <1>3, <1>4, <3>1
  <2>2. ASSUME NEW i \in In(durable), key \in KeysOf(i) PROVE Setting(key, durable) # {}
    <3>1. PICK n \in DOMAIN durable : durable[n] = Message(i)
      BY DEF In
    <3>2. i \in Rows
      BY <1>4 DEF In
    <3>3. n \in Setting(key, durable)
      BY <1>3, <2>2, <3>1, <3>2 DEF Setting
    <3> QED
      BY <3>3
  <2> QED
    BY <2>1, <2>2
<1>6. key \in DOMAIN Contents <=> key \in Prior \/ Setting(key, durable) # {}
  <2>1. DOMAIN Contents = AllKeys(old, durable)
    BY <1>1 DEF Written
  <2> QED
    BY <1>1, <2>1 DEF AllKeys, Setting
<1>7. ASSUME Setting(key, durable) # {}
      PROVE  \E i \in In(durable) : \E n \in Setting(key, durable) :
                 /\ \A m \in Setting(key, durable) : m <= n
                 /\ durable[n] = Message(i) /\ key \in KeysOf(i) /\ Contents[key] = i
  <2>1. PICK n \in Setting(key, durable) : \A m \in Setting(key, durable) : m <= n
    BY <1>7, LastWrite
  <2>2. n \in DOMAIN durable /\ key \in DOMAIN durable[n]
    BY DEF Setting
  <2>3. PICK i \in In(durable) : durable[n] = Message(i) /\ i \in Rows
    BY <1>2, <1>4, <2>2
  <2>4. Contents[key] = durable[n][key]
    BY <1>1, <2>1, WrittenBy
  <2>5. key \in KeysOf(i) /\ Contents[key] = i
    BY <1>3, <2>2, <2>3, <2>4
  <2> QED
    BY <2>1, <2>3, <2>5
<1>8. ASSUME Setting(key, durable) = {}, key \in Prior PROVE Contents[key] = Old
  <2>1. key \in AllKeys(old, durable)
    BY <1>1, <1>8 DEF AllKeys
  <2> QED
    BY <1>1, <1>8, <2>1 DEF Written
<1> QED
  BY <1>5, <1>6, <1>7, <1>8

(* As long as no Set is refused, records of one file lead to the same one  *)
(* of them under every hash, also after a crash at any moment.             *)
THEOREM SiblingsTogether ==
  ASSUME "set" \notin Faults
  PROVE  Spec => []SiblingsAgree
<1>1. Placed => SiblingsAgree
  <2> SUFFICES ASSUME Placed, NEW i \in Imported,
                      \A j \in Imported : KeysOf(j) \cap KeysOf(i) # {} => KeysOf(j) = KeysOf(i),
                      NEW k1 \in KeysOf(i), NEW k2 \in KeysOf(i),
                      k1 \in DOMAIN Contents, Contents[k1] \in Imported
               PROVE  k2 \in DOMAIN Contents /\ Contents[k2] = Contents[k1]
    BY DEF SiblingsAgree
  <2>1. durable \in Seq(Messages)
    BY DEF Placed
  <2>2. Setting(k1, durable) # {}
    <3>1. Old \notin Imported
      BY Bounds DEF Old, Imported, Rows
    <3>2. k1 \in Prior \/ Setting(k1, durable) # {}
      BY <2>1, Found
    <3> QED
      BY <2>1, <3>1, <3>2, Found
  <2>3. PICK j \in In(durable) : \E n \in Setting(k1, durable) :
            /\ \A m \in Setting(k1, durable) : m <= n
            /\ durable[n] = Message(j) /\ k1 \in KeysOf(j) /\ Contents[k1] = j
    BY <2>1, <2>2, Found
  <2>4. PICK n \in Setting(k1, durable) :
            /\ \A m \in Setting(k1, durable) : m <= n
            /\ durable[n] = Message(j)
    BY <2>3
  <2>5. \A m \in DOMAIN durable : k1 \in DOMAIN durable[m] <=> k2 \in DOMAIN durable[m]
    <3> TAKE m \in DOMAIN durable
    <3>1. durable[m] \in Messages
      BY <2>1, LenProperties
    <3>2. PICK l \in Imported : durable[m] = Message(l)
      BY <3>1 DEF Messages
    <3>3. DOMAIN durable[m] = KeysOf(l)
      BY <3>2 DEF Message
    <3> QED
      BY <3>3
  <2>6. Setting(k2, durable) = Setting(k1, durable)
    BY <2>5 DEF Setting
  <2>7. Contents[k2] = durable[n][k2] /\ k2 \in DOMAIN Contents
    <3>1. n \in Setting(k2, durable) /\ \A m \in Setting(k2, durable) : m <= n
      BY <2>4, <2>6
    <3> QED
      BY <2>1, <3>1, WrittenBy DEF Contents
  <2>8. durable[n][k2] = j
    <3>1. n \in DOMAIN durable /\ k2 \in DOMAIN durable[n]
      BY <2>4, <2>6 DEF Setting
    <3>2. k2 \in KeysOf(j)
      BY <2>4, <3>1 DEF Message
    <3> QED
      BY <2>4, <3>2 DEF Message
  <2> QED
    BY <2>3, <2>7, <2>8
<1> QED
  BY <1>1, PlacedInvariant, PTL

(* When the importer has said "Done." and ended, exactly the rows read of  *)
(* the table but for those still in memory can be found, each under all    *)
(* its hashes, and every other key as it was before.                       *)
THEOREM DoneImported ==
  ASSUME "set" \notin Faults
  PROVE  Spec => []DoneButForMemory
<1>1. IInv /\ Placed => DoneButForMemory
  <2> DEFINE read == ReadRows \ Unflushed
  <2> SUFFICES ASSUME IInv, Placed, stage = "exited"
               PROVE  AllRead /\ Holds(read)
    BY DEF DoneButForMemory
  <2>1. durable \in Seq(Messages)
    BY DEF Placed
  <2>2. /\ kvCh = <<>> /\ batch = <<>>
        /\ \A w \in Workers : worker[w] = Done
    BY DEF IInv, Closing, Placed, Drained
  <2>3. crew # {} => rowClosed /\ rowCh = <<>>
    BY <2>2 DEF IInv, Types, Closing
  <2>4. AllRead
    BY <2>3 DEF IInv, Closing, AllRead
  <2>4a. Unflushed = Memory(mem)
    BY DEF Unflushed, Memory, In
  <2>5. In(durable) = read
    <3>1. CASE crew = {}
      BY <3>1, InNone DEF Placed, Drained, ReadRows
    <3>2. CASE crew # {}
      <4>1. In(kvCh) = {} /\ In(batch) = {} /\ AtRows = {}
        BY <2>2, <2>3, <3>2, InNone DEF AtRows
      <4>2. AtHands = {}
        BY <2>2, MessageFacts DEF AtHands, Imported
      <4>3. /\ Place[1] = AtTable /\ Place[2] = {} /\ Place[3] = {} /\ Place[4] = {}
            /\ Place[5] = {} /\ Place[6] = Unflushed /\ Place[7] = In(durable)
        BY <4>1, <4>2, <2>4a DEF Place
      <4>4. Covers(Place) /\ Apart(Place)
        BY DEF Placed, Spread
      <4>5. /\ AtTable \cap In(durable) = {} /\ Unflushed \cap In(durable) = {}
            /\ AtTable \cap Unflushed = {}
            /\ \A i \in Imported : i \in AtTable \cup Unflushed \cup In(durable)
        <5> HIDE DEF Place
        <5> QED
          BY <4>3, <4>4 DEF Covers, Apart
      <4>6. \A i \in Imported : i \in AtTable <=> ~ (i < pos)
        BY Bounds DEF AtTable, Imported, Rows, IInv, Types
      <4>7. In(durable) \subseteq Imported
        BY DEF In
      <4> QED
        BY <3>2, <4>5, <4>6, <4>7 DEF ReadRows
    <3> QED
      BY <3>1, <3>2
  <2> HIDE DEF read
  <2>6. \A key : key \in DOMAIN Contents <=> key \in Prior \/ \E i \in read : key \in KeysOf(i)
    BY <2>1, <2>5, Found
  <2>7. DOMAIN Contents = Prior \cup UNION {KeysOf(i) : i \in read}
    BY <2>6
  <2>8. ASSUME NEW key \in DOMAIN Contents, \E i \in read : key \in KeysOf(i)
        PROVE  Contents[key] \in {i \in read : key \in KeysOf(i)}
    <3>1. Setting(key, durable) # {}
      BY <2>1, <2>5, <2>8, Found
    <3> QED
      BY <2>1, <2>5, <3>1, Found
  <2>9. ASSUME NEW key \in DOMAIN Contents, ~ \E i \in read : key \in KeysOf(i)
        PROVE  Contents[key] = Old
    <3>1. Setting(key, durable) = {} /\ key \in Prior
      BY <2>1, <2>5, <2>6, <2>9, Found
    <3> QED
      BY <2>1, <3>1, Found
  <2> QED
    BY <2>4, <2>7, <2>8, <2>9 DEF Holds
<1> QED
  BY <1>1, PlacedInvariant, PTL
-----------------------------------------------------------------------------
(* The instance of Import has operators of its own, which are these.       *)
LEMMA SameOperators ==
  /\ \A o, s : Abstract!Written(o, s) = Written(o, s)
  /\ \A S : Abstract!SetToSeqs(S)
              = {f \in [1..Cardinality(S) -> S] : \A m, n \in 1..Cardinality(S) : m # n => f[m] # f[n]}
<1>1. \A o, s : Abstract!Written(o, s) = Written(o, s)
  BY DEF Abstract!Written, Written, Abstract!AllKeys, AllKeys, Abstract!Setting, Setting,
         Abstract!Max, Max
<1>2. \A S : Abstract!Cardinality(S) = Cardinality(S)
  BY DEF Abstract!Cardinality, Cardinality, Abstract!IsFiniteSet, IsFiniteSet
<1>3. \A S : Abstract!SetToSeqs(S)
               = {f \in [1..Cardinality(S) -> S] : \A m, n \in 1..Cardinality(S) : m # n => f[m] # f[n]}
  BY <1>2 DEF Abstract!SetToSeqs
<1> QED
  BY <1>1, <1>3

(* The messages of a batch are those of its rows in some order.            *)
LEMMA BatchOrder ==
  ASSUME NEW s \in Seq(Messages), Once(s)
  PROVE  \E order \in Abstract!SetToSeqs(In(s)) :
            s = [n \in DOMAIN order |-> [i \in Imported |-> Message(i)][order[n]]]
<1> DEFINE row(m) == CHOOSE i \in Imported : Message(i) = m
           N      == 1..Len(s)
           order  == [n \in N |-> row(s[n])]
<1>1. Len(s) \in Nat /\ DOMAIN s = N /\ s = [n \in N |-> s[n]]
  BY LenProperties
<1>2. \A n \in N : s[n] \in Messages
  BY <1>1
<1>3. \A m \in Messages : row(m) \in Imported /\ Message(row(m)) = m
  BY DEF Messages
<1> HIDE DEF row
<1>4. IsFiniteSet(N) /\ Cardinality(N) = Len(s)
  <2>1. Len(s) \in Nat
    BY <1>1
  <2> QED
    BY <2>1, FS_Interval
<1> HIDE DEF N
<1>5. order \in [N -> In(s)] /\ \A n \in N : order[n] \in Imported /\ Message(order[n]) = s[n]
  BY <1>1, <1>2, <1>3 DEF In
<1>6. \A m, n \in N : m # n => order[m] # order[n]
  BY <1>1, <1>5 DEF Once
<1>7. \A i \in In(s) : \E n \in N : order[n] = i
  <2> TAKE i \in In(s)
  <2>1. PICK n \in N : s[n] = Message(i)
    BY <1>1 DEF In
  <2>2. order[n] = i
    BY <1>5, <2>1, MessageInjective DEF In
  <2> QED
    BY <2>2
<1>8. DOMAIN order = N
  OBVIOUS
<1> HIDE DEF order
<1>9. order \in Bijection(N, In(s))
  BY <1>5, <1>6, <1>7 DEF Bijection, Injection, Surjection, IsInjective
<1>10. Cardinality(In(s)) = Len(s)
  BY <1>4, <1>9, FS_Bijection DEF ExistsBijection
<1>11. order \in Abstract!SetToSeqs(In(s))
  BY <1>5, <1>6, <1>10, SameOperators DEF N
<1>12. s = [n \in DOMAIN order |-> [i \in Imported |-> Message(i)][order[n]]]
  BY <1>1, <1>5, <1>8
<1> QED
  BY <1>11, <1>12

(* The import installs records over the old contents one after the other,  *)
(* each with all its keys and each once, through a kill at any moment: a   *)
(* flush installs the rows of a batch, no other step touches the contents. *)
THEOREM ImportImplemented ==
  ASSUME "set" \notin Faults
  PROVE  Spec => ImplementsImport
<1> DEFINE old     == [key \in Prior |-> Old]
           records == [i \in Imported |-> Message(i)]
<1>1. Init => Abstract!Init
  <2> SUFFICES ASSUME durable = <<>> PROVE Abstract!Init
    BY DEF Init
  <2>1. Contents = old
    BY WrittenNone DEF Contents
  <2>2. Installed = {}
    BY InNone DEF Installed, In
  <2> QED
    BY <2>1, <2>2 DEF Abstract!Init
<1>2. Placed /\ Placed' /\ [Next]_vars => [Abstract!Install]_(Abstract!vars)
  <2> SUFFICES ASSUME Placed, Placed', [Next]_vars PROVE [Abstract!Install]_(Abstract!vars)
    OBVIOUS
  <2>1. CASE UNCHANGED durable
    BY <2>1 DEF Abstract!vars, Contents, Installed
  <2>2. CASE Flush
    <3> DEFINE s == Head(mem)
    <3>1. mem # <<>> /\ durable' = durable \o s
      BY <2>2 DEF Flush
    <3>2. /\ s \in Seq(Messages) /\ s # <<>> /\ Once(s) /\ In(s) \subseteq Memory(mem)
          /\ durable \in Seq(Messages)
      BY <3>1, MemoryTail DEF Placed, Single
    <3> HIDE DEF s
    <3>3. Installed = In(durable) /\ Installed' = In(durable')
      BY DEF Installed, In
    <3>4. In(s) \cap Installed = {}
      <4>1. Memory(mem) \cap In(durable) = {}
        BY DEF Placed, Spread, Apart, Place
      <4> QED
        BY <3>2, <3>3, <4>1
    <3>5. Installed' = Installed \cup In(s)
      BY <3>1, <3>2, <3>3, InConcat
    <3>6. In(s) # {}
      <4>1. 1 \in DOMAIN s /\ s[1] \in Messages
        BY <3>2, LenProperties, EmptySeq
      <4> QED
        BY <4>1 DEF In, Messages
    <3>7. Contents' = Written(Contents, s)
      <4>1. Written(Written(old, durable), s) = Written(old, durable \o s)
        BY <3>2, WrittenTwice
      <4> QED
        BY <3>1, <4>1 DEF Contents
    <3>8. PICK order \in Abstract!SetToSeqs(In(s)) : s = [n \in DOMAIN order |-> records[order[n]]]
      BY <3>2, BatchOrder
    <3>9. Contents' = Abstract!Written(Contents, [n \in DOMAIN order |-> records[order[n]]])
      BY <3>7, <3>8, SameOperators
    <3>10. In(s) \in (SUBSET (Imported \ Installed)) \ {{}}
      <4>1. In(s) \subseteq Imported
        BY DEF In
      <4>2. In(s) \subseteq Imported \ Installed
        BY <3>4, <4>1
      <4>3. In(s) \notin {{}}
        BY <3>6
      <4> QED
        BY <4>2, <4>3
    <3>11. (Imported \ Installed)' = (Imported \ Installed) \ In(s)
      BY <3>5
    <3> QED
      BY <3>8, <3>9, <3>10, <3>11 DEF Abstract!Install
  <2> QED
    <3>1. UNCHANGED durable \/ Flush
      BY DEF Next, Stream, Work, Write, Load, StreamRow, StreamEnds, TakeRow, SendPairs, WorkerDone,
             CloseKv, WritePairs, PeriodicCommit, FinalCommit, ClosePebble, Compact, Kill,
             vars, opts, reader, writer, disk
    <3> QED
      BY <2>1, <2>2, <3>1
<1> QED
  BY <1>1, <1>2, PlacedInvariant, PTL DEF Spec, ImplementsImport, Abstract!Spec
=============================================================================
