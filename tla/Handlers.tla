------------------------------ MODULE Handlers ------------------------------
(***************************************************************************)
(* The router and the handlers of the server.  fasthttp runs one goroutine *)
(* per connection and one request at a time on it; a bulk request spawns   *)
(* one goroutine per hash, and all bulk requests together may hold at most *)
(* MaxBulkWorkers slots of the semaphore h.sem.                            *)
(*                                                                         *)
(* A lookup goroutine <<c, i>> (hash i of the batch of connection c) is in *)
(* "looking" before Store.Lookup, in "holding" while it still has its slot *)
(* and in "leaving" between <-h.sem and wg.Done.                           *)
(***************************************************************************)
EXTENDS Answers

CONSTANTS Conns, Requests, MaxBulkWorkers

ASSUME HandlersAssumption ==
  MaxBulkWorkers \in Nat \ {0} /\ Requests \subseteq Request
  /\ NoRequest \notin Request

VARIABLES
  pc,       \* "idle", "routing", or "bulk" inside processBulk
  req,      \* the request being served
  resp,     \* the last response
  batch,    \* processBulk's hashes
  next,     \* the index its dispatch loop is at
  results,  \* its results slice
  wg,       \* its WaitGroup's counter
  sem,      \* the number of slots taken
  looking, holding, leaving

vars == <<pc, req, resp, batch, next, results, wg, sem, looking, holding, leaving>>

frame      == <<batch, next, results, wg>>
goroutines == <<sem, looking, holding, leaving>>

Goroutine == Conns \X (Nat \ {0})

Init ==
  /\ pc = [c \in Conns |-> "idle"]
  /\ req = [c \in Conns |-> NoRequest]
  /\ resp = [c \in Conns |-> NoReply]
  /\ batch = [c \in Conns |-> <<>>]
  /\ next = [c \in Conns |-> 1]
  /\ results = [c \in Conns |-> <<>>]
  /\ wg = [c \in Conns |-> 0]
  /\ sem = 0
  /\ looking = {} /\ holding = {} /\ leaving = {}
-----------------------------------------------------------------------------
Receive(c, q) ==
  /\ pc[c] = "idle"
  /\ pc' = [pc EXCEPT ![c] = "routing"]
  /\ req' = [req EXCEPT ![c] = q]
  /\ resp' = [resp EXCEPT ![c] = NoReply]
  /\ UNCHANGED <<frame, goroutines>>

\* The handler returns: the response is sent and its locals are gone.
Respond(c, reply) ==
  /\ pc' = [pc EXCEPT ![c] = "idle"]
  /\ req' = [req EXCEPT ![c] = NoRequest]
  /\ resp' = [resp EXCEPT ![c] = reply]
  /\ batch' = [batch EXCEPT ![c] = <<>>]
  /\ next' = [next EXCEPT ![c] = 1]
  /\ results' = [results EXCEPT ![c] = <<>>]
  /\ wg' = [wg EXCEPT ![c] = 0]
  /\ UNCHANGED goroutines

\* fasthttp refuses a body over the limit before it calls the router.
BodyTooBig(c) == pc[c] = "routing" /\ req[c].tooBig /\ Respond(c, Error(400))

\* The router has the request of c.
Read(c) == pc[c] = "routing" /\ ~req[c].tooBig

\* It has sent it to the handler of path p.
Routed(c, p) == Read(c) /\ req[c].path = p /\ (req[c].post \/ p = "/health")

MethodNotAllowed(c) ==
  /\ Read(c) /\ ~req[c].post /\ req[c].path # "/health"
  /\ Respond(c, Error(405))

UnknownPath(c) == Routed(c, "elsewhere") /\ Respond(c, Error(404))

Health(c) == Routed(c, "/health") /\ Respond(c, Healthy)
-----------------------------------------------------------------------------
HandleLookup(c) ==
  /\ Routed(c, "/lookup")
  /\ LET q == req[c] IN
     IF ~q.json \/ q.hashes = <<>> \/ IsEmpty(q.hashes[1])
       THEN Respond(c, Error(400))
       ELSE \E o \in Lookup(q.hashes[1]) : Respond(c, LookupReply(o, q.details))

ProcessBulk(c, hashes) ==
  /\ pc' = [pc EXCEPT ![c] = "bulk"]
  /\ batch' = [batch EXCEPT ![c] = hashes]
  /\ next' = [next EXCEPT ![c] = 1]
  /\ results' = [results EXCEPT ![c] = [i \in DOMAIN hashes |-> Absent]]
  /\ wg' = [wg EXCEPT ![c] = 0]
  /\ UNCHANGED <<req, resp, goroutines>>

HandleBulk(c) ==
  /\ Routed(c, "/bulk")
  /\ LET q == req[c] IN
     IF ~q.json \/ q.hashes = <<>>
       THEN Respond(c, Error(400))
       ELSE ProcessBulk(c, q.hashes)

HandleFile(c) ==
  /\ Routed(c, "/file")
  /\ LET hashes == ParseHashLines(req[c].hashes) IN
     IF hashes = <<>>
       THEN Respond(c, Error(400))
       ELSE ProcessBulk(c, hashes)
-----------------------------------------------------------------------------
(* Mutant of Dispatch: a goroutine per hash with no semaphore.             *)
DispatchUnbounded(c) ==
  /\ pc[c] = "bulk" /\ next[c] \in DOMAIN batch[c]
  /\ wg' = [wg EXCEPT ![c] = @ + 1]
  /\ sem' = sem + 1
  /\ looking' = looking \cup {<<c, next[c]>>}
  /\ next' = [next EXCEPT ![c] = @ + 1]
  /\ UNCHANGED <<pc, req, resp, batch, results, holding, leaving>>

\* wg.Add(1), the send into h.sem (blocking while it is full), the go statement.
Dispatch(c) ==
  /\ pc[c] = "bulk" /\ next[c] \in DOMAIN batch[c]
  /\ sem < MaxBulkWorkers
  /\ wg' = [wg EXCEPT ![c] = @ + 1]
  /\ sem' = sem + 1
  /\ looking' = looking \cup {<<c, next[c]>>}
  /\ next' = [next EXCEPT ![c] = @ + 1]
  /\ UNCHANGED <<pc, req, resp, batch, results, holding, leaving>>

(* Mutant of BulkLookup: the goroutine reads the loop's variables instead  *)
(* of the copies it was started with.                                      *)
BulkLookupCaptured(g) ==
  LET i == next[g[1]] - 1 IN
  /\ g \in looking
  /\ \E o \in Lookup(batch[g[1]][i]) :
       results' = IF o.err = "nil"
                    THEN [results EXCEPT ![g[1]][i] = Present(o.details)]
                    ELSE results
  /\ looking' = looking \ {g}
  /\ holding' = holding \cup {g}
  /\ UNCHANGED <<pc, req, resp, batch, next, wg, sem, leaving>>

\* The body of the goroutine: its hash is looked up, a hit is noted at its index.
BulkLookup(g) ==
  /\ g \in looking
  /\ \E o \in Lookup(batch[g[1]][g[2]]) :
       results' = IF o.err = "nil"
                    THEN [results EXCEPT ![g[1]][g[2]] = Present(o.details)]
                    ELSE results
  /\ looking' = looking \ {g}
  /\ holding' = holding \cup {g}
  /\ UNCHANGED <<pc, req, resp, batch, next, wg, sem, leaving>>

(* Mutant of ReleaseSlot: the slot is given back only after a hit.         *)
ReleaseSlotOnHit(g) ==
  /\ g \in holding /\ sem > 0
  /\ sem' = IF results[g[1]][g[2]].found THEN sem - 1 ELSE sem
  /\ holding' = holding \ {g}
  /\ leaving' = leaving \cup {g}
  /\ UNCHANGED <<pc, req, resp, frame, looking>>

\* The deferred <-h.sem, which would block on an empty channel.
ReleaseSlot(g) ==
  /\ g \in holding /\ sem > 0
  /\ sem' = sem - 1
  /\ holding' = holding \ {g}
  /\ leaving' = leaving \cup {g}
  /\ UNCHANGED <<pc, req, resp, frame, looking>>

\* The deferred wg.Done(), after the slot is free.
WgDone(g) ==
  /\ g \in leaving
  /\ wg' = [wg EXCEPT ![g[1]] = @ - 1]
  /\ leaving' = leaving \ {g}
  /\ UNCHANGED <<pc, req, resp, batch, next, results, sem, looking, holding>>

(* Mutant of Finish: no wg.Wait.                                           *)
FinishEarly(c) ==
  /\ pc[c] = "bulk" /\ next[c] \notin DOMAIN batch[c]
  /\ Respond(c, Collate(batch[c], results[c], req[c].details))

\* wg.Wait has returned: the results are sorted and sent.
Finish(c) ==
  /\ pc[c] = "bulk" /\ next[c] \notin DOMAIN batch[c]
  /\ wg[c] = 0
  /\ Respond(c, Collate(batch[c], results[c], req[c].details))
-----------------------------------------------------------------------------
Handle(c) == \/ BodyTooBig(c) \/ MethodNotAllowed(c) \/ UnknownPath(c) \/ Health(c)
             \/ HandleLookup(c) \/ HandleBulk(c) \/ HandleFile(c)

Run(g) == BulkLookup(g) \/ ReleaseSlot(g) \/ WgDone(g)

Next == \/ \E c \in Conns : \/ \E q \in Requests : Receive(c, q)
                            \/ Handle(c) \/ Dispatch(c) \/ Finish(c)
        \/ \E g \in looking \cup holding \cup leaving : Run(g)

Spec == Init /\ [][Next]_vars
-----------------------------------------------------------------------------
(* The variables hold what their types say; the error statuses are the     *)
(* ones the code sends.                                                    *)
TypeOK ==
  /\ pc \in [Conns -> {"idle", "routing", "bulk"}]
  /\ req \in [Conns -> Requests \cup {NoRequest}]
  /\ DOMAIN resp = Conns
  /\ DOMAIN batch = Conns /\ \A c \in Conns : batch[c] \in Seq(Range(batch[c]))
  /\ next \in [Conns -> Nat \ {0}]
  /\ DOMAIN results = Conns
  /\ \A c \in Conns : results[c] \in [DOMAIN batch[c] -> Result]
  /\ wg \in [Conns -> Nat]
  /\ sem \in 0..MaxBulkWorkers
  /\ looking \subseteq Goroutine /\ holding \subseteq Goroutine /\ leaving \subseteq Goroutine

Goroutines == looking \cup holding \cup leaving
Spawned(c) == {g \in Goroutines : g[1] = c}

(* However many bulk requests run at once, their lookups in flight are at  *)
(* most maxBulkWorkers (handlers.go:15), and the slots taken are exactly   *)
(* theirs: none is lost on any path, none is given back twice.             *)
LookupsBounded ==
  /\ Cardinality(looking \cup holding) = sem
  /\ Cardinality(looking \cup holding) <= MaxBulkWorkers

(* No goroutine outlives the request that spawned it: none is left to      *)
(* write into a results slice that has been answered from, and an idle     *)
(* server holds no slot (wg.Wait, handlers.go:137).                        *)
NoOrphans == \A g \in Goroutines : pc[g[1]] = "bulk" /\ g[2] < next[g[1]]

(* The results a bulk answer is made of are the verdicts on all its        *)
(* hashes: none is still missing, none was written at another's index,     *)
(* whatever the order the goroutines ran in (handlers.go:132-137).         *)
ResultsSettled ==
  \A c \in Conns :
    pc[c] = "bulk" /\ next[c] \notin DOMAIN batch[c] /\ wg[c] = 0
    => \A i \in DOMAIN batch[c] : Settles(results[c][i], batch[c][i])

(* What makes these inductive: the WaitGroup counts the goroutines of   *)
(* the request, a goroutine is at one place, its index is of the batch; a  *)
(* dispatched index whose goroutine has looked up is settled, and every    *)
(* other one still has the zero result.                                    *)
PhasesDisjoint ==
  looking \cap holding = {} /\ looking \cap leaving = {} /\ holding \cap leaving = {}
WaitGroupCounts == \A c \in Conns : wg[c] = Cardinality(Spawned(c))
Dispatched ==
  \A c \in Conns : \A i \in DOMAIN batch[c] :
    IF i < next[c] /\ <<c, i>> \notin looking
      THEN Settles(results[c][i], batch[c][i])
      ELSE results[c][i] = Absent
IInv ==
  /\ TypeOK /\ LookupsBounded /\ NoOrphans
  /\ IsFiniteSet(Goroutines) /\ PhasesDisjoint /\ WaitGroupCounts /\ Dispatched
  /\ \A c \in Conns : pc[c] = "idle" <=> req[c] = NoRequest
  /\ \A c \in Conns : next[c] <= Len(batch[c]) + 1
  /\ \A g \in looking : g[2] \in DOMAIN batch[g[1]]

(* A running batch is the one its request asked for, also when it was read *)
(* line by line from a file.                                               *)
BatchOfRequest ==
  \A c \in Conns : pc[c] = "bulk" =>
    LET q == req[c] IN
    /\ q.post /\ ~q.tooBig /\ batch[c] # <<>>
    /\ \/ q.path = "/bulk" /\ q.json /\ batch[c] = q.hashes
       \/ q.path = "/file" /\ batch[c] = ParseHashLines(q.hashes)

\* The texts the last answer of c lists under not_found.
ReportedMissing(c) ==
  IF resp[c] # NoReply /\ "notFound" \in DOMAIN resp[c] THEN Range(resp[c].notFound) ELSE {}

(* A hash a client is told is not_found is not in the database (README:9,  *)
(* store.go:60).                                                           *)
NotFoundMeansAbsent ==
  \A c \in Conns : \A t \in ReportedMissing(c) : HashToKey(t) \notin Stored

(* No false alarm: a hash whose record can be read is not reported missing,*)
(* whichever goroutines ran before the one that looked it up.              *)
NoFalseAlarm ==
  \A c \in Conns : \A t \in ReportedMissing(c) : HashToKey(t) \notin Stored \ Unreadable

(* The handlers implement the service: routing, validation, the worker     *)
(* goroutines and the sorting of their results come to one legal answer.   *)
Service == INSTANCE LookupService WITH pending <- req, answer <- resp
ImplementsService == Service!Spec
=============================================================================
