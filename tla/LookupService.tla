---------------------------- MODULE LookupService ---------------------------
(***************************************************************************)
(* What the HTTP API promises: every request is answered once, in one      *)
(* step, from the database; a bulk answer is the verdict on each text of   *)
(* the batch, in the order of the batch, however the lookups were run.     *)
(* The answers are said declaratively, not by the handlers' loops.         *)
(***************************************************************************)
EXTENDS Answers

CONSTANTS Conns, Requests

VARIABLES
  pending,  \* the request a connection is waiting on, or NoRequest
  answer    \* the last answer it got

vars == <<pending, answer>>

MayBeFound(t)    == \E o \in Lookup(t) : o.err = "nil"
MayNotBeFound(t) == \E o \in Lookup(t) : o.err # "nil"

\* The elements of seq whose indices are in at, in the order of seq.
InOrder(seq, at) ==
  LET pos == CHOOSE p \in [1..Cardinality(at) -> at] :
               \A m, n \in 1..Cardinality(at) : m < n => p[m] < p[n]
  IN  [n \in 1..Cardinality(at) |-> seq[pos[n]]]

Trimmed(lines) ==
  LET text == [i \in DOMAIN lines |-> TrimSpace(lines[i])]
  IN  InOrder(text, {i \in DOMAIN text : ~IsEmpty(text[i])})

\* The texts of the batch whose verdict is "absent", in the batch's order.
Missing(hashes, hit) == InOrder(hashes, {i \in DOMAIN hashes : ~hit[i]})

\* One answer for each way the lookups may come out.
BulkAnswers(hashes, details) ==
  { LET hits == {i \in DOMAIN hashes : hit[i]}
    IN  BulkReply(Missing(hashes, hit),
                  [t \in {hashes[i] : i \in hits} |-> Value[HashToKey(t)]],
                  Cardinality(hits), details) :
    hit \in { h \in [DOMAIN hashes -> BOOLEAN] :
                \A i \in DOMAIN hashes :
                  IF h[i] THEN MayBeFound(hashes[i]) ELSE MayNotBeFound(hashes[i]) } }

LookupAnswers(q) ==
  IF ~q.json \/ q.hashes = <<>> \/ IsEmpty(q.hashes[1])
    THEN {Error(400)}
    ELSE {LookupReply(o, q.details) : o \in Lookup(q.hashes[1])}

RoutedAnswers(q) ==
  CASE q.path = "/health"                  -> {Healthy}
    [] q.path # "/health" /\ ~q.post       -> {Error(405)}
    [] q.path = "elsewhere" /\ q.post      -> {Error(404)}
    [] q.path = "/lookup" /\ q.post        -> LookupAnswers(q)
    [] q.path = "/bulk" /\ q.post          ->
         IF ~q.json \/ q.hashes = <<>> THEN {Error(400)}
         ELSE BulkAnswers(q.hashes, q.details)
    [] q.path = "/file" /\ q.post          ->
         LET lines == Trimmed(q.hashes) IN
         IF lines = <<>> THEN {Error(400)} ELSE BulkAnswers(lines, q.details)

\* A body over the limit is refused wherever it was sent.
AnswersTo(q) == IF q.tooBig THEN {Error(400)} ELSE RoutedAnswers(q)
-----------------------------------------------------------------------------
Init == pending = [c \in Conns |-> NoRequest] /\ answer = [c \in Conns |-> NoReply]

Ask(c, q) == /\ pending[c] = NoRequest
             /\ pending' = [pending EXCEPT ![c] = q]
             /\ answer' = [answer EXCEPT ![c] = NoReply]

Reply(c) == /\ pending[c] # NoRequest
            /\ \E a \in AnswersTo(pending[c]) : answer' = [answer EXCEPT ![c] = a]
            /\ pending' = [pending EXCEPT ![c] = NoRequest]

Next == \E c \in Conns : Reply(c) \/ \E q \in Requests : Ask(c, q)

Spec == Init /\ [][Next]_vars
=============================================================================
