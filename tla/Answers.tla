------------------------------ MODULE Answers -------------------------------
(***************************************************************************)
(* What one request is answered, as a function of the store: the outcome   *)
(* of Store.Lookup (internal/store) and the replies the handlers build     *)
(* from outcomes (internal/api).  The store of a running server is opened  *)
(* read-only, so it is a constant here.                                    *)
(*                                                                         *)
(* An outcome carries the error VALUE the handler compares with ==: the    *)
(* sentinel ErrNotFound is returned as it is, ErrInvalidHash only wrapped  *)
(* by fmt.Errorf("%w: ...").                                               *)
(***************************************************************************)
EXTENDS HashKeys, Integers, Sequences, FiniteSets, SequencesExt

CONSTANTS
  Stored,      \* the keys in the database
  Value,       \* their FileDetails
  NoDetails,   \* the nil *FileDetails
  Unreadable   \* keys whose Get or whose decoding may fail

ASSUME StoreAssumption ==
  Stored \subseteq Keys /\ Unreadable \subseteq Keys /\ Value \in [Stored -> Range(Value)]
-----------------------------------------------------------------------------
Hit(key)     == [err |-> "nil", details |-> Value[key]]
Failure(err) == [err |-> err, details |-> NoDetails]

\* The outcomes of Store.Lookup: one, or two when the read may fail.
Lookup(t) ==
  LET key == HashToKey(t) IN
  IF key = NoKey THEN {Failure("wrapped ErrInvalidHash")}
  ELSE { IF key \in Stored THEN Hit(key) ELSE Failure("ErrNotFound") }
       \cup { Failure("wrapped read error") : k \in {key} \cap Unreadable }
-----------------------------------------------------------------------------
\* badRequest, writeJSON, SetStatusCode: only the status tells errors apart.
Error(status) == [status |-> status]
Healthy       == [status |-> 200, verdict |-> "ok"]

\* HandleLookup from line 49 on.
LookupReply(outcome, details) ==
  CASE outcome.err = "ErrNotFound"    -> [status |-> 200, verdict |-> "not_found"]
    [] outcome.err = "ErrInvalidHash" -> Error(400)
    [] outcome.err = "nil" /\ ~details -> [status |-> 200, verdict |-> "found"]
    [] outcome.err = "nil" /\ details  ->
         [status |-> 200, verdict |-> "found", details |-> outcome.details]
    [] OTHER -> Error(500)

(* Mutant of ParseHashLines: blank lines are kept.                         *)
ParseHashLinesBlank(lines) == [n \in DOMAIN lines |-> TrimSpace(lines[n])]

\* The lines of a /file body, trimmed, without the blank ones.
ParseHashLines(lines) ==
  LET text(i) == TrimSpace(lines[i])
      kept    == {i \in DOMAIN lines : ~IsEmpty(text(i))}
      nth(n)  == CHOOSE i \in kept : Cardinality({j \in kept : j <= i}) = n
  IN  [n \in 1..Cardinality(kept) |-> text(nth(n))]
-----------------------------------------------------------------------------
\* The zero value of processBulk's result type, and a filled one.
Absent     == [found |-> FALSE, d |-> NoDetails]
Present(d) == [found |-> TRUE,  d |-> d]
Result     == {Absent} \cup {Present(Value[key]) : key \in Stored}

\* A result that some outcome of the lookup of t explains.
Settles(result, t) ==
  IF result.found
    THEN \E o \in Lookup(t) : o.err = "nil" /\ o.details = result.d
    ELSE \E o \in Lookup(t) : o.err # "nil"

\* A map after map[key] = v.
Put(map, key, v) == [k \in DOMAIN map \cup {key} |-> IF k = key THEN v ELSE map[k]]

\* One turn of the loop that sorts the results into the reply.
AddResult(hashes, results, acc, i) ==
  IF results[i].found
    THEN [notFound |-> acc.notFound, found |-> Put(acc.found, hashes[i], results[i].d),
          count |-> acc.count + 1]
    ELSE [acc EXCEPT !.notFound = Append(@, hashes[i])]

\* The loop over the results.
Sorted(hashes, results) ==
  LET turn[n \in 0..Len(results)] ==
        IF n = 0 THEN [notFound |-> <<>>, found |-> <<>>, count |-> 0]
        ELSE AddResult(hashes, results, turn[n - 1], n)
  IN  turn[Len(results)]

\* The two shapes of the reply, by "if details".
BulkReply(notFound, found, count, details) ==
  IF details
    THEN [status |-> 200, notFound |-> notFound, found |-> found, count |-> count]
    ELSE [status |-> 200, notFound |-> notFound, count |-> count]

(* Mutant of Collate: hashes are counted by the size of the found map.     *)
CollateMapSized(hashes, results, details) ==
  LET acc == Sorted(hashes, results)
  IN  BulkReply(acc.notFound, acc.found, Cardinality(DOMAIN acc.found), details)

\* The end of processBulk.
Collate(hashes, results, details) ==
  LET acc == Sorted(hashes, results)
  IN  BulkReply(acc.notFound, acc.found, acc.count, details)
-----------------------------------------------------------------------------
(* A request as the router sees it.  "json" says whether the body is JSON  *)
(* of the handler's shape; hashes are its texts (/lookup reads the first   *)
(* one, "" when the field is missing) or, for /file, the body's lines;     *)
(* tooBig is a body over the server's MaxRequestBodySize.                  *)
Paths   == {"/lookup", "/bulk", "/file", "/health", "elsewhere"}
Request == [post : BOOLEAN, path : Paths, json : BOOLEAN,
            hashes : Seq(Text), details : BOOLEAN, tooBig : BOOLEAN]

CONSTANTS NoRequest, NoReply
=============================================================================
