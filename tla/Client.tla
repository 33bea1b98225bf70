------------------------------- MODULE Client --------------------------------
(***************************************************************************)
(* The example client, examples/client: what it shows of the server's      *)
(* replies.  It looks at no HTTP status: a field that the reply does not   *)
(* have, as in every error, is read as Go's zero value.                    *)
(***************************************************************************)
EXTENDS Handlers

CONSTANT LongLines   \* lines over 64 KiB, the longest bufio.Scanner reads

ASSUME ClientAssumption == LongLines \subseteq Text

\* The lines with something on them.
Written(lines) == {i \in DOMAIN lines : ~IsEmpty(TrimSpace(lines[i]))}

\* lookupFile's total, announced before the file is sent: the first long line
\* ends the Scanner, and nobody asks for its error.
CountLines(lines) ==
  Cardinality({i \in Written(lines) : \A j \in 1..i : lines[j] \notin LongLines})

\* The counts lookupFile prints.
FileShows(reply) ==
  [ found |-> IF "count" \in DOMAIN reply THEN reply.count ELSE 0,
    notFound |-> IF "notFound" \in DOMAIN reply THEN Len(reply.notFound) ELSE 0 ]

\* What lookupSingle prints: the status, and the details if it asked for them.
SingleShows(reply, details) ==
  [ status |-> IF "verdict" \in DOMAIN reply THEN reply.verdict ELSE "nil",
    details |-> IF details /\ "details" \in DOMAIN reply THEN reply.details ELSE NoDetails ]

Answered(c) == req[c] # NoRequest /\ req'[c] = NoRequest

\* The report on a file is about all of its lines.
Complete(shown, lines) ==
  LET reported == shown.found + shown.notFound IN
  /\ reported = Cardinality(Written(lines))
  /\ reported >= CountLines(lines)
  /\ Range(lines) \cap LongLines = {} => reported = CountLines(lines)

(* What the client reports of a file adds up, though the two programs      *)
(* split the file on their own and lines repeat or are blank: the          *)
(* legitimate and the suspicious hashes are together the file's lines,     *)
(* which are those it announced, or more if one is too long for it to      *)
(* count.  An error, which it shows as no hash of either kind, is what a   *)
(* file without a hash or too big for the server gets, and no other.  Of a *)
(* single hash it shows details only with the status "found", and those    *)
(* stored under the hash (examples/client/main.go:63, 85, 106-112).        *)
ClientAddsUp ==
  [][ \A c \in Conns : Answered(c) /\ req[c].post =>
        /\ req[c].path = "/file" =>
             LET shown == FileShows(resp'[c])
             IN  IF resp'[c].status = 200
                   THEN Complete(shown, req[c].hashes)
                   ELSE /\ shown = [found |-> 0, notFound |-> 0]
                        /\ req[c].tooBig \/ Written(req[c].hashes) = {}
        /\ req[c].path = "/lookup" =>
             LET shown == SingleShows(resp'[c], req[c].details)
             IN  shown.details # NoDetails =>
                   shown.status = "found" /\ shown.details = Value[HashToKey(req[c].hashes[1])]
    ]_vars
=============================================================================
