----------------------------- MODULE MCHandlers -----------------------------
(***************************************************************************)
(* Requests that take every branch of the router and the handlers, over a  *)
(* database of two stored keys, one of which cannot always be read, an     *)
(* absent one and texts that are no hash: batches with a repeated hash,    *)
(* hashes in several spellings, blank lines, a line that is too long for   *)
(* the client to count and a body that is too big for the server to read.  *)
(***************************************************************************)
EXTENDS Client, TLC

CONSTANTS none, md5, sha1, crc, odd, huge, details, others

MCByteLen == none :> 0 @@ md5 :> 16 @@ sha1 :> 20 @@ crc :> 4 @@ odd :> 7 @@ huge :> 32768
StoredKey == MakeKey(Prefix["MD5"], md5)
FlakyKey  == MakeKey(Prefix["CRC32"], crc)
MCStored  == {StoredKey, FlakyKey}
MCValue   == StoredKey :> details @@ FlakyKey :> others
MCUnreadable == {FlakyKey}

Plain(raw) == [raw |-> raw, padded |-> FALSE, upper |-> FALSE]
Loud(raw)  == [raw |-> raw, padded |-> TRUE,  upper |-> TRUE]
Blank      == [raw |-> none, padded |-> TRUE, upper |-> FALSE]

Post(path, hashes, withDetails) ==
  [post |-> TRUE, path |-> path, json |-> TRUE, hashes |-> hashes, details |-> withDetails,
   tooBig |-> FALSE]

MCLongLines == {Plain(huge)}

LookupRequests ==
  { Post("/lookup", <<Plain(md5)>>, FALSE), Post("/lookup", <<Loud(md5)>>, TRUE),
    Post("/lookup", <<Plain(sha1)>>, FALSE), Post("/lookup", <<Plain(crc)>>, TRUE),
    Post("/lookup", <<Plain(none)>>, FALSE),
    Post("/lookup", <<Plain(odd)>>, FALSE), Post("/lookup", <<>>, FALSE) }
OtherRequests ==
  { [Post("/lookup", <<>>, FALSE) EXCEPT !.post = FALSE],
    [Post("/health", <<>>, FALSE) EXCEPT !.post = FALSE],
    Post("elsewhere", <<>>, FALSE),
    [Post("/bulk", <<>>, FALSE) EXCEPT !.json = FALSE],
    Post("/bulk", <<>>, FALSE),
    [Post("/file", <<Plain(md5), Plain(sha1)>>, FALSE) EXCEPT !.tooBig = TRUE],
    Post("/file", <<Blank, Plain(none)>>, FALSE) }
BulkRequests ==
  { Post("/bulk", <<Plain(md5), Plain(sha1), Plain(md5)>>, TRUE),
    Post("/bulk", <<Plain(crc), Loud(md5), Plain(crc)>>, TRUE),
    Post("/bulk", <<Plain(NotHex), Loud(md5)>>, FALSE),
    Post("/file", <<Loud(md5), Blank, Plain(sha1)>>, TRUE),
    Post("/file", <<Plain(md5), Plain(huge), Plain(md5)>>, FALSE) }

MCRequests == LookupRequests \cup OtherRequests \cup BulkRequests
Symmetric == Permutations(Conns)
=============================================================================
