--------------------------- MODULE MCDehashServer ---------------------------
(***************************************************************************)
(* The process with two connections, two signals and one request of each   *)
(* shape that reads the store.                                             *)
(***************************************************************************)
EXTENDS DehashServer, TLC

CONSTANTS none, md5, odd, details

MCByteLen == none :> 0 @@ md5 :> 16 @@ odd :> 7
StoredKey == MakeKey(Prefix["MD5"], md5)
MCStored  == {StoredKey}
MCValue   == StoredKey :> details

Plain(raw) == [raw |-> raw, padded |-> FALSE, upper |-> FALSE]
Post(path, hashes) ==
  [post |-> TRUE, path |-> path, json |-> TRUE, hashes |-> hashes, details |-> FALSE,
   tooBig |-> FALSE]

MCRequests == { Post("/lookup", <<Plain(md5)>>),
                Post("/bulk", <<Plain(md5), Plain(odd)>>) }
=============================================================================
