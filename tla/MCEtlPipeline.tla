--------------------------- MODULE MCEtlPipeline ----------------------------
(***************************************************************************)
(* A small table: one file listed under two packages (twin), two files     *)
(* with the same CRC32 and hashes of their own (left, right), a row whose  *)
(* only hash cannot be decoded, a row with a NULL column.  The database    *)
(* already holds a record under one of the new keys and one under another. *)
(***************************************************************************)
EXTENDS EtlPipeline, TLC

CONSTANTS none, crc, sha1, md5, other

MCByteLen == none :> 0 @@ crc :> 4 @@ sha1 :> 20 @@ md5 :> 16 @@ other :> 16

Plain(raw) == [raw |-> raw, padded |-> FALSE, upper |-> TRUE]
NoCells == [k \in HashKinds |-> Plain(none)]
RowOf(cells) == [cells |-> cells, scans |-> TRUE]

Twin   == RowOf([NoCells EXCEPT !["SHA1"] = Plain(sha1), !["MD5"] = Plain(md5)])
Left   == RowOf([NoCells EXCEPT !["CRC32"] = Plain(crc)])
Right  == RowOf([NoCells EXCEPT !["CRC32"] = Plain(crc), !["MD5"] = Plain(other)])
Broken == RowOf([NoCells EXCEPT !["MD5"] = Plain(NotHex)])
Null   == [RowOf(NoCells) EXCEPT !.scans = FALSE]

MCSource   == <<Twin, Left, Broken, Twin, Null, Right>>
CleanRows  == <<Twin, Twin, Right>>
MCPrior    == {MakeKey(Prefix["MD5"], md5), MakeKey(Prefix["SHA256"], other)}

AnyCrew == SUBSET Workers
Symmetric == Permutations(Workers)
=============================================================================
