------------------------------ MODULE HashKeys ------------------------------
(***************************************************************************)
(* Hash texts and the Pebble keys made of them.  The server keys a query   *)
(* by the LENGTH of the decoded hash (HashToKey in internal/store); the    *)
(* ETL keys a table cell by the COLUMN it comes from (serializeRow in      *)
(* cmd/etl).  A file is found only if the two agree.                       *)
(*                                                                         *)
(* A text is abstracted to what the code can tell apart: the bytes its     *)
(* trimmed body decodes to (NotHex when it is no even-length hex string),  *)
(* whether white space surrounds it, and whether it has capital letters.   *)
(***************************************************************************)
EXTENDS Naturals

CONSTANTS
  Raw,      \* the byte strings a text may decode to, the empty one included
  ByteLen,  \* their lengths
  NotHex    \* the error hex.DecodeString returns

ASSUME RawAssumption == ByteLen \in [Raw -> Nat] /\ NotHex \notin Raw

Text == [raw : Raw \cup {NotHex}, padded : BOOLEAN, upper : BOOLEAN]

TrimSpace(t) == [t EXCEPT !.padded = FALSE]
ToLower(t)   == [t EXCEPT !.upper = FALSE]

\* A text with nothing but white space in it; "" when not padded either.
IsBlank(t) == t.raw \in Raw /\ ByteLen[t.raw] = 0
IsEmpty(t) == IsBlank(t) /\ ~t.padded

\* hex.DecodeString takes both cases and no white space.
DecodeString(t) == IF t.padded THEN NotHex ELSE t.raw
-----------------------------------------------------------------------------
HashKinds == {"SHA1", "SHA256", "MD5", "CRC32"}

Prefix == [SHA1 |-> 1, SHA256 |-> 2, MD5 |-> 3, CRC32 |-> 4]
Width  == [SHA1 |-> 20, SHA256 |-> 32, MD5 |-> 16, CRC32 |-> 4]

MakeKey(prefix, raw) == <<prefix, raw>>
Keys == {MakeKey(Prefix[k], raw) : k \in HashKinds, raw \in Raw}

NoKey == <<>>   \* no key: ErrInvalidHash in the server, a skipped cell in the ETL

KindsOfLength(n) == {k \in HashKinds : Width[k] = n}

(* Mutants of HashToKey: the text is decoded untrimmed; a length the       *)
(* switch does not know falls through to some prefix.                      *)
HashToKeyUntrimmed(t) ==
  LET raw == DecodeString(ToLower(t)) IN
  IF raw # NotHex /\ KindsOfLength(ByteLen[raw]) # {}
    THEN MakeKey(Prefix[CHOOSE k \in KindsOfLength(ByteLen[raw]) : TRUE], raw)
    ELSE NoKey
HashToKeyAnyLength(t) ==
  LET raw == DecodeString(ToLower(TrimSpace(t))) IN
  IF raw = NotHex THEN NoKey
  ELSE IF KindsOfLength(ByteLen[raw]) # {}
    THEN MakeKey(Prefix[CHOOSE k \in KindsOfLength(ByteLen[raw]) : TRUE], raw)
    ELSE MakeKey(Prefix["SHA256"], raw)

\* The server's key of a query.
HashToKey(t) ==
  LET raw == DecodeString(ToLower(TrimSpace(t))) IN
  IF raw # NotHex /\ KindsOfLength(ByteLen[raw]) # {}
    THEN MakeKey(Prefix[CHOOSE k \in KindsOfLength(ByteLen[raw]) : TRUE], raw)
    ELSE NoKey

\* The importer's key of the cell t of column k: no trimming, no length check.
CellKey(k, t) ==
  IF IsEmpty(t) \/ DecodeString(t) = NotHex
    THEN NoKey
    ELSE MakeKey(Prefix[k], DecodeString(t))
-----------------------------------------------------------------------------
(* A cell of the width of its column, written without white space, is      *)
(* reachable: whatever the case and padding a client spells the same hash  *)
(* in, the server's key is the importer's (README, "Hash Type Detection":  *)
(* input is normalised before lookup).                                     *)
Reachable(k, cell, query) ==
  ( /\ cell.raw \in Raw /\ ~cell.padded
    /\ ByteLen[cell.raw] = Width[k]
    /\ query.raw = cell.raw )
  => HashToKey(query) = CellKey(k, cell)

(* A hit is genuine: a query and a cell share a key only if they are the   *)
(* same bytes and the column is the one that holds hashes of that length,  *)
(* so a cell stored under the wrong column's prefix answers no query.      *)
NoCrossHit(k, cell, query) ==
  ( /\ HashToKey(query) # NoKey
    /\ HashToKey(query) = CellKey(k, cell) )
  => query.raw = cell.raw /\ ByteLen[cell.raw] = Width[k]
=============================================================================
