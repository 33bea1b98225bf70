------------------------------- MODULE Writes -------------------------------
(***************************************************************************)
(* What a key-value store holds after a sequence of writes, each of them a *)
(* function from the keys it sets to their values: under every key the     *)
(* value it was given last.                                                *)
(***************************************************************************)
EXTENDS Naturals, Sequences, FiniteSetsExt

\* The writes that set a key.
Setting(key, writes) == {n \in DOMAIN writes : key \in DOMAIN writes[n]}

AllKeys(old, writes) == DOMAIN old \cup UNION {DOMAIN writes[n] : n \in DOMAIN writes}

Written(old, writes) ==
  [key \in AllKeys(old, writes) |->
     IF Setting(key, writes) = {} THEN old[key]
       ELSE writes[Max(Setting(key, writes))][key]]
=============================================================================
