-------------------------------- MODULE MCTui -------------------------------
(* Two hosts beside the default, one of which makes no URL, one hash, a    *)
(* path that can be picked and one of a FIFO that can only be typed; the   *)
(* port keeps its default.                                                 *)
EXTENDS Tui, TLC

CONSTANTS host, garbled, hash, fifo, picked

MCTexts == "url" :> {Blank, host, garbled} @@ "port" :> {Blank} @@ "hash" :> {Blank, hash}
           @@ "file" :> {Blank, fifo, picked}
MCRefused == {<<garbled, "8080">>}
=============================================================================
