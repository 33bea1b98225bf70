---------------------------- MODULE DehashServer ----------------------------
(***************************************************************************)
(* The server process: main opens the store, asks for SIGTERM, starts the  *)
(* goroutine that will call srv.Shutdown, and serves until ListenAndServe  *)
(* returns; then its deferred s.Close() runs and the process exits, with   *)
(* whatever goroutine is still running.                                    *)
(*                                                                         *)
(* Of fasthttp (external): Shutdown with no listener yet returns at once;  *)
(* otherwise it closes the listener and returns when no connection is      *)
(* busy.  ListenAndServe returns once the listener is closed, and on every *)
(* error of accept that is not a timeout (too many open files); then the   *)
(* open connections are served until the process is gone.  Of Pebble       *)
(* (external): Get on a closed database panics.                            *)
(***************************************************************************)
EXTENDS Handlers

CONSTANT MaxSignals   \* bound: SIGTERMs sent

ASSUME ServerAssumption == MaxSignals \in Nat

VARIABLES
  main,     \* where main is: see Phases
  listener, \* "none" yet, "open", "broken" by an error, "closed" by Shutdown
  quitter,  \* the shutdown goroutine
  quit,     \* signals in the channel, which holds one
  sent      \* SIGTERMs sent so far

server == <<main, listener, quitter, quit, sent>>
allvars == <<vars, server>>

\* "closing" and "leaving": main returned, before and after the deferred s.Close().
Phases == {"opening", "opened", "notified", "serving",
           "closing", "leaving", "exited", "failed", "killed", "panicked"}
Alive  == main \notin {"exited", "failed", "killed", "panicked"}

ServerInit ==
  /\ Init
  /\ main = "opening" /\ listener = "none" /\ quitter = "none" /\ quit = 0 /\ sent = 0
-----------------------------------------------------------------------------
MainGoes(from, to) ==
  main = from /\ main' = to /\ UNCHANGED <<vars, quit, sent>>

OpenStore == MainGoes("opening", "opened") /\ UNCHANGED <<listener, quitter>>
OpenFails == MainGoes("opening", "failed") /\ UNCHANGED <<listener, quitter>>
Notify    == /\ MainGoes("opened", "notified")
             /\ quitter' = "waiting"
             /\ UNCHANGED listener
Listen    == /\ MainGoes("notified", "serving")
             /\ listener' = "open"
             /\ UNCHANGED quitter
ListenFails == MainGoes("notified", "closing") /\ UNCHANGED <<listener, quitter>>

ServeReturns == /\ listener # "open"
                /\ MainGoes("serving", "closing")
                /\ UNCHANGED <<listener, quitter>>
CloseStore == MainGoes("closing", "leaving") /\ UNCHANGED <<listener, quitter>>
Exit       == MainGoes("leaving", "exited") /\ UNCHANGED <<listener, quitter>>

\* Accept gives an error that is not a timeout.
AcceptFails ==
  /\ main = "serving" /\ listener = "open"
  /\ listener' = "broken"
  /\ UNCHANGED <<vars, main, quitter, quit, sent>>

(* Mutant of Sigterm: the channel keeps every signal.                      *)
SigtermQueued ==
  /\ Alive /\ sent < MaxSignals
  /\ sent' = sent + 1
  /\ IF main \in {"opening", "opened"}
       THEN main' = "killed" /\ UNCHANGED quit
       ELSE quit' = quit + 1 /\ UNCHANGED main
  /\ UNCHANGED <<vars, listener, quitter>>

(* Mutant of Sigterm: the signal is not caught.                            *)
SigtermKills ==
  /\ Alive /\ sent < MaxSignals
  /\ sent' = sent + 1
  /\ main' = "killed"
  /\ UNCHANGED <<vars, listener, quitter, quit>>

\* Before signal.Notify the default action kills the process; a signal that
\* finds the channel full is dropped by package signal.
Sigterm ==
  /\ Alive /\ sent < MaxSignals
  /\ sent' = sent + 1
  /\ IF main \in {"opening", "opened"}
       THEN main' = "killed" /\ UNCHANGED quit
       ELSE quit' = 1 /\ UNCHANGED main
  /\ UNCHANGED <<vars, listener, quitter>>

(* Mutant of TakeSignal: the goroutine logs and does not call Shutdown.    *)
TakeSignalOnly ==
  /\ Alive /\ quitter = "waiting" /\ quit = 1
  /\ quit' = 0
  /\ quitter' = "returned"
  /\ UNCHANGED <<vars, main, listener, sent>>

\* <-quit, then Shutdown closes the listener if there is one.
TakeSignal ==
  /\ Alive /\ quitter = "waiting" /\ quit = 1
  /\ quit' = 0
  /\ IF listener = "none"
       THEN quitter' = "returned" /\ UNCHANGED listener
       ELSE quitter' = "draining" /\ listener' = "closed"
  /\ UNCHANGED <<vars, main, sent>>

\* Shutdown returns: no connection is busy.
Drained ==
  /\ Alive /\ quitter = "draining"
  /\ \A c \in Conns : pc[c] = "idle"
  /\ quitter' = "returned"
  /\ UNCHANGED <<vars, main, listener, quit, sent>>
-----------------------------------------------------------------------------
StoreClosed == main = "leaving"

\* A request arrives: Shutdown ends the connections that are not busy.
Accept(c, q) == /\ Alive /\ listener \in {"open", "broken"}
                /\ Receive(c, q)
                /\ UNCHANGED server

\* The next step of the handler of c is a Get.
ReadsStore(c) == Routed(c, "/lookup") /\ req[c].json /\ req[c].hashes # <<>>
                 /\ HashToKey(req[c].hashes[1]) # NoKey

\* A step of a handler or of a lookup goroutine, unless it reads a closed store.
ServeConn(c) == /\ Alive /\ ~(StoreClosed /\ ReadsStore(c))
                /\ Handle(c) \/ Dispatch(c) \/ Finish(c)
                /\ UNCHANGED server

ServeGoroutine(g) ==
  /\ Alive
  /\ ~(StoreClosed /\ g \in looking /\ HashToKey(batch[g[1]][g[2]]) # NoKey)
  /\ Run(g)
  /\ UNCHANGED server

\* pebble.DB.Get after Close.
Panic ==
  /\ StoreClosed
  /\ \/ \E c \in Conns : ReadsStore(c)
     \/ \E g \in looking : HashToKey(batch[g[1]][g[2]]) # NoKey
  /\ main' = "panicked"
  /\ UNCHANGED <<vars, listener, quitter, quit, sent>>
-----------------------------------------------------------------------------
MainStep == OpenStore \/ OpenFails \/ Notify \/ Listen \/ ListenFails
            \/ ServeReturns \/ CloseStore \/ Exit

ServerNext ==
  \/ MainStep \/ AcceptFails \/ Sigterm \/ TakeSignal \/ Drained \/ Panic
  \/ \E c \in Conns : ServeConn(c) \/ \E q \in Requests : Accept(c, q)
  \/ \E g \in looking \cup holding \cup leaving : ServeGoroutine(g)

ServerSpec == ServerInit /\ [][ServerNext]_allvars

(* The Go scheduler runs every goroutine that can run; no signal has to    *)
(* come.  Senders blocked on a channel are served in the order they came,  *)
(* so a Dispatch that is enabled again and again is not passed over.       *)
ServerFairness ==
  /\ WF_allvars(MainStep) /\ WF_allvars(TakeSignal) /\ WF_allvars(Drained)
  /\ \A c \in Conns :
       /\ WF_allvars(Handle(c) /\ ServeConn(c)) /\ WF_allvars(Finish(c) /\ ServeConn(c))
       /\ SF_allvars(Dispatch(c) /\ ServeConn(c))
  /\ \A g \in Conns \X UNION {DOMAIN q.hashes : q \in Requests} :
       WF_allvars(ServeGoroutine(g))

ServerFairSpec == ServerSpec /\ ServerFairness
-----------------------------------------------------------------------------
ServerTypeOK ==
  /\ TypeOK
  /\ main \in Phases /\ listener \in {"none", "open", "broken", "closed"}
  /\ quitter \in {"none", "waiting", "draining", "returned"}
  /\ quit \in 0..1 /\ sent \in 0..MaxSignals

(* The process drops a request, or reads the closed database under one,    *)
(* only when its listener broke or when a signal it caught had it closed   *)
(* (main.go:37-51): not when the store cannot be opened, the address is in *)
(* use, or a signal comes before there is a listener.                      *)
DropsOnlyWhenStopped ==
  ~Alive /\ (main = "panicked" \/ \E c \in Conns : req[c] # NoRequest)
  => listener = "broken" \/ (listener = "closed" /\ sent > 0)

(* A first signal that finds the server serving stops it, busy connections *)
(* or not (main.go:37-45).                                                 *)
SignalWhileServingStops ==
  (main = "serving" /\ quit = 1 /\ quitter = "waiting") ~> ~Alive

(* A request is answered unless the process stops first.                   *)
AnsweredOrStopped == \A c \in Conns : req[c] # NoRequest ~> (req[c] = NoRequest \/ ~Alive)

(* Stopping is graceful (main.go:36, "Graceful shutdown on SIGTERM /       *)
(* SIGINT."): once Shutdown has closed the listener the process does not   *)
(* end while a request is being served.                                    *)
GracefulShutdown ==
  listener = "closed" /\ main \in {"exited", "panicked"} => \A c \in Conns : req[c] = NoRequest

(* The server runs until it is sent SIGTERM (README:438-439), not longer.  *)
SignalStops == sent > 0 ~> ~Alive
=============================================================================
