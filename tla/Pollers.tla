------------------------------ MODULE Pollers -------------------------------
(***************************************************************************)
(* The life of the two pollers of internal/poller and of the process that  *)
(* runs them (cmd/main.go).  Each poller lists the OLTs once, when it      *)
(* starts, and gives each a goroutine for good, which polls at every tick: *)
(* a client of its own, the discovery of the PONs, and a goroutine per PON *)
(* on that client, a few at a time.  The signal handler cancels their      *)
(* context, waits for one poller and then for the other, and exits.        *)
(* Walks and sleeps do not look at the context.                            *)
(*                                                                         *)
(* What a poll reads and stores is in OnuCache.  The registry is that of   *)
(* OltManager: here a listing gives any OLTs, and a lookup finds one or    *)
(* not, as requests create, update and delete them.                        *)
(***************************************************************************)
EXTENDS Naturals

CONSTANTS
  OLT,       \* OLT identifiers
  Optical, Names,  \* the pollers
  Width,     \* how many PONs a poll walks at a time
  MaxPon     \* bound on the PONs of an OLT

ASSUME PollersAssumption ==
  /\ Optical # Names
  /\ {Width, MaxPon} \subseteq Nat \ {0}

Poller == {Optical, Names}

VARIABLES
  main,    \* the signal handler: "serve", then whom it stops, then "exited"
  root,    \* the goroutine Start makes for each poller
  listed,  \* the OLTs each poller listed
  at,      \* the goroutine of each poller and OLT
  open,    \* its client is connected
  queued,  \* its PON goroutines that wait for the semaphore,
  busy     \* and those that are inside

poll == <<at, open, queued, busy>>
vars == <<main, root, listed, poll>>

-----------------------------------------------------------------------------
Places == {"off", "sleep", "poll", "discover", "walk", "select", "ended"}

TypeOK ==
  /\ main \in {"serve", "stopOptical", "stopNames", "exited"}
  /\ root \in [Poller -> {"off", "list", "idle", "run", "wait", "done"}]
  /\ listed \in [Poller -> SUBSET OLT]
  /\ at \in [Poller -> [OLT -> Places]]
  /\ open \in [Poller -> [OLT -> BOOLEAN]]
  /\ queued \in [Poller -> [OLT -> 0 .. MaxPon]]
  /\ busy \in [Poller -> [OLT -> 0 .. Width]]
  /\ \A k \in Poller, o \in OLT :
       /\ at[k][o] # "off" <=> o \in listed[k]
       /\ open[k][o] <=> at[k][o] \in {"discover", "walk"}

\* main starts the pollers that the file enables.
Init ==
  /\ main = "serve"
  /\ root \in [Poller -> {"off", "list"}]
  /\ listed = [k \in Poller |-> {}]
  /\ at = [k \in Poller |-> [o \in OLT |-> "off"]]
  /\ open = [k \in Poller |-> [o \in OLT |-> FALSE]]
  /\ queued = [k \in Poller |-> [o \in OLT |-> 0]]
  /\ busy = queued

Cancelled == main # "serve"

-----------------------------------------------------------------------------
First(k) == IF k = Names THEN "sleep" ELSE "poll"

Root(k, place) ==
  /\ root' = [root EXCEPT ![k] = place]
  /\ UNCHANGED <<main, open, queued, busy>>

\* Start: the OLTs are listed on the new goroutine, when it gets to run.
ListOLTs(k) ==
  /\ root[k] = "list"
  /\ \E olts \in SUBSET OLT :
       /\ Root(k, IF olts = {} THEN "idle" ELSE "run")
       /\ listed' = [listed EXCEPT ![k] = olts]
       /\ at' = [at EXCEPT ![k] = [o \in OLT |-> IF o \in olts THEN First(k) ELSE "off"]]

\* mutant: the poller is done as soon as the context is
NoWait(k) == TRUE

\* wg.Wait()
AllEnded(k) == \A o \in listed[k] : at[k][o] = "ended"

\* mutant: a poller without OLTs returns at once and closes nothing
IdleForgets == "idle"

\* defer close(p.done)
IdleCloses == "done"

CtxDone(k) ==
  /\ Cancelled
  /\ \/ root[k] = "idle" /\ Root(k, IdleCloses)
     \/ root[k] = "run"  /\ Root(k, "wait")
     \/ root[k] = "wait" /\ AllEnded(k) /\ Root(k, "done")
  /\ UNCHANGED <<listed, at>>

-----------------------------------------------------------------------------
Goto(k, o, place) ==
  /\ at' = [at EXCEPT ![k][o] = place]
  /\ UNCHANGED <<main, root, listed>>

\* The names poller's first sleep ends.
Wake(k, o) ==
  /\ at[k][o] = "sleep"
  /\ Goto(k, o, "poll")
  /\ UNCHANGED <<open, queued, busy>>

\* mutant: a poll that fails ends the goroutine
GiveUp == "ended"

\* A poll that fails is logged.
AfterError == "select"

\* pollOLT: the OLT is registered, its client connects.
GetNewClient(k, o) ==
  /\ at[k][o] = "poll"
  /\ Goto(k, o, "discover")
  /\ open' = [open EXCEPT ![k][o] = TRUE]
  /\ UNCHANGED <<queued, busy>>

\* It is not registered (any more), or Connect fails.
NoClient(k, o) ==
  /\ at[k][o] = "poll"
  /\ Goto(k, o, AfterError)
  /\ UNCHANGED <<open, queued, busy>>

\* mutant: Close is deferred after the discovery only
LeavesOpen(k, o) == open

\* Close is deferred as soon as the client is connected.
Closed(k, o) == [open EXCEPT ![k][o] = FALSE]

\* discoverPONs: a goroutine for each PON; if it fails or finds none, the
\* deferred Close is next.
DiscoverPONs(k, o) ==
  /\ at[k][o] = "discover"
  /\ \/ \E n \in 1 .. MaxPon :
          /\ queued' = [queued EXCEPT ![k][o] = n]
          /\ Goto(k, o, "walk")
          /\ UNCHANGED open
     \/ /\ Goto(k, o, "select")
        /\ open' = Closed(k, o)
        /\ UNCHANGED queued
  /\ UNCHANGED busy

\* sem <- struct{}{}, and pollPON begins.
BeginPON(k, o) ==
  /\ queued[k][o] > 0
  /\ busy[k][o] < Width
  /\ queued' = [queued EXCEPT ![k][o] = @ - 1]
  /\ busy' = [busy EXCEPT ![k][o] = @ + 1]
  /\ UNCHANGED <<main, root, listed, at, open>>

\* pollPON returns, with an error or without.
EndPON(k, o) ==
  /\ busy[k][o] > 0
  /\ busy' = [busy EXCEPT ![k][o] = @ - 1]
  /\ UNCHANGED <<main, root, listed, at, open, queued>>

\* mutant: pollOLT does not wait for its PONs
NoWaitPON(k, o) == TRUE

\* wg.Wait()
PONsDone(k, o) == queued[k][o] = 0 /\ busy[k][o] = 0

\* pollOLT returns, and client.Close() was deferred.
Close(k, o) ==
  /\ at[k][o] = "walk"
  /\ PONsDone(k, o)
  /\ open' = [open EXCEPT ![k][o] = FALSE]
  /\ Goto(k, o, "select")
  /\ UNCHANGED <<queued, busy>>

\* The select takes any of its cases that are ready.
Tick(k, o) ==
  /\ at[k][o] = "select"
  /\ Goto(k, o, "poll")
  /\ UNCHANGED <<open, queued, busy>>

Return(k, o) ==
  /\ at[k][o] = "select"
  /\ Cancelled
  /\ Goto(k, o, "ended")
  /\ UNCHANGED <<open, queued, busy>>

-----------------------------------------------------------------------------
Main(place) ==
  /\ main' = place
  /\ UNCHANGED <<root, listed, poll>>

\* cancel(), and the first Stop.
Signal == main = "serve" /\ Main("stopOptical")

\* <-p.done; a poller that was not started is not waited for.
Stopped(k) == root[k] \in {"off", "done"}

Stop ==
  \/ main = "stopOptical" /\ Stopped(Optical) /\ Main("stopNames")
  \/ main = "stopNames"   /\ Stopped(Names)   /\ Main("exited")

\* os.Exit(0).
Exited == main = "exited" /\ UNCHANGED vars

-----------------------------------------------------------------------------
PollerStep(k, o) ==
  \/ Wake(k, o)
  \/ GetNewClient(k, o) \/ NoClient(k, o) \/ DiscoverPONs(k, o)
  \/ BeginPON(k, o) \/ EndPON(k, o)
  \/ Close(k, o)
  \/ Tick(k, o) \/ Return(k, o)

Next ==
  \/ \E k \in Poller : ListOLTs(k) \/ CtxDone(k) \/ \E o \in OLT : PollerStep(k, o)
  \/ Signal \/ Stop \/ Exited

Spec == Init /\ [][Next]_vars

\* Goroutines run, sleeps and walks end, tickers tick, and a select with two
\* cases ready takes each of them some time: it chooses at random.
FairSpec ==
  /\ Spec
  /\ \A k \in Poller :
       /\ WF_vars(ListOLTs(k)) /\ WF_vars(CtxDone(k))
       /\ \A o \in OLT : WF_vars(PollerStep(k, o)) /\ SF_vars(Return(k, o))
  /\ WF_vars(Stop)

-----------------------------------------------------------------------------
\* Stop returns when nothing of the poller runs any more: no goroutine of an
\* OLT, no walk of a PON, no open connection.
QuietAfterStop ==
  \A k \in Poller : root[k] = "done" =>
    \A o \in OLT : /\ at[k][o] \in {"off", "ended"}
                   /\ queued[k][o] = 0 /\ busy[k][o] = 0
                   /\ ~open[k][o]

\* No PON is walked on a client that is closed, or on that of a later poll.
ClientOutlivesWalks ==
  \A k \in Poller, o \in OLT : queued[k][o] # 0 \/ busy[k][o] # 0 => at[k][o] = "walk"

\* A poller that has listed no OLTs yet, or found none, has no goroutines.
RootOK ==
  \A k \in Poller : root[k] \in {"off", "list", "idle"} => listed[k] = {}

\* The inductive invariant: types, which goroutine has its client connected,
\* and the two safety properties above.
IInv == TypeOK /\ RootOK /\ ClientOutlivesWalks /\ QuietAfterStop

\* After the signal the process exits, whatever polls are under way.
ShutdownEnds == Cancelled ~> main = "exited"

\* An OLT that a poller listed at its start is polled again and again until
\* the signal: no failed poll, no deletion or update ends it.
PolledForEver ==
  \A k \in Poller, o \in OLT : o \in listed[k] ~> (at[k][o] = "poll" \/ Cancelled)
=============================================================================
