----------------------------- MODULE OltManager -----------------------------
(***************************************************************************)
(* The registry of OLTs (internal/service/olt_manager.go) and the SNMP     *)
(* clients it hands out (internal/snmp/client.go), with every caller that  *)
(* locks: ONU list and detail requests, system info, the PON list request  *)
(* (which takes no operation lock), the indexer's WalkOLT, and the         *)
(* register, unregister and update handlers.                               *)
(*                                                                         *)
(* Three kinds of lock meet here: OLTManager.mu, one mutex per client, and *)
(* one channel of capacity 1 per OLT.  The channel is looked up under mu   *)
(* but waited for outside it, while UnregisterOLT deletes it from the map. *)
(*                                                                         *)
(* Clients and channels are garbage collected, so Client and Lock are sets *)
(* of addresses: an allocation takes one that nothing refers to.           *)
(***************************************************************************)
CONSTANTS
  OLT,      \* OLT identifiers
  Proc,     \* goroutines that call the manager
  Client,   \* addresses of *snmp.Client
  Lock,     \* addresses of the channels of opLocks
  None      \* nil, or no map entry

ASSUME NoneAssumption == None \notin OLT \cup Proc \cup Client \cup Lock

VARIABLES
  olts,      \* OLTManager.olts: the client of each registered OLT, or None
  opLocks,   \* OLTManager.opLocks: the channel of each OLT, or None
  chan,      \* chan[l]: the channel holds its one token
  mu,        \* the writer inside OLTManager.mu; readers' sections are atomic
  conn,      \* state of gosnmp's Conn in each client: nil, open or closed
  clientMu,  \* Client.mu: the goroutine inside it
  pc,        \* where each goroutine is
  tgt,       \* the OLT a call is about
  cl,        \* the client a request got from GetClient; None in WalkOLT
  lk         \* the channel AcquireSNMPLock looked up

vars == <<olts, opLocks, chan, mu, conn, clientMu, pc, tgt, cl, lk>>

-----------------------------------------------------------------------------
HoldsToken == {"locked", "wire", "adapter", "again", "wireRx", "private",
               "release"}
OnWire     == {"wire", "wireRx", "ponWire"}
HoldsMu    == {"dial", "closing", "closingUpd"}
PC         == {"idle", "lookup", "select", "ponWait", "reregister"}
                \cup HoldsToken \cup OnWire \cup HoldsMu

TypeOK ==
  /\ olts     \in [OLT -> Client \cup {None}]
  /\ opLocks  \in [OLT -> Lock \cup {None}]
  /\ chan     \in [Lock -> BOOLEAN]
  /\ mu       \in Proc \cup {None}
  /\ conn     \in [Client -> {"nil", "open", "closed"}]
  /\ clientMu \in [Client -> Proc \cup {None}]
  /\ pc       \in [Proc -> PC]
  /\ tgt      \in [Proc -> OLT \cup {None}]
  /\ cl       \in [Proc -> Client \cup {None}]
  /\ lk       \in [Proc -> Lock \cup {None}]

Init ==
  /\ olts     = [o \in OLT |-> None]
  /\ opLocks  = [o \in OLT |-> None]
  /\ chan     = [l \in Lock |-> FALSE]
  /\ mu       = None
  /\ conn     = [c \in Client |-> "nil"]
  /\ clientMu = [c \in Client |-> None]
  /\ pc       = [p \in Proc |-> "idle"]
  /\ tgt      = [p \in Proc |-> None]
  /\ cl       = [p \in Proc |-> None]
  /\ lk       = [p \in Proc |-> None]

Goto(p, s) == pc' = [pc EXCEPT ![p] = s]

\* The call returns: its local variables are dropped.
Return(p) ==
  /\ Goto(p, "idle")
  /\ tgt' = [tgt EXCEPT ![p] = None]
  /\ cl'  = [cl EXCEPT ![p] = None]
  /\ lk'  = [lk EXCEPT ![p] = None]

FreshLock ==
  {l \in Lock : (\A o \in OLT : opLocks[o] # l) /\ (\A p \in Proc : lk[p] # l)}

FreshClient ==
  {c \in Client : (\A o \in OLT : olts[o] # c) /\ (\A p \in Proc : cl[p] # c)}

-----------------------------------------------------------------------------
(* Requests: GetClient, AcquireSNMPLock, exchanges, GetAdapter, release.   *)

\* GetClient of a request: next is "lookup", or "ponWait" for GetPONList.
\* An OLT that is not registered answers ErrOLTNotFound and changes nothing.
GetClient(p, o, next) ==
  /\ pc[p] = "idle"
  /\ mu = None
  /\ olts[o] # None
  /\ Goto(p, next)
  /\ tgt' = [tgt EXCEPT ![p] = o]
  /\ cl'  = [cl EXCEPT ![p] = olts[o]]
  /\ UNCHANGED <<olts, opLocks, chan, mu, conn, clientMu, lk>>

\* The indexer takes the operation lock first, for whatever OLT ListOLTs gave.
WalkOLT(p, o) ==
  /\ pc[p] = "idle"
  /\ Goto(p, "lookup")
  /\ tgt' = [tgt EXCEPT ![p] = o]
  /\ UNCHANGED <<olts, opLocks, chan, mu, conn, clientMu, cl, lk>>

\* First half of AcquireSNMPLock, under mu.
LookupLock(p) ==
  /\ pc[p] = "lookup"
  /\ mu = None
  /\ \/ /\ opLocks[tgt[p]] # None
        /\ lk' = [lk EXCEPT ![p] = opLocks[tgt[p]]]
        /\ UNCHANGED <<opLocks, chan>>
     \/ /\ opLocks[tgt[p]] = None
        /\ \E l \in FreshLock :
              /\ lk'      = [lk EXCEPT ![p] = l]
              /\ opLocks' = [opLocks EXCEPT ![tgt[p]] = l]
              /\ chan'    = [chan EXCEPT ![l] = FALSE]
  /\ Goto(p, "select")
  /\ UNCHANGED <<olts, mu, conn, clientMu, tgt, cl>>

\* mutant: the channel is given a second place
SendReadyAlways(l) == TRUE

SendReady(l) == ~chan[l]

\* Second half of AcquireSNMPLock, outside mu: the send goes through ...
SendToken(p) ==
  /\ pc[p] = "select"
  /\ SendReady(lk[p])
  /\ chan' = [chan EXCEPT ![lk[p]] = TRUE]
  /\ Goto(p, "locked")
  /\ UNCHANGED <<olts, opLocks, mu, conn, clientMu, tgt, cl, lk>>

\* ... or the request's context ends first (WalkOLT runs on the background
\* context, which does not).
CtxDone(p) ==
  /\ pc[p] = "select"
  /\ cl[p] # None
  /\ Return(p)
  /\ UNCHANGED <<olts, opLocks, chan, mu, conn, clientMu>>

\* Get, GetMultiple, Walk or BulkWalk enters Client.mu.  The list's first
\* exchange stands for its status, name and serial number walks.
BeginExchange(p) ==
  /\ cl[p] # None
  /\ clientMu[cl[p]] = None
  /\ clientMu' = [clientMu EXCEPT ![cl[p]] = p]
  /\ \/ pc[p] = "locked"  /\ Goto(p, "wire")
     \/ pc[p] = "again"   /\ Goto(p, "wireRx")
     \/ pc[p] = "ponWait" /\ Goto(p, "ponWire")
  /\ UNCHANGED <<olts, opLocks, chan, mu, conn, tgt, cl, lk>>

\* The exchange answers, times out or fails.  After the first one a list
\* request goes on to the adapter; a failed one, or system info, is done.
EndExchange(p) ==
  /\ pc[p] \in OnWire
  /\ clientMu' = [clientMu EXCEPT ![cl[p]] = None]
  /\ \/ /\ pc[p] = "wire"
        /\ Goto(p, "adapter") \/ Goto(p, "release")
        /\ UNCHANGED <<tgt, cl, lk>>
     \/ /\ pc[p] = "wireRx"
        /\ Goto(p, "release")
        /\ UNCHANGED <<tgt, cl, lk>>
     \/ /\ pc[p] = "ponWire"
        /\ Return(p)
  /\ UNCHANGED <<olts, opLocks, chan, mu, conn>>

\* GetAdapter: with the lock, but through mu again; a detail request calls it
\* first.  An OLT that is gone by now yields a nil adapter and no error.
GetAdapter(p) ==
  /\ \/ pc[p] = "adapter"
     \/ pc[p] = "locked" /\ cl[p] # None
  /\ mu = None
  /\ Goto(p, "again")
  /\ UNCHANGED <<olts, opLocks, chan, mu, conn, clientMu, tgt, cl, lk>>

\* GetNewClient of WalkOLT, which gives up if the OLT is not registered.
GetNewClient(p) ==
  /\ pc[p] = "locked"
  /\ cl[p] = None
  /\ mu = None
  /\ IF olts[tgt[p]] = None THEN Goto(p, "release") ELSE Goto(p, "private")
  /\ UNCHANGED <<olts, opLocks, chan, mu, conn, clientMu, tgt, cl, lk>>

\* Connect, three walks and Close on a client nobody else has.
WalkPrivate(p) ==
  /\ pc[p] = "private"
  /\ Goto(p, "release")
  /\ UNCHANGED <<olts, opLocks, chan, mu, conn, clientMu, tgt, cl, lk>>

\* mutant: the deferred release is forgotten on this path
TakeTokenForgotten(l) == chan

TakeToken(l) == [chan EXCEPT ![l] = FALSE]

\* The deferred release(): receive the token back.
Release(p) ==
  /\ pc[p] = "release"
  /\ chan[lk[p]]
  /\ chan' = TakeToken(lk[p])
  /\ Return(p)
  /\ UNCHANGED <<olts, opLocks, mu, conn, clientMu>>

-----------------------------------------------------------------------------
(* RegisterOLT, UnregisterOLT, UpdateOLT.                                  *)

\* mutant: RegisterOLT no longer refuses an OLT that exists
MayRegisterAlways(o) == TRUE

MayRegister(o) == olts[o] = None

\* ErrOLTAlreadyExists changes nothing; otherwise mu is kept while the client
\* connects and DetectFirmware asks the device.
RegisterOLT(p, o) ==
  /\ pc[p] = "idle"
  /\ mu = None
  /\ MayRegister(o)
  /\ mu' = p
  /\ Goto(p, "dial")
  /\ tgt' = [tgt EXCEPT ![p] = o]
  /\ UNCHANGED <<olts, opLocks, chan, conn, clientMu, cl, lk>>

\* A failed Connect leaves Conn nil and is only logged.
DialDone(p) ==
  /\ pc[p] = "dial"
  /\ \E c \in FreshClient, s \in {"nil", "open"} :
        /\ conn' = [conn EXCEPT ![c] = s]
        /\ olts' = [olts EXCEPT ![tgt[p]] = c]
  /\ mu' = None
  /\ Return(p)
  /\ UNCHANGED <<opLocks, chan, clientMu>>

UnregisterOLT(p, o) ==
  /\ pc[p] = "idle"
  /\ mu = None
  /\ olts[o] # None
  /\ mu' = p
  /\ Goto(p, "closing")
  /\ tgt' = [tgt EXCEPT ![p] = o]
  /\ UNCHANGED <<olts, opLocks, chan, conn, clientMu, cl, lk>>

\* UpdateOLT unregisters first, and goes on if there was nothing to remove.
UpdateOLT(p, o) ==
  /\ pc[p] = "idle"
  /\ mu = None
  /\ \/ olts[o] # None /\ mu' = p /\ Goto(p, "closingUpd")
     \/ olts[o] = None /\ UNCHANGED mu /\ Goto(p, "reregister")
  /\ tgt' = [tgt EXCEPT ![p] = o]
  /\ UNCHANGED <<olts, opLocks, chan, conn, clientMu, cl, lk>>

\* mutant: Client.Close does not take Client.mu
CloseReadyAlways(c) == TRUE

CloseReady(c) == clientMu[c] = None

\* mutant: delete(m.olts, oltID) is lost
DeleteOltLost(o) == olts

DeleteOlt(o) == [olts EXCEPT ![o] = None]

\* Rest of UnregisterOLT: Close the client, delete both map entries.
CloseAndDelete(p) ==
  /\ pc[p] \in {"closing", "closingUpd"}
  /\ CloseReady(olts[tgt[p]])
  /\ conn[olts[tgt[p]]] # "nil"
  /\ conn'    = [conn EXCEPT ![olts[tgt[p]]] = "closed"]
  /\ olts'    = DeleteOlt(tgt[p])
  /\ opLocks' = [opLocks EXCEPT ![tgt[p]] = None]
  /\ mu'      = None
  /\ \/ pc[p] = "closing" /\ Return(p)
     \/ pc[p] = "closingUpd" /\ Goto(p, "reregister") /\ UNCHANGED <<tgt, cl, lk>>
  /\ UNCHANGED <<chan, clientMu>>

\* mutant: mu.Unlock() is called at the end instead of deferred
MuLeftLocked == mu

MuUnlocked == None

\* Client.Close calls a method of a nil Conn: the goroutine panics, the
\* deferred unlocks run, and the router's Recoverer ends the request.
ClosePanics(p) ==
  /\ pc[p] \in {"closing", "closingUpd"}
  /\ CloseReady(olts[tgt[p]])
  /\ conn[olts[tgt[p]]] = "nil"
  /\ mu' = MuUnlocked
  /\ Return(p)
  /\ UNCHANGED <<olts, opLocks, chan, conn, clientMu>>

\* The RegisterOLT inside UpdateOLT: somebody may have registered it since.
Reregister(p) ==
  /\ pc[p] = "reregister"
  /\ mu = None
  /\ \/ /\ MayRegister(tgt[p])
        /\ mu' = p
        /\ Goto(p, "dial")
        /\ UNCHANGED <<tgt, cl, lk>>
     \/ /\ ~MayRegister(tgt[p])
        /\ UNCHANGED mu
        /\ Return(p)
  /\ UNCHANGED <<olts, opLocks, chan, conn, clientMu>>

-----------------------------------------------------------------------------
Call(p) ==
  \E o \in OLT :
    \/ \E next \in {"lookup", "ponWait"} : GetClient(p, o, next)
    \/ WalkOLT(p, o)
    \/ RegisterOLT(p, o)
    \/ UnregisterOLT(p, o)
    \/ UpdateOLT(p, o)

Step(p) ==
  \/ LookupLock(p)
  \/ SendToken(p)
  \/ CtxDone(p)
  \/ BeginExchange(p)
  \/ EndExchange(p)
  \/ GetAdapter(p)
  \/ GetNewClient(p)
  \/ WalkPrivate(p)
  \/ Release(p)
  \/ DialDone(p)
  \/ CloseAndDelete(p)
  \/ ClosePanics(p)
  \/ Reregister(p)

Next == \E p \in Proc : Call(p) \/ Step(p)

Spec == Init /\ [][Next]_vars

\* A goroutine inside a call gets on with it whenever it can again and again:
\* sync.Mutex and sync.RWMutex do not starve a waiter, senders blocked on a
\* channel are served in order, and an SNMP exchange ends by its timeout.
FairSpec == Spec /\ \A p \in Proc : SF_vars(Step(p))

-----------------------------------------------------------------------------
Holders(o) == {p \in Proc : pc[p] \in HoldsToken /\ tgt[p] = o}

\* A channel holds its token exactly while one goroutine is between its send
\* and its release: no token is lost, duplicated or taken back by another.
ChannelOwnership ==
  \A l \in Lock :
    /\ chan[l] => \E p \in Proc : pc[p] \in HoldsToken /\ lk[p] = l
    /\ \A p, q \in Proc :
         /\ pc[p] \in HoldsToken /\ pc[q] \in HoldsToken
         /\ lk[p] = l /\ lk[q] = l
         => chan[l] /\ p = q

\* Two operations on one OLT overlap only if UnregisterOLT retired the channel
\* of at least one of them while it held or waited for it.
OverlapOnlyAcrossRetire ==
  \A o \in OLT : \A p, q \in Holders(o) :
    p # q => \E r \in {p, q} : lk[r] # opLocks[o]

\* A channel that goroutines of one OLT use is not the channel of another OLT,
\* even after it was deleted from the map and its memory reused.
LocksNotShared ==
  /\ \A p \in Proc : lk[p] # None =>
       /\ \A o \in OLT : opLocks[o] = lk[p] => o = tgt[p]
       /\ \A q \in Proc : lk[q] = lk[p] => tgt[q] = tgt[p]
  /\ \A o1, o2 \in OLT : opLocks[o1] # None /\ opLocks[o1] = opLocks[o2] => o1 = o2

\* What olts holds can be used: a registered OLT's client was not closed, and
\* it is no other OLT's client.
RegisteredClientUsable ==
  \A o \in OLT : olts[o] # None =>
    /\ conn[olts[o]] # "closed"
    /\ \A o2 \in OLT : olts[o2] = olts[o] => o2 = o

\* A mutex is held exactly by the goroutine inside its critical section: every
\* way out, the panic of Close included, unlocks.
MutexDiscipline ==
  /\ \A p \in Proc : (pc[p] \in HoldsMu) <=> (mu = p)
  /\ \A p \in Proc : pc[p] \in OnWire => cl[p] # None /\ clientMu[cl[p]] = p
  /\ \A c \in Client : clientMu[c] # None =>
       pc[clientMu[c]] \in OnWire /\ cl[clientMu[c]] = c

\* What the local variables of a call are at each place.
LocalsOK ==
  \A p \in Proc :
    /\ pc[p] = "idle" <=> tgt[p] = None
    /\ lk[p] # None <=> pc[p] \in HoldsToken \cup {"select"}
    /\ pc[p] \in OnWire \cup {"adapter", "again", "ponWait"} => cl[p] # None
    /\ pc[p] \in HoldsMu \cup {"idle", "reregister", "private"} => cl[p] = None
    /\ pc[p] \in {"closing", "closingUpd"} => olts[tgt[p]] # None
    /\ pc[p] = "dial" => olts[tgt[p]] = None

\* The inductive invariant from which the safety properties are proved.
IInv ==
  /\ TypeOK
  /\ MutexDiscipline
  /\ LocalsOK
  /\ ChannelOwnership
  /\ LocksNotShared
  /\ RegisteredClientUsable

\* UnregisterOLT does not close a connection while a goroutine that got its
\* client before is inside an exchange on it.
NoCloseInFlight ==
  [][\A c \in Client : conn[c] = "open" /\ conn'[c] = "closed" =>
       \A p \in Proc : ~(pc[p] \in OnWire /\ cl[p] = c)]_vars

\* A registered OLT is never replaced in place: its client changes only by
\* being closed and removed first, so no open connection is dropped.
NoClientDropped ==
  [][\A o \in OLT : olts[o] # None /\ olts'[o] # olts[o] =>
       olts'[o] = None /\ conn'[olts[o]] = "closed"]_vars

\* The comment of UnregisterOLT, "removes an OLT": when the call that started
\* on a registered OLT is over, the OLT is not registered with that client.
UnregisterRemoves ==
  [][\A p \in Proc : pc[p] = "closing" /\ pc'[p] = "idle" => olts'[tgt[p]] = None]_vars

\* No caller waits for ever: not for mu held across a dial or a Close, not
\* for a client's mutex, not for an operation lock, retired or not.
EveryCallReturns == \A p \in Proc : pc[p] # "idle" ~> pc[p] = "idle"

\* The registry implements the gate of SnmpSerial: a goroutine is stale when
\* the channel it looked up is no longer the one in opLocks.
gatePhase == [p \in Proc |-> IF lk[p] = None THEN "out"
                             ELSE IF pc[p] = "select" THEN "waiting" ELSE "in"]
gateAt    == [p \in Proc |-> IF lk[p] = None THEN None ELSE tgt[p]]
gateStale == [p \in Proc |-> lk[p] # None /\ opLocks[tgt[p]] # lk[p]]

Gate == INSTANCE SnmpSerial WITH
  phase <- gatePhase, at <- gateAt, stale <- gateStale

\* AcquireSNMPLock and release() behave as SnmpSerial says.
ImplementsGate == Gate!Spec
=============================================================================
