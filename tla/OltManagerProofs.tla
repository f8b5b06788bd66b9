-------------------------- MODULE OltManagerProofs --------------------------
(***************************************************************************)
(* Theorems about OltManager, for any sets of OLTs, goroutines, clients    *)
(* and channels.  IInv is inductive; the safety properties follow from it. *)
(***************************************************************************)
EXTENDS OltManager, TLAPS

\* Init establishes the inductive invariant: no OLT, no channel, all idle.
LEMMA InitIInv == Init => IInv
<1> USE NoneAssumption DEF HoldsToken, OnWire, HoldsMu, PC
<1> SUFFICES ASSUME Init PROVE IInv
  OBVIOUS
<1>1. TypeOK                  BY DEF Init, TypeOK
<1>2. MutexDiscipline         BY DEF Init, MutexDiscipline
<1>3. LocalsOK                BY DEF Init, LocalsOK
<1>4. ChannelOwnership        BY DEF Init, ChannelOwnership
<1>5. LocksNotShared          BY DEF Init, LocksNotShared
<1>6. RegisteredClientUsable  BY DEF Init, RegisteredClientUsable
<1> QED
  BY <1>1, <1>2, <1>3, <1>4, <1>5, <1>6 DEF IInv

\* A step that changes nothing keeps it.
LEMMA StutterIInv == IInv /\ UNCHANGED vars => IInv'
  BY DEF IInv, vars, TypeOK, MutexDiscipline, LocalsOK, ChannelOwnership,
         LocksNotShared, RegisteredClientUsable

\* Every action keeps it: one step per action, one leaf per conjunct whose
\* variables the action changes, one for the other conjuncts together.
LEMMA NextIInv == IInv /\ Next => IInv'
<1> USE NoneAssumption DEF HoldsToken, OnWire, HoldsMu, PC
<1> SUFFICES ASSUME IInv, Next PROVE IInv'
  OBVIOUS
<1> PICK p \in Proc : Call(p) \/ Step(p)
  BY DEF Next
<1>1. ASSUME NEW o \in OLT, NEW next \in {"lookup", "ponWait"}, GetClient(p, o, next)
      PROVE  IInv'
  <2>1. TypeOK'  BY <1>1 DEF IInv, TypeOK, GetClient, Goto
  <2>2. MutexDiscipline'
    BY <1>1 DEF IInv, TypeOK, MutexDiscipline, LocalsOK, GetClient, Goto
  <2>3. LocalsOK'
    BY <1>1 DEF IInv, TypeOK, MutexDiscipline, LocalsOK, GetClient, Goto
  <2>4. ChannelOwnership'
    BY <1>1 DEF IInv, TypeOK, LocalsOK, ChannelOwnership, GetClient, Goto
  <2>5. LocksNotShared'
    BY <1>1 DEF IInv, TypeOK, LocalsOK, LocksNotShared, GetClient, Goto
  <2>7. RegisteredClientUsable'
    BY <1>1 DEF IInv, GetClient, RegisteredClientUsable
  <2> QED  BY <2>1, <2>2, <2>3, <2>4, <2>5, <2>7 DEF IInv
<1>2. ASSUME NEW o \in OLT, WalkOLT(p, o) PROVE IInv'
  <2>1. TypeOK'  BY <1>2 DEF IInv, TypeOK, WalkOLT, Goto
  <2>2. MutexDiscipline'
    BY <1>2 DEF IInv, TypeOK, MutexDiscipline, LocalsOK, WalkOLT, Goto
  <2>3. LocalsOK'
    BY <1>2 DEF IInv, TypeOK, MutexDiscipline, LocalsOK, WalkOLT, Goto
  <2>4. ChannelOwnership'
    BY <1>2 DEF IInv, TypeOK, LocalsOK, ChannelOwnership, WalkOLT, Goto
  <2>5. LocksNotShared'
    BY <1>2 DEF IInv, TypeOK, LocalsOK, LocksNotShared, WalkOLT, Goto
  <2>7. RegisteredClientUsable'
    BY <1>2 DEF IInv, WalkOLT, RegisteredClientUsable
  <2> QED  BY <2>1, <2>2, <2>3, <2>4, <2>5, <2>7 DEF IInv
<1>3. ASSUME NEW o \in OLT, RegisterOLT(p, o) PROVE IInv'
  <2>1. TypeOK'  BY <1>3 DEF IInv, TypeOK, RegisterOLT, Goto, MayRegister
  <2>2. MutexDiscipline'
    BY <1>3 DEF IInv, TypeOK, MutexDiscipline, LocalsOK, RegisterOLT, Goto,
       MayRegister
  <2>3. LocalsOK'
    BY <1>3 DEF IInv, TypeOK, MutexDiscipline, LocalsOK, RegisterOLT, Goto,
       MayRegister
  <2>4. ChannelOwnership'
    BY <1>3 DEF IInv, TypeOK, LocalsOK, ChannelOwnership, RegisterOLT, Goto,
       MayRegister
  <2>5. LocksNotShared'
    BY <1>3 DEF IInv, TypeOK, LocalsOK, LocksNotShared, RegisterOLT, Goto,
       MayRegister
  <2>7. RegisteredClientUsable'
    BY <1>3 DEF IInv, RegisterOLT, RegisteredClientUsable
  <2> QED  BY <2>1, <2>2, <2>3, <2>4, <2>5, <2>7 DEF IInv
<1>4. ASSUME NEW o \in OLT, UnregisterOLT(p, o) PROVE IInv'
  <2>1. TypeOK'  BY <1>4 DEF IInv, TypeOK, UnregisterOLT, Goto
  <2>2. MutexDiscipline'
    BY <1>4 DEF IInv, TypeOK, MutexDiscipline, LocalsOK, UnregisterOLT, Goto
  <2>3. LocalsOK'
    BY <1>4 DEF IInv, TypeOK, MutexDiscipline, LocalsOK, UnregisterOLT, Goto
  <2>4. ChannelOwnership'
    BY <1>4 DEF IInv, TypeOK, LocalsOK, ChannelOwnership, UnregisterOLT, Goto
  <2>5. LocksNotShared'
    BY <1>4 DEF IInv, TypeOK, LocalsOK, LocksNotShared, UnregisterOLT, Goto
  <2>7. RegisteredClientUsable'
    BY <1>4 DEF IInv, UnregisterOLT, RegisteredClientUsable
  <2> QED  BY <2>1, <2>2, <2>3, <2>4, <2>5, <2>7 DEF IInv
<1>5. ASSUME NEW o \in OLT, UpdateOLT(p, o) PROVE IInv'
  <2>1. TypeOK'  BY <1>5 DEF IInv, TypeOK, UpdateOLT, Goto
  <2>2. MutexDiscipline'
    BY <1>5 DEF IInv, TypeOK, MutexDiscipline, LocalsOK, UpdateOLT, Goto
  <2>3. LocalsOK'
    BY <1>5 DEF IInv, TypeOK, MutexDiscipline, LocalsOK, UpdateOLT, Goto
  <2>4. ChannelOwnership'
    BY <1>5 DEF IInv, TypeOK, LocalsOK, ChannelOwnership, UpdateOLT, Goto
  <2>5. LocksNotShared'
    BY <1>5 DEF IInv, TypeOK, LocalsOK, LocksNotShared, UpdateOLT, Goto
  <2>7. RegisteredClientUsable'
    BY <1>5 DEF IInv, UpdateOLT, RegisteredClientUsable
  <2> QED  BY <2>1, <2>2, <2>3, <2>4, <2>5, <2>7 DEF IInv
<1>6. CASE LookupLock(p)
  <2>1. TypeOK'
    <3>1. CASE opLocks[tgt[p]] # None
      <4>1. opLocks[tgt[p]] \in Lock
        BY <1>6, <3>1 DEF IInv, TypeOK, LocalsOK, LookupLock
      <4>2. lk' = [lk EXCEPT ![p] = opLocks[tgt[p]]] /\ UNCHANGED <<opLocks, chan>>
        BY <1>6, <3>1 DEF LookupLock
      <4>3. pc' = [pc EXCEPT ![p] = "select"] /\ UNCHANGED <<olts, mu, conn, clientMu, tgt, cl>>
        BY <1>6 DEF LookupLock, Goto
      <4>4. chan' \in [Lock -> BOOLEAN]
        BY <4>2 DEF IInv, TypeOK
      <4> QED
        BY <4>1, <4>2, <4>3, <4>4 DEF IInv, TypeOK
    <3>2. CASE opLocks[tgt[p]] = None
      <4>1. PICK l \in FreshLock : /\ lk' = [lk EXCEPT ![p] = l]
                                  /\ opLocks' = [opLocks EXCEPT ![tgt[p]] = l]
                                  /\ chan' = [chan EXCEPT ![l] = FALSE]
        BY <1>6, <3>2 DEF LookupLock
      <4>2. l \in Lock
        BY DEF FreshLock
      <4>3. chan' \in [Lock -> BOOLEAN]
        BY <4>1, <4>2 DEF IInv, TypeOK
      <4> QED
        BY <1>6, <4>1, <4>2, <4>3 DEF IInv, TypeOK, LookupLock, Goto
    <3> QED
      BY <3>1, <3>2
  <2>2. MutexDiscipline'
    BY <1>6 DEF IInv, TypeOK, MutexDiscipline, LocalsOK, LookupLock, Goto,
       FreshLock
  <2>3. LocalsOK'
    BY <1>6 DEF IInv, TypeOK, MutexDiscipline, LocalsOK, LookupLock, Goto,
       FreshLock
  <2>4. ChannelOwnership'
    <3>1. CASE opLocks[tgt[p]] # None
      BY <1>6, <3>1 DEF IInv, TypeOK, LocalsOK, ChannelOwnership, LookupLock, Goto
    <3>2. CASE opLocks[tgt[p]] = None
      <4>1. PICK l \in FreshLock : /\ lk' = [lk EXCEPT ![p] = l]
                                  /\ chan' = [chan EXCEPT ![l] = FALSE]
        BY <1>6, <3>2 DEF LookupLock
      <4>2. pc[p] = "lookup" /\ pc' = [pc EXCEPT ![p] = "select"]
        BY <1>6 DEF LookupLock, Goto
      <4>3. \A q \in Proc : pc'[q] \in HoldsToken =>
               q # p /\ pc[q] \in HoldsToken /\ lk'[q] = lk[q] /\ lk[q] # l
        BY <4>1, <4>2 DEF IInv, TypeOK, FreshLock
      <4>4. \A m \in Lock : chan'[m] => m # l /\ chan[m]
        BY <4>1 DEF IInv, TypeOK, FreshLock
      <4>5. \A m \in Lock : m # l => chan'[m] = chan[m]
        BY <4>1 DEF IInv, TypeOK, FreshLock
      <4>6. \A q \in Proc : pc[q] \in HoldsToken =>
               pc'[q] \in HoldsToken /\ lk'[q] = lk[q]
        BY <4>1, <4>2 DEF IInv, TypeOK
      <4> HIDE DEF HoldsToken
      <4> QED
        BY <4>3, <4>4, <4>5, <4>6 DEF IInv, ChannelOwnership
    <3> QED
      BY <3>1, <3>2
  <2>5. LocksNotShared'
    BY <1>6 DEF IInv, TypeOK, LocalsOK, LocksNotShared, LookupLock, Goto,
       FreshLock
  <2>7. RegisteredClientUsable'
    BY <1>6 DEF IInv, LookupLock, RegisteredClientUsable
  <2> QED  BY <2>1, <2>2, <2>3, <2>4, <2>5, <2>7 DEF IInv
<1>7. CASE SendToken(p)
  <2>1. TypeOK'  BY <1>7 DEF IInv, TypeOK, SendToken, Goto, SendReady
  <2>2. MutexDiscipline'
    BY <1>7 DEF IInv, TypeOK, MutexDiscipline, LocalsOK, SendToken, Goto,
       SendReady
  <2>3. LocalsOK'
    BY <1>7 DEF IInv, TypeOK, MutexDiscipline, LocalsOK, SendToken, Goto,
       SendReady
  <2>4. ChannelOwnership'
    BY <1>7 DEF IInv, TypeOK, LocalsOK, ChannelOwnership, SendToken, Goto,
       SendReady
  <2>7. LocksNotShared' /\ RegisteredClientUsable'
    BY <1>7 DEF IInv, SendToken, LocksNotShared, RegisteredClientUsable
  <2> QED  BY <2>1, <2>2, <2>3, <2>4, <2>7 DEF IInv
<1>8. CASE CtxDone(p)
  <2>1. TypeOK'  BY <1>8 DEF IInv, TypeOK, CtxDone, Goto, Return
  <2>2. MutexDiscipline'
    BY <1>8 DEF IInv, TypeOK, MutexDiscipline, LocalsOK, CtxDone, Goto,
       Return
  <2>3. LocalsOK'
    BY <1>8 DEF IInv, TypeOK, MutexDiscipline, LocalsOK, CtxDone, Goto,
       Return
  <2>4. ChannelOwnership'
    BY <1>8 DEF IInv, TypeOK, LocalsOK, ChannelOwnership, CtxDone, Goto,
       Return
  <2>5. LocksNotShared'
    BY <1>8 DEF IInv, TypeOK, LocalsOK, LocksNotShared, CtxDone, Goto, Return
  <2>7. RegisteredClientUsable'
    BY <1>8 DEF IInv, CtxDone, RegisteredClientUsable
  <2> QED  BY <2>1, <2>2, <2>3, <2>4, <2>5, <2>7 DEF IInv
<1>9. CASE BeginExchange(p)
  <2>1. TypeOK'  BY <1>9 DEF IInv, TypeOK, BeginExchange, Goto
  <2>2. MutexDiscipline'
    BY <1>9 DEF IInv, TypeOK, MutexDiscipline, LocalsOK, BeginExchange, Goto
  <2>3. LocalsOK'
    BY <1>9 DEF IInv, TypeOK, MutexDiscipline, LocalsOK, BeginExchange, Goto
  <2>4. ChannelOwnership'
    BY <1>9 DEF IInv, TypeOK, LocalsOK, ChannelOwnership, BeginExchange, Goto
  <2>7. LocksNotShared' /\ RegisteredClientUsable'
    BY <1>9 DEF IInv, BeginExchange, LocksNotShared, RegisteredClientUsable
  <2> QED  BY <2>1, <2>2, <2>3, <2>4, <2>7 DEF IInv
<1>10. CASE EndExchange(p)
  <2>1. TypeOK'  BY <1>10 DEF IInv, TypeOK, EndExchange, Goto, Return
  <2>2. MutexDiscipline'
    BY <1>10 DEF IInv, TypeOK, MutexDiscipline, LocalsOK, EndExchange, Goto,
       Return
  <2>3. LocalsOK'
    BY <1>10 DEF IInv, TypeOK, MutexDiscipline, LocalsOK, EndExchange, Goto,
       Return
  <2>4. ChannelOwnership'
    BY <1>10 DEF IInv, TypeOK, LocalsOK, ChannelOwnership, EndExchange, Goto,
       Return
  <2>5. LocksNotShared'
    BY <1>10 DEF IInv, TypeOK, LocalsOK, LocksNotShared, EndExchange, Goto,
       Return
  <2>7. RegisteredClientUsable'
    BY <1>10 DEF IInv, EndExchange, RegisteredClientUsable
  <2> QED  BY <2>1, <2>2, <2>3, <2>4, <2>5, <2>7 DEF IInv
<1>11. CASE GetAdapter(p)
  <2>1. TypeOK'  BY <1>11 DEF IInv, TypeOK, GetAdapter, Goto
  <2>2. MutexDiscipline'
    BY <1>11 DEF IInv, TypeOK, MutexDiscipline, LocalsOK, GetAdapter, Goto
  <2>3. LocalsOK'
    BY <1>11 DEF IInv, TypeOK, MutexDiscipline, LocalsOK, GetAdapter, Goto
  <2>4. ChannelOwnership'
    BY <1>11 DEF IInv, TypeOK, LocalsOK, ChannelOwnership, GetAdapter, Goto
  <2>7. LocksNotShared' /\ RegisteredClientUsable'
    BY <1>11 DEF IInv, GetAdapter, LocksNotShared, RegisteredClientUsable
  <2> QED  BY <2>1, <2>2, <2>3, <2>4, <2>7 DEF IInv
<1>12. CASE GetNewClient(p)
  <2>1. TypeOK'  BY <1>12 DEF IInv, TypeOK, GetNewClient, Goto
  <2>2. MutexDiscipline'
    BY <1>12 DEF IInv, TypeOK, MutexDiscipline, LocalsOK, GetNewClient, Goto
  <2>3. LocalsOK'
    BY <1>12 DEF IInv, TypeOK, MutexDiscipline, LocalsOK, GetNewClient, Goto
  <2>4. ChannelOwnership'
    BY <1>12 DEF IInv, TypeOK, LocalsOK, ChannelOwnership, GetNewClient, Goto
  <2>7. LocksNotShared' /\ RegisteredClientUsable'
    BY <1>12 DEF IInv, GetNewClient, LocksNotShared, RegisteredClientUsable
  <2> QED  BY <2>1, <2>2, <2>3, <2>4, <2>7 DEF IInv
<1>13. CASE WalkPrivate(p)
  <2>1. TypeOK'  BY <1>13 DEF IInv, TypeOK, WalkPrivate, Goto
  <2>2. MutexDiscipline'
    BY <1>13 DEF IInv, TypeOK, MutexDiscipline, LocalsOK, WalkPrivate, Goto
  <2>3. LocalsOK'
    BY <1>13 DEF IInv, TypeOK, MutexDiscipline, LocalsOK, WalkPrivate, Goto
  <2>4. ChannelOwnership'
    BY <1>13 DEF IInv, TypeOK, LocalsOK, ChannelOwnership, WalkPrivate, Goto
  <2>7. LocksNotShared' /\ RegisteredClientUsable'
    BY <1>13 DEF IInv, WalkPrivate, LocksNotShared, RegisteredClientUsable
  <2> QED  BY <2>1, <2>2, <2>3, <2>4, <2>7 DEF IInv
<1>14. CASE Release(p)
  <2>1. TypeOK'  BY <1>14 DEF IInv, TypeOK, Release, Goto, Return, TakeToken
  <2>2. MutexDiscipline'
    BY <1>14 DEF IInv, TypeOK, MutexDiscipline, LocalsOK, Release, Goto,
       Return, TakeToken
  <2>3. LocalsOK'
    BY <1>14 DEF IInv, TypeOK, MutexDiscipline, LocalsOK, Release, Goto,
       Return, TakeToken
  <2>4. ChannelOwnership'
    BY <1>14 DEF IInv, TypeOK, LocalsOK, ChannelOwnership, Release, Goto,
       Return, TakeToken
  <2>5. LocksNotShared'
    BY <1>14 DEF IInv, TypeOK, LocalsOK, LocksNotShared, Release, Goto,
       Return, TakeToken
  <2>7. RegisteredClientUsable'
    BY <1>14 DEF IInv, Release, RegisteredClientUsable
  <2> QED  BY <2>1, <2>2, <2>3, <2>4, <2>5, <2>7 DEF IInv
<1>15. CASE DialDone(p)
  <2>1. TypeOK'
    <3>1. PICK c \in FreshClient, s \in {"nil", "open"} :
             /\ conn' = [conn EXCEPT ![c] = s]
             /\ olts' = [olts EXCEPT ![tgt[p]] = c]
      BY <1>15 DEF DialDone
    <3>2. c \in Client
      BY DEF FreshClient
    <3> QED
      BY <1>15, <3>1, <3>2 DEF IInv, TypeOK, DialDone, Goto, Return
  <2>2. MutexDiscipline'
    BY <1>15 DEF IInv, TypeOK, MutexDiscipline, LocalsOK, DialDone, Goto,
       Return, FreshClient
  <2>3. LocalsOK'
    BY <1>15 DEF IInv, TypeOK, MutexDiscipline, LocalsOK, DialDone, Goto,
       Return, FreshClient
  <2>4. ChannelOwnership'
    BY <1>15 DEF IInv, TypeOK, LocalsOK, ChannelOwnership, DialDone, Goto,
       Return, FreshClient
  <2>5. LocksNotShared'
    BY <1>15 DEF IInv, TypeOK, LocalsOK, LocksNotShared, DialDone, Goto,
       Return, FreshClient
  <2>6. RegisteredClientUsable'
    BY <1>15 DEF IInv, TypeOK, MutexDiscipline, LocalsOK,
       RegisteredClientUsable, DialDone, Goto, Return, FreshClient
  <2> QED  BY <2>1, <2>2, <2>3, <2>4, <2>5, <2>6 DEF IInv
<1>16. CASE CloseAndDelete(p)
  <2>1. TypeOK'
    BY <1>16 DEF IInv, TypeOK, CloseAndDelete, Goto, Return, CloseReady,
       DeleteOlt
  <2>2. MutexDiscipline'
    BY <1>16 DEF IInv, TypeOK, MutexDiscipline, LocalsOK, CloseAndDelete,
       Goto, Return, CloseReady, DeleteOlt
  <2>3. LocalsOK'
    BY <1>16 DEF IInv, TypeOK, MutexDiscipline, LocalsOK, CloseAndDelete,
       Goto, Return, CloseReady, DeleteOlt
  <2>4. ChannelOwnership'
    <3>1. UNCHANGED chan /\ pc[p] \notin HoldsToken /\ lk[p] = None
      BY <1>16 DEF IInv, LocalsOK, CloseAndDelete
    <3>2. pc'[p] \notin HoldsToken
          /\ \A q \in Proc : q # p => pc'[q] = pc[q] /\ lk'[q] = lk[q]
      BY <1>16 DEF IInv, TypeOK, CloseAndDelete, Goto, Return
    <3> HIDE DEF HoldsToken
    <3> QED
      BY <3>1, <3>2 DEF IInv, ChannelOwnership
  <2>5. LocksNotShared'
    BY <1>16 DEF IInv, TypeOK, LocalsOK, LocksNotShared, CloseAndDelete,
       Goto, Return, CloseReady, DeleteOlt
  <2>6. RegisteredClientUsable'
    BY <1>16 DEF IInv, TypeOK, MutexDiscipline, LocalsOK,
       RegisteredClientUsable, CloseAndDelete, Goto, Return, CloseReady,
       DeleteOlt
  <2> QED  BY <2>1, <2>2, <2>3, <2>4, <2>5, <2>6 DEF IInv
<1>17. CASE ClosePanics(p)
  <2>1. TypeOK'
    BY <1>17 DEF IInv, TypeOK, ClosePanics, Goto, Return, CloseReady,
       MuUnlocked
  <2>2. MutexDiscipline'
    BY <1>17 DEF IInv, TypeOK, MutexDiscipline, LocalsOK, ClosePanics, Goto,
       Return, CloseReady, MuUnlocked
  <2>3. LocalsOK'
    BY <1>17 DEF IInv, TypeOK, MutexDiscipline, LocalsOK, ClosePanics, Goto,
       Return, CloseReady, MuUnlocked
  <2>4. ChannelOwnership'
    BY <1>17 DEF IInv, TypeOK, LocalsOK, ChannelOwnership, ClosePanics, Goto,
       Return, CloseReady, MuUnlocked
  <2>5. LocksNotShared'
    BY <1>17 DEF IInv, TypeOK, LocalsOK, LocksNotShared, ClosePanics, Goto,
       Return, CloseReady, MuUnlocked
  <2>7. RegisteredClientUsable'
    BY <1>17 DEF IInv, ClosePanics, RegisteredClientUsable
  <2> QED  BY <2>1, <2>2, <2>3, <2>4, <2>5, <2>7 DEF IInv
<1>18. CASE Reregister(p)
  <2>1. TypeOK'
    BY <1>18 DEF IInv, TypeOK, Reregister, Goto, Return, MayRegister
  <2>2. MutexDiscipline'
    BY <1>18 DEF IInv, TypeOK, MutexDiscipline, LocalsOK, Reregister, Goto,
       Return, MayRegister
  <2>3. LocalsOK'
    BY <1>18 DEF IInv, TypeOK, MutexDiscipline, LocalsOK, Reregister, Goto,
       Return, MayRegister
  <2>4. ChannelOwnership'
    BY <1>18 DEF IInv, TypeOK, LocalsOK, ChannelOwnership, Reregister, Goto,
       Return, MayRegister
  <2>5. LocksNotShared'
    BY <1>18 DEF IInv, TypeOK, LocalsOK, LocksNotShared, Reregister, Goto,
       Return, MayRegister
  <2>7. RegisteredClientUsable'
    BY <1>18 DEF IInv, Reregister, RegisteredClientUsable
  <2> QED  BY <2>1, <2>2, <2>3, <2>4, <2>5, <2>7 DEF IInv
<1> QED
  BY <1>1, <1>2, <1>3, <1>4, <1>5, <1>6, <1>7, <1>8, <1>9, <1>10, <1>11,
     <1>12, <1>13, <1>14, <1>15, <1>16, <1>17, <1>18 DEF Call, Step

\* IInv holds in every reachable state: types, mutexes held exactly inside
\* their critical sections, channels owned by one holder, clients usable.
THEOREM Invariance == Spec => []IInv
<1>1. IInv /\ [Next]_vars => IInv'
  BY NextIInv, StutterIInv
<1> QED
  BY InitIInv, <1>1, PTL DEF Spec

\* A channel of opLocks, or one deleted from it, has its token exactly while
\* one goroutine is between AcquireSNMPLock and release().
THEOREM ChannelOwnershipHolds == Spec => []ChannelOwnership
<1>1. IInv => ChannelOwnership
  BY DEF IInv
<1> QED
  BY Invariance, <1>1, PTL

\* No two OLTs, not even across an UnregisterOLT, share a channel.
THEOREM LocksNotSharedHolds == Spec => []LocksNotShared
<1>1. IInv => LocksNotShared
  BY DEF IInv
<1> QED
  BY Invariance, <1>1, PTL

\* A registered OLT has a client of its own that nobody closed.
THEOREM RegisteredClientUsableHolds == Spec => []RegisteredClientUsable
<1>1. IInv => RegisteredClientUsable
  BY DEF IInv
<1> QED
  BY Invariance, <1>1, PTL

\* The serialisation AcquireSNMPLock gives: two operations on an OLT overlap
\* only if UnregisterOLT deleted the channel of one of them meanwhile.
THEOREM OverlapOnlyAcrossRetireHolds == Spec => []OverlapOnlyAcrossRetire
<1>1. IInv => OverlapOnlyAcrossRetire
  <2> SUFFICES ASSUME IInv,
                      NEW o \in OLT, NEW p \in Holders(o), NEW q \in Holders(o),
                      p # q, \A r \in {p, q} : lk[r] = opLocks[o]
               PROVE  FALSE
    BY DEF OverlapOnlyAcrossRetire
  <2>1. p \in Proc /\ q \in Proc /\ pc[p] \in HoldsToken /\ pc[q] \in HoldsToken
    BY DEF Holders
  <2>2. lk[p] = lk[q] /\ lk[p] \in Lock
    BY <2>1 DEF IInv, TypeOK, LocalsOK
  <2> QED
    BY <2>1, <2>2 DEF IInv, ChannelOwnership
<1> QED
  BY Invariance, <1>1, PTL

\* UnregisterOLT waits, in Client.Close, for the exchange another goroutine
\* has started on the client it got before.
THEOREM NoCloseInFlightHolds == Spec => NoCloseInFlight
<1> DEFINE Quiet == \A c \in Client : conn[c] = "open" /\ conn'[c] = "closed" =>
                      \A p \in Proc : ~(pc[p] \in OnWire /\ cl[p] = c)
<1>1. IInv /\ [Next]_vars => Quiet
  <2> SUFFICES ASSUME IInv, [Next]_vars,
                      NEW c \in Client, conn[c] = "open", conn'[c] = "closed",
                      NEW q \in Proc, pc[q] \in OnWire, cl[q] = c
               PROVE  FALSE
    OBVIOUS
  <2>1. PICK p \in Proc : CloseAndDelete(p)
    <3>1. PICK p \in Proc : Call(p) \/ Step(p)
      BY DEF Next, vars
    <3>2. ~Call(p)
      BY DEF Call, GetClient, WalkOLT, RegisterOLT, UnregisterOLT, UpdateOLT
    <3>3. ~DialDone(p)
      BY DEF DialDone, IInv, TypeOK, FreshClient
    <3> QED
      BY <3>1, <3>2, <3>3
      DEF Step, LookupLock, SendToken, CtxDone, BeginExchange, EndExchange,
          GetAdapter, GetNewClient, WalkPrivate, Release, ClosePanics, Reregister
  <2>2. olts[tgt[p]] = c
    BY <2>1 DEF CloseAndDelete, IInv, TypeOK
  <2>3. clientMu[c] = None
    BY <2>1, <2>2 DEF CloseAndDelete, CloseReady
  <2>4. clientMu[c] = q
    BY DEF IInv, MutexDiscipline
  <2> QED
    BY <2>3, <2>4, NoneAssumption
<1> QED
  BY Invariance, <1>1, PTL DEF NoCloseInFlight, Spec

\* RegisterOLT, alone or inside UpdateOLT, never overwrites a registration.
THEOREM NoClientDroppedHolds == Spec => NoClientDropped
<1> DEFINE Kept == \A o \in OLT : olts[o] # None /\ olts'[o] # olts[o] =>
                      olts'[o] = None /\ conn'[olts[o]] = "closed"
<1>1. IInv /\ [Next]_vars => Kept
  <2> SUFFICES ASSUME IInv, Next,
                      NEW o \in OLT, olts[o] # None, olts'[o] # olts[o]
               PROVE  olts'[o] = None /\ conn'[olts[o]] = "closed"
    BY DEF vars
  <2>1. PICK p \in Proc : Call(p) \/ Step(p)
    BY DEF Next
  <2>2. ~Call(p)
    BY DEF Call, GetClient, WalkOLT, RegisterOLT, UnregisterOLT, UpdateOLT
  <2>3. ~DialDone(p)
    BY DEF DialDone, IInv, TypeOK, LocalsOK
  <2>4. CloseAndDelete(p)
    BY <2>1, <2>2, <2>3
    DEF Step, LookupLock, SendToken, CtxDone, BeginExchange, EndExchange,
        GetAdapter, GetNewClient, WalkPrivate, Release, ClosePanics, Reregister
  <2>5. o = tgt[p] /\ olts[o] \in Client
    BY <2>4 DEF CloseAndDelete, DeleteOlt, IInv, TypeOK
  <2> QED
    BY <2>4, <2>5 DEF CloseAndDelete, DeleteOlt, IInv, TypeOK
<1> QED
  BY Invariance, <1>1, PTL DEF NoClientDropped, Spec

\* The registry's initial state is the gate's: nobody has a channel, so
\* everybody is out.
LEMMA GateInit == Init => Gate!Init
  BY DEF Init, Gate!Init, gatePhase, gateAt, gateStale

\* Actions that touch neither lk nor opLocks nor the way in: the gate stutters.
LEMMA GateStutter ==
  ASSUME IInv, UNCHANGED <<lk, opLocks>>,
         \A p \in Proc : lk[p] # None =>
           /\ tgt'[p] = tgt[p]
           /\ (pc'[p] = "select") <=> (pc[p] = "select")
  PROVE  UNCHANGED Gate!vars
<1>1. gatePhase' = gatePhase
  BY DEF gatePhase
<1>2. gateAt' = gateAt
  BY DEF gateAt
<1>3. gateStale' = gateStale
  <2>1. \A p \in Proc : gateStale'[p] = gateStale[p]
    BY DEF gateStale
  <2> QED
    BY <2>1 DEF gateStale
<1> QED
  BY <1>1, <1>2, <1>3 DEF Gate!vars

\* A goroutine that drops its channel leaves the gate; nobody else moves.
LEMMA GateLeave ==
  ASSUME IInv, NEW p \in Proc, Return(p), lk[p] # None, UNCHANGED opLocks
  PROVE  Gate!Leave(p)
<1>1. gatePhase[p] # "out"
  BY DEF gatePhase
<1>2. gatePhase' = [gatePhase EXCEPT ![p] = "out"]
  BY DEF gatePhase, Return, Goto, IInv, TypeOK
<1>3. gateAt' = [gateAt EXCEPT ![p] = None]
  BY DEF gateAt, Return, Goto, IInv, TypeOK
<1>4. gateStale' = [gateStale EXCEPT ![p] = FALSE]
  <2>1. \A q \in Proc : gateStale'[q] = IF q = p THEN FALSE ELSE gateStale[q]
    BY DEF gateStale, Return, Goto, IInv, TypeOK
  <2> QED
    BY <2>1 DEF gateStale
<1> QED
  BY <1>1, <1>2, <1>3, <1>4 DEF Gate!Leave

\* Looking the channel up is arriving at the gate.
LEMMA GateArrive ==
  ASSUME IInv, NEW p \in Proc, LookupLock(p)
  PROVE  Gate!Arrive(p, tgt[p])
<1> USE NoneAssumption DEF HoldsToken
<1>1. pc[p] = "lookup" /\ lk[p] = None /\ tgt[p] \in OLT
  BY DEF LookupLock, IInv, TypeOK, LocalsOK
<1>2. /\ lk' = [lk EXCEPT ![p] = opLocks'[tgt[p]]]
      /\ opLocks'[tgt[p]] \in Lock
      /\ \A q \in Proc : lk[q] # None =>
           (opLocks'[tgt[q]] = lk[q]) <=> (opLocks[tgt[q]] = lk[q])
  BY <1>1 DEF LookupLock, FreshLock, IInv, TypeOK, LocalsOK
<1>3. pc' = [pc EXCEPT ![p] = "select"] /\ UNCHANGED tgt
  BY DEF LookupLock, Goto
<1>4. gatePhase[p] = "out" /\ gatePhase' = [gatePhase EXCEPT ![p] = "waiting"]
  BY <1>1, <1>2, <1>3 DEF gatePhase, IInv, TypeOK
<1>5. gateAt' = [gateAt EXCEPT ![p] = tgt[p]]
  BY <1>1, <1>2, <1>3 DEF gateAt, IInv, TypeOK
<1>6. gateStale' = gateStale
  <2>1. \A q \in Proc : gateStale'[q] = gateStale[q]
    BY <1>1, <1>2, <1>3 DEF gateStale, IInv, TypeOK
  <2> QED
    BY <2>1 DEF gateStale
<1> QED
  BY <1>4, <1>5, <1>6 DEF Gate!Arrive

\* The send that goes through is the admission: had a goroutine that is not
\* stale been inside, it would own the same channel, and the channel be full.
LEMMA GateAdmit ==
  ASSUME IInv, NEW p \in Proc, SendToken(p)
  PROVE  Gate!Admit(p)
<1> USE NoneAssumption DEF HoldsToken
<1>1. /\ pc[p] = "select" /\ lk[p] \in Lock /\ ~chan[lk[p]]
      /\ pc' = [pc EXCEPT ![p] = "locked"]
      /\ UNCHANGED <<opLocks, tgt, lk>>
  BY DEF SendToken, SendReady, Goto, IInv, TypeOK, LocalsOK
<1>2. gatePhase[p] = "waiting" /\ gatePhase' = [gatePhase EXCEPT ![p] = "in"]
  BY <1>1 DEF gatePhase, IInv, TypeOK
<1>3. gateAt' = gateAt
  BY <1>1 DEF gateAt
<1>4. gateStale' = gateStale
  <2>1. \A q \in Proc : gateStale'[q] = gateStale[q]
    BY <1>1 DEF gateStale
  <2> QED
    BY <2>1 DEF gateStale
<1>5. ASSUME ~gateStale[p], NEW q \in Gate!Serving(gateAt[p]) PROVE FALSE
  <2>1. /\ q \in Proc /\ lk[q] # None /\ pc[q] # "select"
        /\ tgt[q] = tgt[p] /\ opLocks[tgt[q]] = lk[q]
    BY <1>1, <1>5 DEF Gate!Serving, gatePhase, gateAt, gateStale
  <2>2. lk[q] = lk[p]
    BY <1>1, <1>5, <2>1 DEF gateStale
  <2>3. pc[q] \in HoldsToken
    BY <2>1 DEF IInv, LocalsOK
  <2> QED
    BY <1>1, <2>1, <2>2, <2>3 DEF IInv, ChannelOwnership
<1> QED
  BY <1>2, <1>3, <1>4, <1>5 DEF Gate!Admit

\* Deleting the entry of opLocks retires the gate of that OLT.
LEMMA GateRetire ==
  ASSUME IInv, NEW p \in Proc, CloseAndDelete(p)
  PROVE  Gate!Retire(tgt[p])
<1> USE NoneAssumption DEF HoldsToken
<1>1. /\ pc[p] \in {"closing", "closingUpd"} /\ lk[p] = None /\ tgt[p] \in OLT
      /\ opLocks' = [opLocks EXCEPT ![tgt[p]] = None]
  BY DEF CloseAndDelete, IInv, TypeOK, LocalsOK
<1>2. /\ lk' = lk
      /\ \A q \in Proc : lk[q] # None => pc'[q] = pc[q] /\ tgt'[q] = tgt[q]
  BY <1>1 DEF CloseAndDelete, Return, Goto, IInv, TypeOK
<1>3. gatePhase' = gatePhase
  BY <1>2 DEF gatePhase
<1>4. gateAt' = gateAt
  BY <1>2 DEF gateAt
<1>5. gateStale' = [q \in Proc |-> \/ gateStale[q]
                                   \/ gatePhase[q] # "out" /\ gateAt[q] = tgt[p]]
  <2>1. ASSUME NEW q \in Proc
        PROVE  gateStale'[q] = (\/ gateStale[q]
                                \/ gatePhase[q] # "out" /\ gateAt[q] = tgt[p])
    <3>1. CASE lk[q] = None
      BY <1>2, <3>1 DEF gateStale, gatePhase
    <3>2. CASE lk[q] # None
      <4>1. tgt'[q] = tgt[q] /\ lk'[q] = lk[q] /\ tgt[q] \in OLT
        BY <1>2, <3>2 DEF IInv, TypeOK, LocalsOK
      <4>2. gatePhase[q] # "out" /\ gateAt[q] = tgt[q]
        BY <3>2 DEF gatePhase, gateAt
      <4>3. opLocks'[tgt[q]] = IF tgt[q] = tgt[p] THEN None ELSE opLocks[tgt[q]]
        BY <1>1, <4>1 DEF IInv, TypeOK
      <4> QED
        BY <3>2, <4>1, <4>2, <4>3 DEF gateStale
    <3> QED
      BY <3>1, <3>2
  <2> QED
    BY <2>1 DEF gateStale
<1> QED
  BY <1>3, <1>4, <1>5 DEF Gate!Retire

\* Each step of the registry is a step of the gate, or none.
LEMMA GateNext == IInv /\ [Next]_vars => [Gate!Next]_(Gate!vars)
<1> USE NoneAssumption DEF HoldsToken
<1> SUFFICES ASSUME IInv, [Next]_vars PROVE [Gate!Next]_(Gate!vars)
  OBVIOUS
<1>1. CASE UNCHANGED vars
  BY <1>1, GateStutter DEF vars
<1>2. ASSUME NEW p \in Proc, Call(p) PROVE UNCHANGED Gate!vars
  <2>1. pc[p] = "idle" /\ lk[p] = None
    BY <1>2 DEF Call, GetClient, WalkOLT, RegisterOLT, UnregisterOLT, UpdateOLT,
                IInv, LocalsOK
  <2>2. UNCHANGED <<lk, opLocks>>
    BY <1>2 DEF Call, GetClient, WalkOLT, RegisterOLT, UnregisterOLT, UpdateOLT
  <2>3. \A q \in Proc : q # p => pc'[q] = pc[q] /\ tgt'[q] = tgt[q]
    BY <1>2 DEF Call, GetClient, WalkOLT, RegisterOLT, UnregisterOLT, UpdateOLT,
                Goto, IInv, TypeOK
  <2> QED
    BY <2>1, <2>2, <2>3, GateStutter
<1>3. ASSUME NEW p \in Proc, Step(p) PROVE [Gate!Next]_(Gate!vars)
  <2>1. CASE LookupLock(p)
    <3>1. tgt[p] \in OLT
      BY <2>1 DEF LookupLock, IInv, TypeOK, LocalsOK
    <3> QED
      BY <2>1, <3>1, GateArrive DEF Gate!Next
  <2>2. CASE SendToken(p)
    BY <2>2, GateAdmit DEF Gate!Next
  <2>3. CASE CtxDone(p)
    BY <2>3, GateLeave DEF CtxDone, Gate!Next, IInv, LocalsOK
  <2>4. CASE Release(p)
    BY <2>4, GateLeave DEF Release, Gate!Next, IInv, LocalsOK
  <2>5. CASE CloseAndDelete(p)
    <3>1. tgt[p] \in OLT
      BY <2>5 DEF CloseAndDelete, IInv, TypeOK, LocalsOK
    <3> QED
      BY <2>5, <3>1, GateRetire DEF Gate!Next
  <2>6. CASE GetAdapter(p) \/ GetNewClient(p) \/ WalkPrivate(p) \/ BeginExchange(p)
    BY <2>6, GateStutter
    DEF GetAdapter, GetNewClient, WalkPrivate, BeginExchange, Goto, IInv, TypeOK
  <2>7. CASE EndExchange(p)
    <3>1. CASE pc[p] = "ponWire"
      <4>1. lk[p] = None /\ Return(p) /\ UNCHANGED opLocks
        BY <2>7, <3>1 DEF EndExchange, IInv, LocalsOK
      <4> QED
        BY <4>1, GateStutter DEF Return, Goto, IInv, TypeOK
    <3>2. CASE pc[p] # "ponWire"
      BY <2>7, <3>2, GateStutter DEF EndExchange, Goto, IInv, TypeOK
    <3> QED
      BY <3>1, <3>2
  <2>8. CASE DialDone(p) \/ ClosePanics(p) \/ Reregister(p)
    <3>1. lk[p] = None /\ UNCHANGED <<lk, opLocks>>
      BY <2>8 DEF DialDone, ClosePanics, Reregister, Return, Goto, IInv, TypeOK, LocalsOK
    <3>2. \A q \in Proc : q # p => pc'[q] = pc[q] /\ tgt'[q] = tgt[q]
      BY <2>8 DEF DialDone, ClosePanics, Reregister, Return, Goto, IInv, TypeOK
    <3> QED
      BY <3>1, <3>2, GateStutter
  <2> QED
    BY <1>3, <2>1, <2>2, <2>3, <2>4, <2>5, <2>6, <2>7, <2>8 DEF Step
<1> QED
  BY <1>1, <1>2, <1>3 DEF Next

\* AcquireSNMPLock and release() implement the gate: one operation of an OLT
\* at a time, except for operations that arrived before it was unregistered.
THEOREM ImplementsGateHolds == Spec => ImplementsGate
<1>1. ImplementsGate <=> Gate!Init /\ [][Gate!Next]_(Gate!vars)
  BY DEF ImplementsGate, Gate!Spec
<1> QED
  BY Invariance, GateInit, GateNext, <1>1, PTL DEF Spec
=============================================================================
