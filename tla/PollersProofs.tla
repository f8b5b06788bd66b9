---------------------------- MODULE PollersProofs ----------------------------
(***************************************************************************)
(* Theorems about Pollers, for any OLTs, any width of the semaphore and    *)
(* any number of PONs.                                                     *)
(***************************************************************************)
EXTENDS Pollers, TLAPS

USE PollersAssumption DEF poll, Places

\* Nothing runs at the start.
LEMMA InitIInv == Init => IInv
<1> USE PollersAssumption DEF Init, Places
<1>1. Init => TypeOK
  BY DEF TypeOK
<1>2. Init => RootOK /\ ClientOutlivesWalks /\ QuietAfterStop
  BY DEF RootOK, ClientOutlivesWalks, QuietAfterStop
<1> QED
  BY <1>1, <1>2 DEF IInv

\* The goroutine of Start makes those of the OLTs,
LEMMA ListOLTsIInv ==
  ASSUME IInv, NEW k \in Poller, ListOLTs(k)
  PROVE  IInv'
<1> USE PollersAssumption DEF IInv, TypeOK, RootOK, ClientOutlivesWalks, ListOLTs, Root, First, Places
<1>1. at[k] = [o \in OLT |-> "off"]
  OBVIOUS
<1>2. TypeOK'
  BY <1>1
<1>3. RootOK'
  OBVIOUS
<1>4. ClientOutlivesWalks'
  BY <1>1
<1>5. QuietAfterStop'
  BY DEF QuietAfterStop
<1> QED
  BY <1>2, <1>3, <1>4, <1>5

\* and is done when they are.
LEMMA CtxDoneIInv ==
  ASSUME IInv, NEW k \in Poller, CtxDone(k)
  PROVE  IInv'
<1> USE DEF IInv, CtxDone, Root, IdleCloses
<1>1. TypeOK'
  BY DEF TypeOK
<1>2. RootOK'
  BY DEF TypeOK, RootOK
<1>3. ClientOutlivesWalks'
  BY DEF ClientOutlivesWalks
<1>4. QuietAfterStop'
  <2> SUFFICES ASSUME NEW j \in Poller, root'[j] = "done", NEW o \in OLT
               PROVE  /\ at[j][o] \in {"off", "ended"}
                      /\ queued[j][o] = 0 /\ busy[j][o] = 0
                      /\ ~open[j][o]
    BY DEF QuietAfterStop
  <2>1. CASE root[j] = "done"
    BY <2>1 DEF QuietAfterStop
  <2>2. CASE root[j] # "done"
    <3>1. j = k
      BY <2>2 DEF TypeOK
    <3>2. at[k][o] \in {"off", "ended"}
      BY <3>1, <2>2 DEF AllEnded, RootOK, TypeOK
    <3> QED
      BY <3>1, <3>2 DEF TypeOK, ClientOutlivesWalks
  <2> QED
    BY <2>1, <2>2
<1> QED
  BY <1>1, <1>2, <1>3, <1>4

\* A goroutine of an OLT runs only while its poller is not done, and connects,
\* walks and closes in this order.
LEMMA PollerStepIInv ==
  ASSUME IInv, NEW k \in Poller, NEW o \in OLT, PollerStep(k, o)
  PROVE  IInv'
<1> USE PollersAssumption DEF IInv, TypeOK, ClientOutlivesWalks, Goto, Places
<1>1. /\ at[k][o] \notin {"off", "ended"} \/ queued[k][o] # 0 \/ busy[k][o] # 0
      /\ root' = root /\ listed' = listed /\ main' = main
  BY DEF PollerStep, Wake, GetNewClient, NoClient, DiscoverPONs, BeginPON,
         EndPON, Close, Tick, Return
<1>2. root[k] # "done"
  BY <1>1 DEF QuietAfterStop
<1>3. RootOK'
  BY <1>1 DEF RootOK
<1>4. \A j \in Poller, q \in OLT : j # k =>
        /\ at'[j][q] = at[j][q] /\ open'[j][q] = open[j][q]
        /\ queued'[j][q] = queued[j][q] /\ busy'[j][q] = busy[j][q]
  BY DEF PollerStep, Wake, GetNewClient, NoClient, DiscoverPONs, BeginPON,
         EndPON, Close, Closed, Tick, Return
<1>5. QuietAfterStop'
  BY <1>1, <1>2, <1>4 DEF QuietAfterStop
<1>6. TypeOK' /\ ClientOutlivesWalks'
  <2>1. CASE Wake(k, o)          BY <2>1 DEF Wake
  <2>2. CASE GetNewClient(k, o)  BY <2>2 DEF GetNewClient
  <2>3. CASE NoClient(k, o)      BY <2>3 DEF NoClient, AfterError
  <2>4. CASE DiscoverPONs(k, o)
    <3>1. ASSUME NEW n \in 1 .. MaxPon, UNCHANGED <<open, busy>>,
                 queued' = [queued EXCEPT ![k][o] = n],
                 at' = [at EXCEPT ![k][o] = "walk"]
          PROVE  TypeOK' /\ ClientOutlivesWalks'
      <4>1. n \in 0 .. MaxPon
        OBVIOUS
      <4>2. at[k][o] = "discover"
        BY <2>4 DEF DiscoverPONs
      <4>3. TypeOK'
        BY <1>1, <3>1, <4>1, <4>2
      <4>4. ClientOutlivesWalks'
        BY <3>1, <4>2
      <4> QED
        BY <4>3, <4>4
    <3>2. CASE UNCHANGED <<queued, busy>> /\ open' = Closed(k, o)
                 /\ at' = [at EXCEPT ![k][o] = "select"]
      <4>1. at[k][o] = "discover"
        BY <2>4 DEF DiscoverPONs
      <4> QED
        BY <1>1, <3>2, <4>1 DEF Closed
    <3> QED
      BY <2>4, <3>1, <3>2 DEF DiscoverPONs
  <2>5. CASE BeginPON(k, o)      BY <2>5 DEF BeginPON
  <2>6. CASE EndPON(k, o)        BY <2>6 DEF EndPON
  <2>7. CASE Close(k, o)         BY <2>7 DEF Close, PONsDone
  <2>8. CASE Tick(k, o)          BY <2>8 DEF Tick
  <2>9. CASE Return(k, o)        BY <2>9 DEF Return
  <2> QED
    BY <2>1, <2>2, <2>3, <2>4, <2>5, <2>6, <2>7, <2>8, <2>9 DEF PollerStep
<1> QED
  BY <1>3, <1>5, <1>6

\* The signal handler changes nothing of the pollers.
LEMMA MainIInv ==
  ASSUME IInv, Signal \/ Stop \/ UNCHANGED vars
  PROVE  IInv'
BY DEF IInv, TypeOK, RootOK, ClientOutlivesWalks, QuietAfterStop, Signal, Stop,
       Main, vars

\* In every behaviour a poll's client stays open as long as its walks, and a
\* poller that reports to be done has nothing left that runs.
THEOREM Invariance == Spec => []IInv
<1>1. Init => IInv
  BY InitIInv
<1>2. IInv /\ [Next]_vars => IInv'
  BY ListOLTsIInv, CtxDoneIInv, PollerStepIInv, MainIInv DEF Next, Exited
<1> QED
  BY <1>1, <1>2, PTL DEF Spec

\* What Stop waits for (<-p.done) comes after the last goroutine of an OLT, the
\* last walk of a PON and the last connection.
THEOREM QuietAfterStopHolds == Spec => []QuietAfterStop
<1>1. IInv => QuietAfterStop
  BY DEF IInv
<1> QED
  BY <1>1, Invariance, PTL

\* pollOLT's deferred Close comes after the walks that share its client.
THEOREM ClientOutlivesWalksHolds == Spec => []ClientOutlivesWalks
<1>1. IInv => ClientOutlivesWalks
  BY DEF IInv
<1> QED
  BY <1>1, Invariance, PTL
=============================================================================
