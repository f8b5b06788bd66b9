--------------------------- MODULE IndexSyncProofs ---------------------------
(***************************************************************************)
(* Theorems about IndexSync, for any OLTs, any number of syncs at once and *)
(* any number of changes and faults, and about the interface index by      *)
(* which its walks address a PON.                                          *)
(***************************************************************************)
EXTENDS IndexSync, IfIndex, TLAPS

\* Absent marks no items.
LEMMA ItemsFacts ==
  /\ Absent \notin Items /\ Failed \notin Items
  /\ Listed \notin Items /\ Client \notin Items
  /\ \A i \in Items : i.ver \in 0 .. MaxChanges
  /\ \A v \in 0 .. MaxChanges, b \in BOOLEAN :
       /\ [ver |-> v, named |-> b] \in Items
       /\ [ver |-> v, named |-> b].ver = v
BY IndexSyncAssumption DEF Items

\* The process starts with an index no newer than the devices.
LEMMA InitIInv == Init => IInv
<1> USE IndexSyncAssumption, ItemsFacts DEF Init, NoWalk
<1> SUFFICES ASSUME Init PROVE IInv
  OBVIOUS
<1>1. 0 \in 0 .. MaxChanges /\ 0 \in 0 .. MaxFaults
  OBVIOUS
<1>2. TypeOK
  <2>1. index \in [OLT -> Items \cup {Absent}]
    <3>1. [ver |-> 0, named |-> TRUE] \in Items
      BY <1>1
    <3> QED
      BY <3>1
  <2> QED
    BY <1>1, <2>1 DEF TypeOK
<1>3. WalksListed /\ MeetingNoticed
  BY DEF WalksListed, MeetingNoticed, Walking
<1>4. DeletedLeavesSearch
  BY DEF DeletedLeavesSearch, Search
<1>5. VersionsOK
  <2>1. \A o \in OLT : dev[o] = 0 /\ (index[o] # Absent => index[o].ver = 0)
    BY <1>1
  <2>2. \A s \in Sync, o \in OLT : walk[s][o] = Absent
    OBVIOUS
  <2>3. changes = 0
    OBVIOUS
  <2>4. ASSUME NEW o \in OLT
        PROVE  /\ dev[o] <= changes
               /\ index[o] # Absent => index[o].ver <= dev[o]
               /\ \A s \in Sync : walk[s][o] \notin Items
    <3>1. dev[o] <= changes /\ \A s \in Sync : walk[s][o] \notin Items
      BY <2>1, <2>2, <2>3
    <3>2. index[o] # Absent => index[o].ver <= dev[o]
      BY <2>1
    <3> QED
      BY <3>1, <3>2
  <2> QED
    BY <2>4 DEF VersionsOK
<1> QED
  BY <1>2, <1>3, <1>4, <1>5 DEF IInv

\* Steps of requests and devices, which no sync takes part in.
LEMMA ChangeIInv ==
  ASSUME IInv,
         \/ \E o \in OLT : CreateOLT(o) \/ DeleteOLT(o) \/ DeviceChange(o)
         \/ \E b \in BOOLEAN : SetEnabled(b)
  PROVE  IInv'
<1> USE IndexSyncAssumption DEF IInv, TypeOK, Change
<1>1. changes' = changes + 1 /\ changes' \in 0 .. MaxChanges /\ UNCHANGED <<index, at, walk, overlapped>>
  BY DEF CreateOLT, DeleteOLT, DeviceChange, SetEnabled
<1>2. \A q \in OLT : dev[q] <= dev'[q] /\ dev'[q] <= dev[q] + 1 /\ dev'[q] \in Nat
  BY DEF CreateOLT, DeleteOLT, DeviceChange, SetEnabled
<1>3. \A q \in OLT : dev'[q] <= changes' /\ dev'[q] \in 0 .. MaxChanges
  BY <1>1, <1>2 DEF VersionsOK
<1>4. TypeOK'
  <2>1. dev' \in [OLT -> 0 .. MaxChanges]
    BY <1>3 DEF CreateOLT, DeleteOLT, DeviceChange, SetEnabled
  <2> QED
    BY <1>1, <2>1 DEF CreateOLT, DeleteOLT, DeviceChange, SetEnabled
<1>5. WalksListed'
  BY <1>1 DEF WalksListed, Walking, CreateOLT, DeleteOLT, DeviceChange, SetEnabled
<1>6. DeletedLeavesSearch'
  BY <1>1 DEF DeletedLeavesSearch, Search, CreateOLT, DeleteOLT, DeviceChange, SetEnabled
<1>7. MeetingNoticed'
  BY <1>1 DEF MeetingNoticed, Walking
<1>8. VersionsOK'
  BY <1>1, <1>2, <1>3, ItemsFacts DEF VersionsOK
<1> QED
  BY <1>4, <1>5, <1>6, <1>7, <1>8

\* A sync starts; it has not listed anything.
LEMMA BeginIInv ==
  ASSUME IInv, NEW s \in Sync, Begin(s), created' \subseteq OLT
  PROVE  IInv'
<1> USE DEF IInv, Begin, NoEvent
<1>1. TypeOK'
  BY DEF TypeOK
<1>2. Walking' = Walking
  BY DEF TypeOK, Walking
<1>3. WalksListed' /\ DeletedLeavesSearch' /\ MeetingNoticed' /\ VersionsOK'
  BY <1>2 DEF WalksListed, DeletedLeavesSearch, Search, MeetingNoticed, VersionsOK
<1> QED
  BY <1>1, <1>3

\* A sync lists the OLTs, and notices the syncs it meets.
LEMMA ListIInv ==
  ASSUME IInv, NEW s \in Sync, List(s)
  PROVE  IInv'
<1> USE IndexSyncAssumption, ItemsFacts DEF IInv, List, NoEvent, ListOLTs, world
<1>1. at[s] = "begin" /\ Walking' = Walking \cup {s} /\ s \notin Walking
  BY DEF TypeOK, Walking
<1>2. TypeOK'
  BY <1>1 DEF TypeOK, Walking
<1>3. WalksListed'
  BY <1>1 DEF TypeOK, WalksListed, Walking
<1>4. DeletedLeavesSearch'
  BY DEF DeletedLeavesSearch, Search
<1>5. MeetingNoticed'
  BY <1>1 DEF MeetingNoticed
<1>6. VersionsOK'
  <2>1. \A t \in Sync, q \in OLT : walk'[t][q] \in Items => walk'[t][q] = walk[t][q]
    BY DEF TypeOK
  <2>2. \A t \in Sync : t \notin overlapped' => t \notin overlapped
    OBVIOUS
  <2> QED
    BY <2>1, <2>2 DEF VersionsOK
<1> QED
  BY <1>2, <1>3, <1>4, <1>5, <1>6

\* A walk reads the device as it is.
LEMMA WalkIInv ==
  ASSUME IInv, NEW s \in Sync, NEW o \in OLT,
         GetNewClient(s, o) \/ WalkOLT(s, o)
  PROVE  IInv'
<1> USE IndexSyncAssumption, ItemsFacts DEF IInv, Walk, NoEvent, Fault, Table, world
<1>1. /\ walk[s][o] \in {Listed, Client}
      /\ UNCHANGED <<reg, dev, enabled, created, index, configured, at, overlapped, old, carried, changes>>
      /\ faults' \in 0 .. MaxFaults
  BY DEF TypeOK, GetNewClient, WalkOLT
<1>2. PICK r \in Items \cup {Failed, Client} :
        /\ walk' = [walk EXCEPT ![s][o] = r]
        /\ r \in Items => r.ver = dev[o]
  BY DEF TypeOK, GetNewClient, WalkOLT
<1>3. s \in Walking /\ Walking' = Walking
  BY <1>1 DEF TypeOK, Walking, NoWalk
<1>4. TypeOK'
  BY <1>1, <1>2, <1>3 DEF TypeOK, Walking, NoWalk
<1>5. WalksListed'
  BY <1>1, <1>2, <1>3 DEF TypeOK, WalksListed
<1>6. DeletedLeavesSearch' /\ MeetingNoticed'
  BY <1>1, <1>3 DEF DeletedLeavesSearch, Search, MeetingNoticed
<1>7. VersionsOK'
  BY <1>1, <1>2 DEF TypeOK, VersionsOK
<1> QED
  BY <1>4, <1>5, <1>6, <1>7

\* The sync that ends stores what it walked, and leaves the others alone.
LEMMA StoreIInv ==
  ASSUME IInv, NEW s \in Sync, Store(s)
  PROVE  IInv'
<1> USE IndexSyncAssumption, ItemsFacts DEF IInv, Store, End, AllWalked, AllItems, NoEvent, world
<1>1. s \in Walking /\ Walking' = Walking \ {s}
  BY DEF TypeOK, Walking
<1>2. \A o \in OLT : /\ index'[o] \in Items \cup {Absent}
                     /\ index'[o] # Absent => index'[o] = walk[s][o] /\ walk[s][o] \in Items
  BY DEF TypeOK
<1>3. TypeOK'
  BY <1>2 DEF TypeOK, NoWalk
<1>4. WalksListed'
  BY <1>1 DEF TypeOK, WalksListed, Walking
<1>5. DeletedLeavesSearch'
  BY <1>1, <1>2 DEF DeletedLeavesSearch, Search, WalksListed
<1>6. MeetingNoticed'
  BY <1>1 DEF MeetingNoticed
<1>7. VersionsOK'
  <2>1. \A t \in Sync, q \in OLT :
          walk'[t][q] \in Items => t # s /\ t \in Walking /\ walk'[t][q] = walk[t][q]
    BY DEF TypeOK, NoWalk, Walking
  <2>2. \A t \in Walking : t # s => t \in overlapped'
    BY <1>1 DEF MeetingNoticed
  <2> QED
    BY <1>2, <2>1, <2>2 DEF TypeOK, VersionsOK
<1> QED
  BY <1>3, <1>4, <1>5, <1>6, <1>7

\* So does one that cannot store, and a restart ends all.
LEMMA FaultIInv ==
  ASSUME IInv, Restart \/ \E s \in Sync : StoreFails(s)
  PROVE  IInv'
<1> USE IndexSyncAssumption, ItemsFacts DEF IInv, End, Fault, world
<1>1. /\ UNCHANGED <<reg, dev, index, configured, carried, changes>>
      /\ enabled' \in BOOLEAN /\ created' \subseteq OLT
      /\ faults' \in 0 .. MaxFaults
  BY DEF TypeOK, Restart, StoreFails
<1>2. \A t \in Sync :
        \/ at'[t] = "idle" /\ walk'[t] = NoWalk /\ t \notin overlapped'
        \/ at'[t] = at[t] /\ walk'[t] = walk[t] /\ old'[t] = old[t]
             /\ (t \in overlapped' <=> t \in overlapped)
  BY DEF TypeOK, Restart, StoreFails
<1>3. TypeOK'
  <2>1. /\ at' \in [Sync -> {"idle", "begin", "walk"}]
        /\ walk' \in [Sync -> [OLT -> Items \cup {Absent, Failed, Listed, Client}]]
        /\ old' \in [Sync -> SUBSET OLT]
        /\ overlapped' \subseteq Sync
    <3>1. CASE Restart
      BY <3>1 DEF TypeOK, NoWalk, Restart
    <3>2. CASE \E s \in Sync : StoreFails(s)
      BY <3>2 DEF TypeOK, NoWalk, StoreFails
    <3> QED
      BY <3>1, <3>2
  <2>2. \A t \in Sync : at'[t] # "walk" => walk'[t] = NoWalk /\ t \notin overlapped'
    BY <1>2 DEF TypeOK
  <2> QED
    BY <1>1, <2>1, <2>2 DEF TypeOK
<1>4. Walking' \subseteq Walking
  BY <1>2 DEF Walking
<1>5. WalksListed'
  BY <1>1, <1>2 DEF WalksListed, Walking
<1>6. DeletedLeavesSearch'
  BY <1>1 DEF DeletedLeavesSearch, Search
<1>7. MeetingNoticed'
  BY <1>2 DEF MeetingNoticed, Walking
<1>8. VersionsOK'
  BY <1>1, <1>2 DEF VersionsOK, NoWalk
<1> QED
  BY <1>3, <1>5, <1>6, <1>7, <1>8

\* A step that changes nothing.
LEMMA StutterIInv == IInv /\ UNCHANGED vars => IInv'
BY DEF IInv, TypeOK, WalksListed, DeletedLeavesSearch, Search, MeetingNoticed,
       VersionsOK, Walking, vars, world

LEMMA NextIInv == IInv /\ [Next]_vars => IInv'
<1> SUFFICES ASSUME IInv, [Next]_vars PROVE IInv'
  OBVIOUS
<1>1. ASSUME NEW o \in created, TriggerSync(o)
      PROVE  IInv'
  BY <1>1, BeginIInv DEF TriggerSync, IInv, TypeOK, Sync
<1>2. ASSUME Tick \/ ForceSync
      PROVE  IInv'
  BY <1>2, BeginIInv DEF Tick, ForceSync, IInv, TypeOK, Sync
<1>3. ASSUME NEW s \in Sync, SyncAll(s)
      PROVE  IInv'
  BY <1>3, ListIInv, WalkIInv, StoreIInv, FaultIInv DEF SyncAll
<1> QED
  BY <1>1, <1>2, <1>3, ChangeIInv, FaultIInv, StutterIInv DEF Next

\* In every behaviour the index holds no deleted OLT beyond the next sync, and
\* nothing newer than a lone sync under way will store.
THEOREM Invariance == Spec => []IInv
BY InitIInv, NextIInv, PTL DEF Spec

\* A search finds a deleted OLT only in the index of a sync that listed the
\* OLTs before the deletion.
THEOREM DeletedLeavesSearchHolds == Spec => []DeletedLeavesSearch
<1>1. IInv => DeletedLeavesSearch
  BY DEF IInv
<1> QED
  BY <1>1, Invariance, PTL

\* SyncAll stores older items over newer ones only if another sync was met.
THEOREM OlderOnlyByOverlapHolds == Spec => OlderOnlyByOverlap
<1>1. IInv /\ [Next]_vars =>
        [\A o \in OLT : Older(o) => \E s \in overlapped : at[s] = "walk" /\ at'[s] = "idle"]_vars
  <2> SUFFICES ASSUME IInv, Next, NEW o \in OLT, Older(o)
               PROVE  \E s \in overlapped : at[s] = "walk" /\ at'[s] = "idle"
    BY DEF vars
  <2>1. index' # index
    BY DEF Older, Search, IInv, TypeOK, Items
  <2>2. PICK s \in Sync : Store(s)
    BY <2>1 DEF Next, CreateOLT, DeleteOLT, DeviceChange, SetEnabled, TriggerSync,
       Tick, ForceSync, Begin, SyncAll, List, GetNewClient, WalkOLT, Walk,
       StoreFails, Restart
  <2>3. index'[o] = walk[s][o] /\ walk[s][o] \in Items
    BY <2>2 DEF Older, Search, Store, AllWalked, AllItems, IInv, TypeOK
  <2>4. s \in overlapped
    BY <2>3, ItemsFacts DEF Older, Search, IInv, TypeOK, VersionsOK
  <2> QED
    BY <2>2, <2>4 DEF Store, AllWalked, End, IInv, TypeOK
<1> QED
  BY <1>1, Invariance, PTL DEF Spec, OlderOnlyByOverlap

-----------------------------------------------------------------------------
(* The interface index of a PON. *)

\* Walks that are addressed with CalculateIfIndex and read with ParseIfIndex
\* give back their board and PON, as long as both fit into a byte.
THEOREM RoundTrip ==
  \A slot, port \in Byte :
    /\ ParseSlot(CalculateIfIndex(slot, port)) = slot
    /\ ParsePort(CalculateIfIndex(slot, port)) = port
<1>1. SUFFICES ASSUME NEW slot \in Byte, NEW port \in Byte
               PROVE  /\ ParseSlot(CalculateIfIndex(slot, port)) = slot
                      /\ ParsePort(CalculateIfIndex(slot, port)) = port
  OBVIOUS
<1>. DEFINE i == CalculateIfIndex(slot, port)
<1>2. slot \in Int /\ 0 <= slot /\ slot <= 255 /\ port \in Int /\ 0 <= port /\ port <= 255
  BY DEF Byte
<1>3. i \div 65536 = 4096 + slot
  BY <1>2 DEF CalculateIfIndex
<1>4. i \div 256 = 1048576 + slot * 256 + port
  BY <1>2 DEF CalculateIfIndex
<1>5. (4096 + slot) % 256 = slot
  BY <1>2
<1>6. (1048576 + slot * 256 + port) % 256 = port
  BY <1>2
<1>. QED
  BY <1>3, <1>4, <1>5, <1>6 DEF ParseSlot, ParsePort

\* Two PONs have the same index only if they are the same, for those that fit.
THEOREM Injective ==
  \A s1, p1, s2, p2 \in Byte :
    CalculateIfIndex(s1, p1) = CalculateIfIndex(s2, p2) => s1 = s2 /\ p1 = p2
BY RoundTrip

\* The handlers check only that board and PON are at least 1: a PON past 255 is
\* that of a later board, whose ONUs a request for it gets.
THEOREM Alias ==
  \A slot, port \in Nat :
    CalculateIfIndex(slot, port + 256) = CalculateIfIndex(slot + 1, port)
BY DEF CalculateIfIndex
=============================================================================
