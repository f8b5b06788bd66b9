----------------------------- MODULE IndexSync ------------------------------
(***************************************************************************)
(* The search index of internal/service/indexer_service.go: one Redis key  *)
(* with the ONUs of all OLTs, overwritten as a whole, without expiry, at   *)
(* the end of a SyncAll.  A sync lists the registered OLTs, walks each on  *)
(* a goroutine of its own and stores what it got.  The ticker's goroutine  *)
(* runs one sync after the other; a create and a "sync" request each start *)
(* one beside it.  Nothing orders two syncs, and a delete or an update of  *)
(* an OLT starts none.                                                     *)
(*                                                                         *)
(* Of an OLT's ONU table its version is modelled.  The operation lock that *)
(* WalkOLT holds is in OltManager.  overlapped, old and carried are read   *)
(* by properties only.                                                     *)
(***************************************************************************)
EXTENDS Naturals

CONSTANTS
  OLT,         \* OLT identifiers
  Ticker,      \* the sync of the ticker's goroutine
  Trig,        \* triggered syncs; bounds how many are under way at once
  Absent,      \* nothing in the index, or no walk
  Listed,      \* a walk that has not begun,
  Client,      \* that has its client,
  Failed,      \* that failed
  MaxChanges,  \* bound on changes of registry, devices and setting together
  MaxFaults    \* bound on failed exchanges and writes, and restarts

\* What a walk can give: a version of the table, with the names or without.
Items == [ver : 0 .. MaxChanges, named : BOOLEAN]

ASSUME IndexSyncAssumption ==
  /\ Ticker \notin Trig
  /\ MaxChanges \in Nat /\ MaxFaults \in Nat
  /\ Absent \notin {Listed, Client, Failed}
  /\ Listed \notin {Client, Failed} /\ Client # Failed
  /\ {Absent, Listed, Client, Failed} \cap Items = {}

Sync == {Ticker} \cup Trig

VARIABLES
  reg,         \* the registered OLTs
  dev,         \* version of each OLT's ONU table
  index,       \* the stored index: per OLT what is in it, or Absent
  configured,  \* Search.Enabled in the file
  enabled,     \* Search.Enabled in memory
  created,     \* OLTs whose create has still to trigger a sync
  at,          \* each sync: "idle", "begin" or "walk",
  walk,        \* and how far the walk of each OLT is
  changes, faults,
  overlapped,  \* syncs under way that met another one
  old,         \* per sync: OLTs deleted since it listed them
  carried      \* OLTs deleted since the sync that stored the index listed them

world == <<reg, dev, enabled, created>>
vars  == <<world, index, configured, at, walk, changes, faults, overlapped, old, carried>>

-----------------------------------------------------------------------------
NoWalk == [o \in OLT |-> Absent]

TypeOK ==
  /\ reg \subseteq OLT /\ created \subseteq OLT /\ carried \subseteq OLT
  /\ dev \in [OLT -> 0 .. MaxChanges]
  /\ index \in [OLT -> Items \cup {Absent}]
  /\ configured \in BOOLEAN /\ enabled \in BOOLEAN
  /\ at \in [Sync -> {"idle", "begin", "walk"}]
  /\ walk \in [Sync -> [OLT -> Items \cup {Absent, Failed, Listed, Client}]]
  /\ \A s \in Sync : at[s] # "walk" => walk[s] = NoWalk /\ s \notin overlapped
  /\ overlapped \subseteq Sync
  /\ old \in [Sync -> SUBSET OLT]
  /\ changes \in 0 .. MaxChanges /\ faults \in 0 .. MaxFaults

\* The process starts; the index may be left from an earlier one.
Init ==
  /\ reg \in SUBSET OLT
  /\ dev = [o \in OLT |-> 0]
  /\ index \in {NoWalk, [o \in OLT |-> [ver |-> 0, named |-> TRUE]]}
  /\ configured \in BOOLEAN
  /\ enabled = configured
  /\ created = {}
  /\ at = [s \in Sync |-> "idle"]
  /\ walk = [s \in Sync |-> NoWalk]
  /\ changes = 0 /\ faults = 0
  /\ overlapped = {}
  /\ old = [s \in Sync |-> {}]
  /\ carried = OLT

Change == changes < MaxChanges /\ changes' = changes + 1 /\ UNCHANGED faults
Fault  == faults < MaxFaults /\ faults' = faults + 1 /\ UNCHANGED changes
NoEvent == UNCHANGED <<changes, faults>>

-----------------------------------------------------------------------------
\* CreateOLT registers the OLT first and triggers a sync last.
CreateOLT(o) ==
  /\ Change
  /\ o \notin reg
  /\ reg' = reg \cup {o}
  /\ created' = created \cup {o}
  /\ old' = [s \in Sync |-> old[s] \ {o}]
  /\ carried' = carried \ {o}
  /\ UNCHANGED <<dev, index, configured, enabled, at, walk, overlapped>>

Walking == {s \in Sync : at[s] = "walk"}

\* DeleteOLT.  An update is a delete and a create that triggers no sync.
DeleteOLT(o) ==
  /\ Change
  /\ o \in reg
  /\ reg' = reg \ {o}
  /\ old' = [s \in Sync |-> IF s \in Walking THEN old[s] \cup {o} ELSE old[s]]
  /\ carried' = carried \cup {o}
  /\ UNCHANGED <<dev, index, configured, enabled, created, at, walk, overlapped>>

DeviceChange(o) ==
  /\ Change
  /\ dev' = [dev EXCEPT ![o] = @ + 1]
  /\ UNCHANGED <<reg, index, configured, enabled, created, at, walk, overlapped, old, carried>>

\* Search.Enabled in memory; the Save that follows writes OLTs and users only.
SetEnabled(b) ==
  /\ Change
  /\ enabled' = b
  /\ UNCHANGED <<reg, dev, index, configured, created, at, walk, overlapped, old, carried>>

-----------------------------------------------------------------------------
Begin(s) ==
  /\ at[s] = "idle"
  /\ at' = [at EXCEPT ![s] = "begin"]
  /\ NoEvent
  /\ UNCHANGED <<reg, dev, enabled, index, configured, walk, overlapped, old, carried>>

\* POST /search/sync.
ForceSync == UNCHANGED created /\ \E s \in Trig : Begin(s)

\* mutant: CreateOLT triggers a sync only if none is under way
TriggerUnlessBusy(o) ==
  /\ created' = created \ {o}
  /\ IF \E s \in Sync : at[s] # "idle"
     THEN /\ NoEvent
          /\ UNCHANGED <<reg, dev, enabled, index, configured, at, walk, overlapped, old, carried>>
     ELSE \E s \in Trig : Begin(s)

\* The last step of a create.
TriggerSync(o) ==
  /\ created' = created \ {o}
  /\ \E s \in Trig : Begin(s)

\* The ticker is started only if the search is enabled in the file, for good.
\* Each tick, and the start, looks at the setting in memory.
Tick == configured /\ enabled /\ UNCHANGED created /\ Begin(Ticker)

\* mutant: OLTs are listed once, when the indexer first stores (like a poller)
ListOnce == {o \in reg : index[o] = Absent}

\* manager.ListOLTs()
ListOLTs == reg

\* SyncAll: the OLTs to walk.
List(s) ==
  /\ at[s] = "begin"
  /\ at' = [at EXCEPT ![s] = "walk"]
  /\ walk' = [walk EXCEPT ![s] = [o \in OLT |-> IF o \in ListOLTs THEN Listed ELSE Absent]]
  /\ overlapped' = IF Walking = {} THEN overlapped ELSE overlapped \cup Walking \cup {s}
  /\ NoEvent
  /\ UNCHANGED <<world, index, configured, old, carried>>

Walk(s, o, result) ==
  /\ walk' = [walk EXCEPT ![s][o] = result]
  /\ UNCHANGED <<world, index, configured, at, overlapped, old, carried>>

\* WalkOLT: a client of its own, if the OLT is still registered.
GetNewClient(s, o) ==
  /\ walk[s][o] = Listed
  /\ Walk(s, o, IF o \in reg THEN Client ELSE Failed)
  /\ NoEvent

\* mutant: the ticker's syncs read cached ONU lists, which are a change behind
CachedTable(s, o) == IF s = Ticker /\ dev[o] > 0 THEN dev[o] - 1 ELSE dev[o]

\* A walk reads the device.
Table(s, o) == dev[o]

\* The three walks: without the statuses there is nothing, without the names
\* or serial numbers the ONUs are indexed with blanks.
WalkOLT(s, o) ==
  /\ walk[s][o] = Client
  /\ \/ NoEvent /\ Walk(s, o, [ver |-> Table(s, o), named |-> TRUE])
     \/ Fault   /\ Walk(s, o, [ver |-> Table(s, o), named |-> FALSE])
     \/ Fault   /\ Walk(s, o, Failed)

\* mutant: SyncAll stores without waiting for the walks
NoWait(s) == at[s] = "walk"

\* wg.Wait()
AllWalked(s) == at[s] = "walk" /\ \A o \in OLT : walk[s][o] \notin {Listed, Client}

\* mutant: the index is merged with, not replaced by, what was walked
Merged(s, o) == IF walk[s][o] \in {Absent, Failed} THEN index[o] ELSE walk[s][o]

\* An OLT that cannot be walked is left out.
AllItems(s, o) == IF walk[s][o] = Failed THEN Absent ELSE walk[s][o]

End(s) ==
  /\ at' = [at EXCEPT ![s] = "idle"]
  /\ walk' = [walk EXCEPT ![s] = NoWalk]
  /\ overlapped' = overlapped \ {s}
  /\ old' = [old EXCEPT ![s] = {}]

\* SetGlobalIndex: one SET over what was there.
Store(s) ==
  /\ AllWalked(s)
  /\ index' = [o \in OLT |-> AllItems(s, o)]
  /\ carried' = old[s]
  /\ End(s)
  /\ NoEvent
  /\ UNCHANGED <<world, configured>>

StoreFails(s) ==
  /\ AllWalked(s)
  /\ Fault
  /\ End(s)
  /\ UNCHANGED <<world, index, configured, carried>>

\* The process dies and starts again with what the file has; the index stays.
Restart ==
  /\ Fault
  /\ enabled' = configured
  /\ created' = {}
  /\ at' = [s \in Sync |-> "idle"]
  /\ walk' = [s \in Sync |-> NoWalk]
  /\ overlapped' = {}
  /\ old' = [s \in Sync |-> {}]
  /\ UNCHANGED <<reg, dev, index, configured, carried>>

-----------------------------------------------------------------------------
SyncAll(s) ==
  \/ List(s)
  \/ \E o \in OLT : GetNewClient(s, o) \/ WalkOLT(s, o)
  \/ Store(s) \/ StoreFails(s)

Next ==
  \/ \E o \in OLT : CreateOLT(o) \/ DeleteOLT(o) \/ DeviceChange(o)
  \/ \E o \in created : TriggerSync(o)
  \/ \E b \in BOOLEAN : SetEnabled(b)
  \/ Tick \/ ForceSync
  \/ \E s \in Sync : SyncAll(s)
  \/ Restart

Spec == Init /\ [][Next]_vars

\* Goroutines run and walks end by the SNMP timeout; the ticker ticks; a create
\* that has registered its OLT comes to its trigger, which waits for nobody.
FairSpec ==
  /\ Spec
  /\ \A s \in Sync : WF_vars(SyncAll(s))
  /\ WF_vars(Tick)
  /\ \A o \in OLT : SF_vars(o \in created /\ TriggerSync(o))

-----------------------------------------------------------------------------
\* What a search (and its statistics) can find: the OLTs with items in the index.
Search == {o \in OLT : index[o] # Absent}

\* A deleted OLT is found by a search only while the index is that of a sync
\* that listed the OLTs before the deletion: any later sync takes it out.
DeletedLeavesSearch == \A o \in Search : o \notin reg => o \in carried

Older(o) == o \in Search /\ o \in Search' /\ index[o].ver > index'[o].ver

\* A store replaces items of an OLT by older ones only at the end of a sync
\* that met another one: the ticker's own syncs, one after the other, never do.
OlderOnlyByOverlap ==
  [][\A o \in OLT : Older(o) => \E s \in overlapped : at[s] = "walk" /\ at'[s] = "idle"]_vars

\* A walk under way is of an OLT that is registered or was deleted since the
\* sync listed it.
WalksListed ==
  \A s \in Walking, o \in OLT : walk[s][o] # Absent => o \in reg \cup old[s]

\* Two syncs that walk at once have both met another one.
MeetingNoticed ==
  \A s, t \in Walking : s # t => {s, t} \subseteq overlapped

\* No item is newer than the device, and the stored ones are not newer than
\* those of a sync that met no other.
VersionsOK ==
  \A o \in OLT :
    /\ dev[o] <= changes
    /\ index[o] # Absent => index[o].ver <= dev[o]
    /\ \A s \in Sync : walk[s][o] \in Items =>
         /\ walk[s][o].ver <= dev[o]
         /\ s \notin overlapped /\ index[o] # Absent => index[o].ver <= walk[s][o].ver

\* The inductive invariant.
IInv == TypeOK /\ WalksListed /\ DeletedLeavesSearch /\ MeetingNoticed /\ VersionsOK

IndexRight ==
  \A o \in OLT : index[o] = IF o \in reg THEN [ver |-> dev[o], named |-> TRUE] ELSE Absent

\* With the search enabled in the file and left enabled, the index ends up
\* right when registry, devices and network do: failed walks, blank names,
\* older stores and deleted OLTs are all put right by a later sync.
EventuallyIndexed == configured /\ <>[]enabled => <>[]IndexRight

\* "Trigger search index update" (CreateOLT): a new OLT comes into the index
\* even if no ticker runs, unless it is deleted or something fails.
CreatedIsIndexed ==
  \A o \in OLT : o \in created ~> (o \in Search \/ o \notin reg \/ faults > 0)
=============================================================================
