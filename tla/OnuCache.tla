------------------------------ MODULE OnuCache ------------------------------
(***************************************************************************)
(* The ONU list of one PON and its two cache entries in Redis: the list    *)
(* ("onulist") and the names ("onunames").  Four writers meet there:       *)
(*   - GetONUList of internal/service/onu_service.go, whose walks are      *)
(*     deduplicated by singleflight;                                       *)
(*   - pollPON of the optical poller, which merges the cached names into   *)
(*     the list it walked;                                                 *)
(*   - pollPON of the names poller;                                        *)
(*   - the invalidations: after a provisioning (list only), and of all     *)
(*     keys of an OLT that is unregistered.                                *)
(* None of them reads and writes in one step, so a walk that started       *)
(* before an invalidation may store its result after it.  Walks and cache  *)
(* entries carry the invalidations they straddled as tags; tags, acked,    *)
(* must and late are read by properties only.                              *)
(*                                                                         *)
(* A status walk takes seconds and is no snapshot: it finds the ONUs that  *)
(* are there from its first row to its last, none that are there at        *)
(* neither, and may or may not find the others.                            *)
(***************************************************************************)
EXTENDS Naturals

CONSTANTS
  Onu,         \* ONU identifiers of the PON
  Name,        \* names an ONU can be given
  Req,         \* concurrent GetONUList requests
  Poll,        \* concurrent pollPON calls of the optical poller
  NPoll,       \* concurrent pollPON calls of the names poller
  Absent,      \* no such ONU, or no entry for it
  Blank,       \* the empty name
  None,        \* no cache entry
  Err,         \* a request's error answer
  MaxChanges   \* bound on the changes of the device

ASSUME OnuCacheAssumption ==
  /\ Absent \notin Name /\ Blank \notin Name /\ Absent # Blank
  /\ MaxChanges \in Nat

VARIABLES
  dev,         \* the device: each ONU's name, or Absent
  changes,     \* how often the device changed
  registered,  \* the OLT is in OLTManager.olts
  clearing,    \* keys InvalidateOLT has still to delete
  list,        \* cached list, or None
  names,       \* cached names, or None
  pending,     \* ONUs configured over telnet, cache not yet invalidated
  acked,       \* ONUs provisioned, list invalidated since, that still exist
  pc, fresh, resp,     \* each request: its place, forceFresh, and the items
  late, must,          \* a fresh one joined a walk that read; ONUs there since it came
  flight, members,     \* the walk of singleflight and the requests waiting
  poll, npoll  \* each pollPON of the optical poller and of the names poller

reqVars == <<pc, fresh, resp, late, must>>
vars == <<dev, changes, registered, clearing, list, names, pending, acked,
          reqVars, flight, members, poll, npoll>>

-----------------------------------------------------------------------------
Items   == [Onu -> Name \cup {Absent, Blank}]
Nothing == [u \in Onu |-> Absent]
Tags    == SUBSET {"prov", "unreg"}
Entry   == [items : Items, tags : Tags]
Walk    == [step : {"none", "client", "lock", "status", "walk", "names", "merge",
                    "writeList", "writeNames"},
            items : Items, tags : Tags]
NoWalk  == [step |-> "none", items |-> Nothing, tags |-> {}]

Listed(items) == {u \in Onu : items[u] # Absent}
Present       == Listed(dev)

\* Walks that read, or have read, the status of the ONUs.
Reading == {"status", "names", "merge", "writeList", "writeNames"}
Incomplete(items) == \E u \in Onu : items[u] = Blank

TypeOK ==
  /\ dev \in [Onu -> Name \cup {Absent}]
  /\ changes \in 0..MaxChanges
  /\ registered \in BOOLEAN
  /\ clearing \subseteq {"list", "names"}
  /\ list \in Entry \cup {None} /\ names \in Entry \cup {None}
  /\ pending \subseteq Onu /\ acked \subseteq Onu
  /\ pc \in [Req -> {"idle", "cache", "merge", "do", "wait", "done"}]
  /\ fresh \in [Req -> BOOLEAN] /\ late \in [Req -> BOOLEAN]
  /\ resp \in [Req -> Items \cup {Err}]
  /\ must \in [Req -> SUBSET Onu]
  /\ flight \in Walk /\ members \subseteq Req
  /\ poll \in [Poll -> Walk] /\ npoll \in [NPoll -> Walk]

Init ==
  /\ dev \in [Onu -> Name \cup {Absent}]
  /\ changes = 0
  /\ registered = TRUE
  /\ clearing = {}
  /\ list = None /\ names = None
  /\ pending = {} /\ acked = {}
  /\ pc = [r \in Req |-> "idle"]
  /\ fresh = [r \in Req |-> FALSE] /\ late = [r \in Req |-> FALSE]
  /\ resp = [r \in Req |-> Nothing]
  /\ must = [r \in Req |-> {}]
  /\ flight = NoWalk /\ members = {}
  /\ poll = [o \in Poll |-> NoWalk] /\ npoll = [q \in NPoll |-> NoWalk]

-----------------------------------------------------------------------------
\* What a status walk finds; the ONUs have no names yet.
Found(onus) == [u \in Onu |-> IF u \in onus THEN Blank ELSE Absent]

\* The ONUs a status walk may have found when it ends, if begun were there when
\* it began.
Seen(begun) == {onus \in SUBSET Onu : /\ begun \cap Present \subseteq onus
                                      /\ onus \subseteq begun \cup Present}

-----------------------------------------------------------------------------
(* GetONUList: the cache, then singleflight.                               *)

\* mutant: forceFresh is not passed down
ReadsCacheAlways(f) == TRUE

ReadsCache(f) == ~f

Arrive(r, f) ==
  /\ pc[r] = "idle"
  /\ pc'    = [pc EXCEPT ![r] = IF ReadsCache(f) THEN "cache" ELSE "do"]
  /\ fresh' = [fresh EXCEPT ![r] = f]
  /\ must'  = [must EXCEPT ![r] = IF f THEN Present ELSE {}]
  /\ UNCHANGED <<dev, changes, registered, clearing, list, names, pending, acked,
                 resp, late, flight, members, poll, npoll>>

\* A complete list is the answer; one with a blank name goes to the names.  No
\* entry, or a Redis that fails, goes to the walk.
ReadList(r) ==
  /\ pc[r] = "cache"
  /\ \/ pc' = [pc EXCEPT ![r] = "do"] /\ UNCHANGED resp
     \/ /\ list # None
        /\ resp' = [resp EXCEPT ![r] = list.items]
        /\ pc' = [pc EXCEPT ![r] = IF Incomplete(list.items) THEN "merge" ELSE "done"]
  /\ UNCHANGED <<dev, changes, registered, clearing, list, names, pending, acked,
                 fresh, late, must, flight, members, poll, npoll>>

\* mutant: the list is made of the ONUs the names cache knows
NamedOnly(items, given) == [u \in Onu |-> IF u \in given THEN names.items[u] ELSE Absent]

\* The given ONUs get the names of the names cache, the others keep theirs.
WithNames(items, given) == [u \in Onu |-> IF u \in given THEN names.items[u] ELSE items[u]]

\* One entry of the names cache for a blank item, even a blank one, makes the
\* merged list the answer; otherwise, or if Redis fails, the request walks.
MergeNames(r) ==
  LET fill == {u \in Onu : resp[r][u] = Blank /\ names.items[u] # Absent} IN
  /\ pc[r] = "merge"
  /\ \/ /\ names # None
        /\ fill # {}
        /\ resp' = [resp EXCEPT ![r] = WithNames(@, fill)]
        /\ pc' = [pc EXCEPT ![r] = "done"]
     \/ UNCHANGED resp /\ pc' = [pc EXCEPT ![r] = "do"]
  /\ UNCHANGED <<dev, changes, registered, clearing, list, names, pending, acked,
                 fresh, late, must, flight, members, poll, npoll>>

\* singleflight.Do: lead a walk of this PON, or wait for the one under way.
Do(r) ==
  /\ pc[r] = "do"
  /\ pc'      = [pc EXCEPT ![r] = "wait"]
  /\ late'    = [late EXCEPT ![r] = fresh[r] /\ flight.step \in Reading]
  /\ flight'  = IF flight.step = "none" THEN [flight EXCEPT !.step = "client"] ELSE flight
  /\ members' = members \cup {r}
  /\ UNCHANGED <<dev, changes, registered, clearing, list, names, pending, acked,
                 fresh, resp, must, poll, npoll>>

\* The request is answered.
Reply(r) ==
  /\ pc[r] = "done"
  /\ pc'     = [pc EXCEPT ![r] = "idle"]
  /\ fresh'  = [fresh EXCEPT ![r] = FALSE]
  /\ late'   = [late EXCEPT ![r] = FALSE]
  /\ resp'   = [resp EXCEPT ![r] = Nothing]
  /\ must'   = [must EXCEPT ![r] = {}]
  /\ UNCHANGED <<dev, changes, registered, clearing, list, names, pending, acked,
                 flight, members, poll, npoll>>

-----------------------------------------------------------------------------
(* The function GetONUList gives to singleflight.                          *)

\* The function returns: everybody who waits gets its result.
Finish(result) ==
  /\ flight'  = NoWalk
  /\ members' = {}
  /\ pc'   = [r \in Req |-> IF r \in members THEN "done" ELSE pc[r]]
  /\ resp' = [r \in Req |-> IF r \in members THEN result ELSE resp[r]]
  /\ UNCHANGED <<list, names>>

Continue(step, items) ==
  /\ flight' = [flight EXCEPT !.step = step, !.items = items]
  /\ UNCHANGED <<pc, resp, members>>

OthersUnchanged == UNCHANGED <<dev, changes, registered, clearing, pending, acked,
                               fresh, late, must, poll, npoll>>

FlightClient ==
  /\ flight.step = "client"
  /\ \/ registered /\ Continue("lock", Nothing) /\ UNCHANGED <<list, names>>
     \/ ~registered /\ Finish(Err)
  /\ OthersUnchanged

\* The operation lock, with which the status walk begins, or the end of the
\* leader's context, for all of them.
FlightLock ==
  /\ flight.step = "lock"
  /\ \/ Continue("status", Found(Present)) /\ UNCHANGED <<list, names>>
     \/ Finish(Err)
  /\ OthersUnchanged

\* The status walk ends.  No ONUs at all is an answer too, which is not cached.
FlightStatus ==
  /\ flight.step = "status"
  /\ \/ Finish(Err)
     \/ \E onus \in Seen(Listed(flight.items)) :
          \/ onus = {} /\ Finish(Nothing)
          \/ onus # {} /\ Continue("names", Found(onus)) /\ UNCHANGED <<list, names>>
  /\ OthersUnchanged

\* The name walk; if it fails the names stay blank.  An ONU that appeared
\* since the status walk is added.
FlightNames ==
  /\ flight.step = "names"
  /\ \/ Continue("writeList",
                 [u \in Onu |-> IF u \in Present THEN dev[u] ELSE flight.items[u]])
     \/ Continue("writeList", flight.items)
  /\ UNCHANGED <<list, names>>
  /\ OthersUnchanged

\* Failures to write the cache are logged.
FlightWriteList ==
  /\ flight.step = "writeList"
  /\ Continue("writeNames", flight.items)
  /\ list' \in {list, [items |-> flight.items, tags |-> flight.tags]}
  /\ UNCHANGED names
  /\ OthersUnchanged

FlightWriteNames ==
  /\ flight.step = "writeNames"
  /\ flight' = NoWalk /\ members' = {}
  /\ pc'   = [r \in Req |-> IF r \in members THEN "done" ELSE pc[r]]
  /\ resp' = [r \in Req |-> IF r \in members THEN flight.items ELSE resp[r]]
  /\ names' \in {names, [items |-> flight.items, tags |-> flight.tags \ {"prov"}]}
  /\ UNCHANGED list
  /\ OthersUnchanged

-----------------------------------------------------------------------------
(* The pollers.  Both get their own client first, and walk much later.     *)

NotPollers == UNCHANGED <<dev, changes, registered, clearing, pending, acked,
                          reqVars, flight, members>>

OpticalStart(o) ==
  /\ poll[o].step = "none"
  /\ registered
  /\ poll' = [poll EXCEPT ![o].step = "walk"]
  /\ NotPollers /\ UNCHANGED <<list, names, npoll>>

\* The status walk of the PON begins, when the semaphore lets it.
OpticalBegin(o) ==
  /\ poll[o].step = "walk"
  /\ poll' = [poll EXCEPT ![o].step = "status", ![o].items = Found(Present)]
  /\ NotPollers /\ UNCHANGED <<list, names, npoll>>

\* It ends.  A failed or empty status walk caches nothing.
OpticalWalk(o) ==
  /\ poll[o].step = "status"
  /\ \/ poll' = [poll EXCEPT ![o] = NoWalk]
     \/ \E onus \in Seen(Listed(poll[o].items)) \ {{}} :
          poll' = [poll EXCEPT ![o].step = "merge", ![o].items = Found(onus)]
  /\ NotPollers /\ UNCHANGED <<list, names, npoll>>

\* The names the cache has, if Redis gives them.
OpticalMerge(o) ==
  LET named == {u \in Onu : /\ names # None
                            /\ poll[o].items[u] # Absent
                            /\ names.items[u] # Absent} IN
  /\ poll[o].step = "merge"
  /\ \E given \in {named, {}} :
       poll' = [poll EXCEPT ![o].step = "writeList", ![o].items = WithNames(@, given)]
  /\ NotPollers /\ UNCHANGED <<list, names, npoll>>

OpticalWrite(o) ==
  /\ poll[o].step = "writeList"
  /\ list' \in {list, [items |-> poll[o].items, tags |-> poll[o].tags]}
  /\ poll' = [poll EXCEPT ![o] = NoWalk]
  /\ NotPollers /\ UNCHANGED <<names, npoll>>

NamesStart(q) ==
  /\ npoll[q].step = "none"
  /\ registered
  /\ npoll' = [npoll EXCEPT ![q].step = "walk"]
  /\ NotPollers /\ UNCHANGED <<list, names, poll>>

\* A failed or empty name walk leaves the cached names as they are.
NamesWalk(q) ==
  /\ npoll[q].step = "walk"
  /\ \/ npoll' = [npoll EXCEPT ![q] = NoWalk]
     \/ /\ Present # {}
        /\ npoll' = [npoll EXCEPT ![q].step = "writeNames", ![q].items = dev]
  /\ NotPollers /\ UNCHANGED <<list, names, poll>>

NamesWrite(q) ==
  /\ npoll[q].step = "writeNames"
  /\ names' \in {names, [items |-> npoll[q].items, tags |-> npoll[q].tags]}
  /\ npoll' = [npoll EXCEPT ![q] = NoWalk]
  /\ NotPollers /\ UNCHANGED <<list, poll>>

-----------------------------------------------------------------------------
(* Changes of the device, invalidations, expiry.                           *)

Changed(u, n) ==
  /\ changes < MaxChanges
  /\ changes' = changes + 1
  /\ dev' = [dev EXCEPT ![u] = n]

\* Somebody else deletes, adds or renames an ONU on the OLT.
DeviceChange(u, n) ==
  /\ dev[u] # n
  /\ Changed(u, n)
  /\ acked' = IF n = Absent THEN acked \ {u} ELSE acked
  /\ must'  = [r \in Req |-> IF n = Absent THEN must[r] \ {u} ELSE must[r]]
  /\ UNCHANGED <<registered, clearing, list, names, pending, pc, fresh, resp, late,
                 flight, members, poll, npoll>>

\* ProvisionONU configures the ONU over telnet; only when all of it went
\* through does the handler go on to invalidate.
Provision(u, n) ==
  /\ registered
  /\ dev[u] = Absent
  /\ Changed(u, n)
  /\ pending' = pending \cup {u}
  /\ UNCHANGED <<registered, clearing, list, names, acked, reqVars,
                 flight, members, poll, npoll>>

Tagged(walk, tag, steps) ==
  IF walk.step \in steps THEN [walk EXCEPT !.tags = @ \cup {tag}] ELSE walk

\* mutant: InvalidateONUCache deletes the ONU's detail only
ListKept == list

ListDeleted == None

\* InvalidateONUCache deletes the list, not the names.  If Redis fails, or the
\* request's context has ended, the list stays and the failure is only logged.
InvalidateONUCache(u) ==
  /\ u \in pending
  /\ pending' = pending \ {u}
  /\ \/ /\ acked'   = IF dev[u] = Absent THEN acked ELSE acked \cup {u}
        /\ list'    = ListDeleted
        /\ flight'  = Tagged(flight, "prov", Reading)
        /\ poll'    = [o \in Poll |-> Tagged(poll[o], "prov", Reading)]
     \/ UNCHANGED <<acked, list, flight, poll>>
  /\ UNCHANGED <<dev, changes, registered, clearing, names, reqVars, members, npoll>>

\* mutant: the pattern of InvalidateOLT misses the names keys
KeysOfListOnly == {"list"}

KeysOfOlt == {"list", "names"}

\* Walks that have their client already.
Started == {"lock", "walk"} \cup Reading

\* UnregisterOLT: the OLT leaves the registry, then its keys are scanned and
\* deleted one by one; a Redis that fails leaves the rest in clearing.
UnregisterOLT ==
  /\ registered
  /\ registered' = FALSE
  /\ clearing'   = KeysOfOlt
  /\ flight'     = Tagged(flight, "unreg", Started)
  /\ poll'       = [o \in Poll |-> Tagged(poll[o], "unreg", Started)]
  /\ npoll'      = [q \in NPoll |-> Tagged(npoll[q], "unreg", Started)]
  /\ UNCHANGED <<dev, changes, list, names, pending, acked, reqVars, members>>

DeleteKey(k) ==
  /\ k \in clearing
  /\ clearing' = clearing \ {k}
  /\ IF k = "list" THEN list' = None /\ UNCHANGED names
                   ELSE names' = None /\ UNCHANGED list
  /\ UNCHANGED <<dev, changes, registered, pending, acked, reqVars,
                 flight, members, poll, npoll>>

ExpireList ==
  /\ list # None
  /\ list' = None
  /\ UNCHANGED <<dev, changes, registered, clearing, names, pending, acked, reqVars,
                 flight, members, poll, npoll>>

\* mutant: the names are stored without a time to live
NamesStay == FALSE

NamesHaveTTL == TRUE

ExpireNames ==
  /\ NamesHaveTTL
  /\ names # None
  /\ names' = None
  /\ UNCHANGED <<dev, changes, registered, clearing, list, pending, acked, reqVars,
                 flight, members, poll, npoll>>

-----------------------------------------------------------------------------
Request(r) == ReadList(r) \/ MergeNames(r) \/ Do(r) \/ Reply(r)

Flight == \/ FlightClient
          \/ FlightLock
          \/ FlightStatus
          \/ FlightNames
          \/ FlightWriteList
          \/ FlightWriteNames

OpticalPoll(o) == OpticalBegin(o) \/ OpticalWalk(o) \/ OpticalMerge(o) \/ OpticalWrite(o)

NamesPoll(q) == NamesWalk(q) \/ NamesWrite(q)

Next ==
  \/ \E r \in Req : Request(r) \/ \E f \in BOOLEAN : Arrive(r, f)
  \/ Flight
  \/ \E o \in Poll : OpticalStart(o) \/ OpticalPoll(o)
  \/ \E q \in NPoll : NamesStart(q) \/ NamesPoll(q)
  \/ \E u \in Onu, n \in Name \cup {Absent} : DeviceChange(u, n)
  \/ \E u \in Onu : InvalidateONUCache(u) \/ \E n \in Name : Provision(u, n)
  \/ UnregisterOLT
  \/ \E k \in clearing : DeleteKey(k)
  \/ ExpireList \/ ExpireNames

Spec == Init /\ [][Next]_vars

\* An entry expires unless it is stored anew before.
RenewList ==
  \/ ExpireList
  \/ FlightWriteList /\ list' # None /\ list'.items = flight.items
  \/ \E o \in Poll : OpticalWrite(o) /\ list' # None /\ list'.items = poll[o].items

RenewNames ==
  \/ ExpireNames
  \/ FlightWriteNames /\ names' # None /\ names'.items = flight.items
  \/ \E q \in NPoll : NamesWrite(q) /\ names' # None /\ names'.items = npoll[q].items

\* Redis expires what nobody stores anew.  Nothing obliges a poller to poll, a
\* client to ask or a walk to end: a stale walk that never ends stores nothing.
FairSpec == Spec /\ WF_vars(RenewList) /\ WF_vars(RenewNames)

-----------------------------------------------------------------------------
\* After a provisioning invalidated the list, the cached list has the new ONU,
\* unless a walk that had begun to read the ONUs before the invalidation stored
\* it after.
ListAfterProvision ==
  list # None /\ "prov" \notin list.tags => acked \subseteq Listed(list.items)

\* UnregisterOLT clears the OLT's cache: what is there once all keys are
\* deleted was stored by a walk or poll that had its client before.
UnregisterClears ==
  ~registered /\ clearing = {} =>
    \A entry \in {list, names} : entry # None => "unreg" \in entry.tags

\* A request with fresh=true misses no ONU that was on the device from its
\* arrival to its answer, unless it joined a walk that had begun to read the
\* ONUs: one that leads its walk, or joins one that still waits for the client
\* or the operation lock, gets all of them.
FreshUnlessLate ==
  \A r \in Req : pc[r] = "done" /\ fresh[r] /\ ~late[r] /\ resp[r] # Err =>
    must[r] \subseteq Listed(resp[r])

\* ONUs that are counted on are on the device.
CountedOnAreThere ==
  /\ acked \subseteq Present
  /\ \A r \in Req : must[r] \subseteq Present

\* Whoever waits is waiting for the walk that is under way.
WaitersAreMembers ==
  /\ members = {r \in Req : pc[r] = "wait"}
  /\ flight.step = "none" => members = {}

\* A fresh request does not read the cache; one that has names to merge has a
\* list for them.
CacheReadInOrder ==
  \A r \in Req : /\ fresh[r] => pc[r] \in {"do", "wait", "done"}
                 /\ pc[r] = "merge" => resp[r] \in Items

\* A walk that reads or has read has all of onus, for which no tag excuses it.
Sees(walk, onus) == walk.step \in Reading => onus \subseteq Listed(walk.items)

WalksSee ==
  /\ \A r \in Req : pc[r] = "wait" /\ fresh[r] /\ ~late[r] => Sees(flight, must[r])
  /\ "prov" \notin flight.tags => Sees(flight, acked)
  /\ \A o \in Poll : "prov" \notin poll[o].tags => Sees(poll[o], acked)

\* An OLT that is not registered has no walk or entry that does not show it,
\* but for the entries that are about to be deleted.
Outlived(walk) == walk.step \in Started => "unreg" \in walk.tags

Unregistered ==
  ~registered =>
    /\ Outlived(flight)
    /\ \A o \in Poll : Outlived(poll[o])
    /\ \A q \in NPoll : Outlived(npoll[q])
    /\ list # None /\ "list" \notin clearing => "unreg" \in list.tags
    /\ names # None /\ "names" \notin clearing => "unreg" \in names.tags

\* The inductive invariant.
IInv ==
  /\ TypeOK /\ CountedOnAreThere /\ WaitersAreMembers /\ CacheReadInOrder
  /\ WalksSee /\ Unregistered
  /\ ListAfterProvision /\ UnregisterClears /\ FreshUnlessLate

\* Once the device stays as it is, the cached list ends up right for ever: the
\* ONUs that are there, each with its name or a blank.
ListCurrent ==
  list # None => \A u \in Onu :
    list.items[u] \in IF dev[u] = Absent THEN {Absent} ELSE {dev[u], Blank}

EventuallyCurrent == <>[]ListCurrent
=============================================================================
