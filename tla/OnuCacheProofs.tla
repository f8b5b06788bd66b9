--------------------------- MODULE OnuCacheProofs ---------------------------
(***************************************************************************)
(* Theorems about OnuCache, for any ONUs, names, requests and polls and    *)
(* any number of changes of the device.                                    *)
(***************************************************************************)
EXTENDS OnuCache, TLAPS

\* What the walks find.
LEMMA ItemsFacts ==
  ASSUME TypeOK
  PROVE  /\ Nothing \in Items /\ NoWalk \in Walk
         /\ dev \in Items /\ Present \subseteq Onu
         /\ \A onus \in SUBSET Onu : Found(onus) \in Items /\ Listed(Found(onus)) = onus
<1>1. Nothing \in Items /\ dev \in Items /\ Present \subseteq Onu
  BY DEF TypeOK, Items, Nothing, Present, Listed
<1>2. NoWalk \in Walk
  BY <1>1 DEF NoWalk, Walk, Tags
<1>3. ASSUME NEW onus \in SUBSET Onu
      PROVE  Found(onus) \in Items /\ Listed(Found(onus)) = onus
  <2>1. Found(onus) \in Items
    BY DEF Found, Items
  <2>2. \A u \in Onu : Found(onus)[u] = Absent <=> u \notin onus
    BY OnuCacheAssumption DEF Found
  <2> QED
    BY <2>1, <2>2 DEF Listed
<1> QED
  BY <1>1, <1>2, <1>3

\* What a status walk has found when it ends has all that is counted on of what
\* was there when it began.
LEMMA SeenFacts ==
  ASSUME TypeOK, NEW begun \in SUBSET Onu, NEW onus \in Seen(begun)
  PROVE  onus \in SUBSET Onu /\ begun \cap Present \subseteq onus
BY DEF Seen

\* Names change no item that is listed into one that is not.
LEMMA WithNamesFacts ==
  ASSUME NEW items \in Items, NEW given \in SUBSET Onu,
         given # {} => names.items \in Items,
         \A u \in given : names.items[u] # Absent
  PROVE  /\ WithNames(items, given) \in Items
         /\ Listed(items) \subseteq Listed(WithNames(items, given))
BY DEF WithNames, Items, Listed

\* The fields of a walk and of an entry.
LEMMA WalkFacts ==
  /\ \A w \in Walk : w.items \in Items /\ w.tags \in Tags
  /\ \A e \in Entry : e.items \in Items /\ e.tags \in Tags
  /\ \A i \in Items, t \in Tags : [items |-> i, tags |-> t] \in Entry
BY DEF Walk, Entry

LEMMA InitIInv == Init => IInv
<1> SUFFICES ASSUME Init PROVE IInv
  OBVIOUS
<1> USE DEF Init
<1>1. TypeOK
  <2>1. Nothing \in Items /\ 0 \in 0 .. MaxChanges
    BY OnuCacheAssumption DEF Nothing, Items
  <2>2. NoWalk \in Walk
    BY <2>1 DEF NoWalk, Walk, Tags
  <2> QED
    BY <2>1, <2>2 DEF TypeOK
<1>2. CountedOnAreThere /\ WaitersAreMembers /\ CacheReadInOrder
  BY DEF CountedOnAreThere, WaitersAreMembers, CacheReadInOrder, NoWalk
<1>3. WalksSee /\ Unregistered
  BY DEF WalksSee, Sees, Reading, Unregistered, NoWalk
<1>4. ListAfterProvision /\ UnregisterClears /\ FreshUnlessLate
  BY DEF ListAfterProvision, UnregisterClears, FreshUnlessLate
<1> QED
  BY <1>1, <1>2, <1>3, <1>4 DEF IInv

\* Nothing but the registry, its keys and the walks matters to Unregistered.
LEMMA UnregisteredStays ==
  ASSUME Unregistered, UNCHANGED <<registered, clearing, list, names, poll, npoll>>,
         Outlived(flight) => Outlived(flight)', UnregisterClears
  PROVE  Unregistered' /\ UnregisterClears'
BY DEF Unregistered, UnregisterClears, Outlived

-----------------------------------------------------------------------------
(* The requests. *)

LEMMA ArriveIInv ==
  ASSUME IInv, NEW r \in Req, NEW f \in BOOLEAN, Arrive(r, f)
  PROVE  IInv'
<1> USE DEF IInv, Arrive
<1>1. TypeOK'
  BY DEF TypeOK, Present, Listed
<1>2. CountedOnAreThere' /\ WaitersAreMembers' /\ CacheReadInOrder'
  BY DEF TypeOK, CountedOnAreThere, Present, Listed, WaitersAreMembers, CacheReadInOrder, ReadsCache
<1>3. WalksSee'
  BY DEF TypeOK, WalksSee, Sees, Listed
<1>4. Unregistered' /\ UnregisterClears'
  BY UnregisteredStays DEF Outlived
<1>5. ListAfterProvision' /\ FreshUnlessLate'
  BY DEF TypeOK, ListAfterProvision, FreshUnlessLate, Listed
<1> QED
  BY <1>1, <1>2, <1>3, <1>4, <1>5

\* A request that has not gone for the walk reads the cache, and is not fresh.
LEMMA CachedIInv ==
  ASSUME IInv, NEW r \in Req, ReadList(r) \/ MergeNames(r)
  PROVE  IInv'
<1> USE DEF IInv
<1>1. /\ pc' \in [Req -> {"idle", "cache", "merge", "do", "wait", "done"}]
      /\ resp' \in [Req -> Items \cup {Err}]
      /\ \A q \in Req : q # r => pc'[q] = pc[q] /\ resp'[q] = resp[q]
      /\ pc'[r] \in {"do", "merge", "done"}
      /\ pc'[r] = "merge" => resp'[r] \in Items
  <2>1. CASE ReadList(r)
    BY <2>1, WalkFacts DEF TypeOK, ReadList
  <2>2. CASE MergeNames(r)
    <3>1. CASE pc' = [pc EXCEPT ![r] = "do"] /\ UNCHANGED resp
      BY <3>1 DEF TypeOK
    <3>2. CASE ~(pc' = [pc EXCEPT ![r] = "do"] /\ UNCHANGED resp)
      <4> DEFINE fill == {u \in Onu : resp[r][u] = Blank /\ names.items[u] # Absent}
      <4>1. /\ pc' = [pc EXCEPT ![r] = "done"]
            /\ resp' = [resp EXCEPT ![r] = WithNames(resp[r], fill)]
            /\ names # None /\ pc[r] = "merge"
        BY <2>2, <3>2 DEF MergeNames
      <4>2. resp[r] \in Items /\ names.items \in Items
        BY <4>1, WalkFacts DEF TypeOK, CacheReadInOrder
      <4>3. WithNames(resp[r], fill) \in Items
        BY <4>2, WithNamesFacts
      <4> QED
        BY <4>1, <4>3 DEF TypeOK
    <3> QED
      BY <3>1, <3>2
  <2> QED
    BY <2>1, <2>2
<1>2. /\ pc[r] \in {"cache", "merge"}
      /\ UNCHANGED <<dev, changes, registered, clearing, list, names, pending, acked,
                     fresh, late, must, flight, members, poll, npoll>>
  BY DEF ReadList, MergeNames
<1>3. TypeOK'
  BY <1>1, <1>2 DEF TypeOK
<1>4. CountedOnAreThere' /\ WaitersAreMembers'
  BY <1>1, <1>2 DEF TypeOK, CountedOnAreThere, Present, Listed, WaitersAreMembers
<1>5. CacheReadInOrder' /\ ~fresh[r]
  BY <1>1, <1>2 DEF TypeOK, CacheReadInOrder
<1>6. WalksSee'
  BY <1>1, <1>2, <1>5 DEF TypeOK, WalksSee, Sees, Listed
<1>7. Unregistered' /\ UnregisterClears'
  BY <1>2, UnregisteredStays DEF Outlived
<1>8. ListAfterProvision' /\ FreshUnlessLate'
  BY <1>1, <1>2, <1>5 DEF TypeOK, ListAfterProvision, FreshUnlessLate, Listed
<1> QED
  BY <1>3, <1>4, <1>5, <1>6, <1>7, <1>8

LEMMA ReplyIInv ==
  ASSUME IInv, NEW r \in Req, Reply(r)
  PROVE  IInv'
<1> USE DEF IInv, Reply
<1>1. TypeOK'
  BY ItemsFacts DEF TypeOK
<1>2. CountedOnAreThere' /\ WaitersAreMembers' /\ CacheReadInOrder'
  BY DEF TypeOK, CountedOnAreThere, Present, Listed, WaitersAreMembers, CacheReadInOrder
<1>3. WalksSee'
  BY DEF TypeOK, WalksSee, Sees, Listed
<1>4. Unregistered' /\ UnregisterClears'
  BY UnregisteredStays DEF Outlived
<1>5. ListAfterProvision' /\ FreshUnlessLate'
  BY DEF TypeOK, ListAfterProvision, FreshUnlessLate, Listed
<1> QED
  BY <1>1, <1>2, <1>3, <1>4, <1>5

\* A request that leads a walk, or joins one that does not read yet, does so
\* before the walk reads the ONUs.
LEMMA DoIInv ==
  ASSUME IInv, NEW r \in Req, Do(r)
  PROVE  IInv'
<1> USE DEF IInv, Do
<1>1. /\ flight'.items = flight.items /\ flight'.tags = flight.tags
      /\ flight'.step = IF flight.step = "none" THEN "client" ELSE flight.step
      /\ flight' \in Walk
  BY DEF TypeOK, Walk
<1>2. TypeOK'
  <2>1. late' \in [Req -> BOOLEAN]
    BY DEF TypeOK
  <2> QED
    BY <1>1, <2>1 DEF TypeOK
<1>3. CountedOnAreThere' /\ CacheReadInOrder'
  BY DEF TypeOK, CountedOnAreThere, Present, Listed, CacheReadInOrder
<1>4. WaitersAreMembers'
  BY <1>1 DEF TypeOK, WaitersAreMembers
<1>5. WalksSee'
  <2>1. \A onus : Sees(flight, onus) => Sees(flight', onus)
    BY <1>1 DEF Sees, Reading
  <2>2. flight.step \notin Reading => \A onus : Sees(flight', onus)
    BY <1>1 DEF Sees, Reading
  <2>3. \A q \in Req : pc'[q] = "wait" /\ fresh[q] /\ ~late'[q] =>
          flight.step \notin Reading \/ (q # r /\ pc[q] = "wait" /\ ~late[q])
    BY DEF TypeOK
  <2> QED
    BY <1>1, <2>1, <2>2, <2>3 DEF WalksSee
<1>6. Unregistered' /\ UnregisterClears'
  BY <1>1, UnregisteredStays DEF Outlived, Started, Reading
<1>7. ListAfterProvision' /\ FreshUnlessLate'
  BY DEF TypeOK, ListAfterProvision, FreshUnlessLate, Listed
<1> QED
  BY <1>2, <1>3, <1>4, <1>5, <1>6, <1>7

-----------------------------------------------------------------------------
(* The walk of singleflight. *)

\* The walk goes on; once it reads, it has what was there and is there yet.
LEMMA ContinueIInv ==
  ASSUME IInv, NEW step \in {"lock", "status", "names", "writeList", "writeNames"},
         NEW items \in Items, flight.step # "none",
         Continue(step, items), OthersUnchanged, UNCHANGED names,
         list' \in {list, [items |-> flight.items, tags |-> flight.tags]},
         list' # list => flight.step \in Reading,
         step \in Reading =>
           \/ Present \subseteq Listed(items)
           \/ flight.step \in Reading /\ Listed(flight.items) \cap Present \subseteq Listed(items),
         flight.step \in Started \/ registered
  PROVE  IInv'
<1> USE DEF IInv, Continue, OthersUnchanged
<1>1. /\ flight'.step = step /\ flight'.items = items /\ flight'.tags = flight.tags
      /\ flight' \in Walk
  BY DEF TypeOK, Walk
<1>2. list' \in Entry \cup {None}
  BY WalkFacts DEF TypeOK
<1>3. TypeOK'
  BY <1>1, <1>2 DEF TypeOK
<1>4. CountedOnAreThere' /\ CacheReadInOrder' /\ WaitersAreMembers'
  BY <1>1 DEF CountedOnAreThere, Present, Listed, CacheReadInOrder, WaitersAreMembers
<1>5. ASSUME NEW onus, onus \subseteq Present, Sees(flight, onus)
      PROVE  Sees(flight', onus)
  BY <1>1, <1>5 DEF Sees
<1>6. WalksSee'
  BY <1>1, <1>5 DEF WalksSee, CountedOnAreThere
<1>7. ~registered => flight.step \in Started /\ "unreg" \in flight.tags
  BY DEF Unregistered, Outlived
<1>8. Unregistered' /\ UnregisterClears'
  <2>1. ~registered /\ list' # None /\ "list" \notin clearing => "unreg" \in list'.tags
    BY <1>7 DEF Unregistered
  <2>2. ~registered => Outlived(flight')
    BY <1>1, <1>7 DEF Outlived
  <2>3. Unregistered'
    BY <2>1, <2>2 DEF Unregistered, Outlived
  <2> QED
    BY <2>3 DEF Unregistered, UnregisterClears
<1>9. ListAfterProvision'
  BY DEF ListAfterProvision, WalksSee, Sees, Listed
<1>10. FreshUnlessLate'
  BY DEF FreshUnlessLate, Listed
<1> QED
  BY <1>3, <1>4, <1>6, <1>8, <1>9, <1>10

\* The walk ends, with a result that lists what its leader has seen.
LEMMA FinishIInv ==
  ASSUME IInv, NEW result \in Items \cup {Err}, OthersUnchanged, UNCHANGED list,
         \A r \in members : fresh[r] /\ ~late[r] /\ result # Err => must[r] \subseteq Listed(result),
         flight' = NoWalk, members' = {},
         pc' = [r \in Req |-> IF r \in members THEN "done" ELSE pc[r]],
         resp' = [r \in Req |-> IF r \in members THEN result ELSE resp[r]],
         names' \in {names, [items |-> flight.items, tags |-> flight.tags \ {"prov"}]},
         names' # names => flight.step \in Started
  PROVE  IInv'
<1> USE DEF IInv, OthersUnchanged
<1>1. flight'.step = "none" /\ flight' \in Walk
  BY ItemsFacts DEF NoWalk
<1>2. names' \in Entry \cup {None}
  <2>1. flight.tags \ {"prov"} \in Tags
    BY WalkFacts DEF TypeOK, Tags
  <2>2. flight.items \in Items /\ names \in Entry \cup {None}
    BY WalkFacts DEF TypeOK
  <2> QED
    BY <2>1, <2>2, WalkFacts
<1>3. TypeOK'
  BY <1>1, <1>2 DEF TypeOK
<1>4. CountedOnAreThere' /\ CacheReadInOrder' /\ WaitersAreMembers'
  BY <1>1 DEF TypeOK, CountedOnAreThere, Present, Listed, CacheReadInOrder, WaitersAreMembers
<1>5. WalksSee'
  BY <1>1 DEF TypeOK, WalksSee, Sees, Reading, Listed
<1>6. Unregistered'
  <2>1. ~registered /\ names' # None /\ "names" \notin clearing => "unreg" \in names'.tags
    BY DEF Unregistered, Outlived
  <2> QED
    BY <1>1, <2>1 DEF Unregistered, Outlived, Started, Reading
<1>7. UnregisterClears'
  BY <1>6 DEF Unregistered, UnregisterClears
<1>8. ListAfterProvision' /\ FreshUnlessLate'
  BY DEF TypeOK, ListAfterProvision, FreshUnlessLate, Listed
<1> QED
  BY <1>3, <1>4, <1>5, <1>6, <1>7, <1>8

LEMMA FlightIInv ==
  ASSUME IInv, Flight
  PROVE  IInv'
<1> USE ItemsFacts DEF IInv
<1>1. flight \in Walk /\ flight.items \in Items
  BY DEF TypeOK, Walk
<1>2. \A r \in members : pc[r] = "wait"
  BY DEF WaitersAreMembers
<1>3. CASE FlightClient
  BY <1>3, ContinueIInv, FinishIInv DEF FlightClient, Finish, Reading
<1>4. CASE FlightLock
  <2>1. CASE Continue("status", Found(Present)) /\ UNCHANGED <<list, names>>
    BY <1>4, <2>1, ContinueIInv DEF FlightLock, Started
  <2>2. CASE Finish(Err)
    BY <1>4, <2>2, FinishIInv DEF FlightLock, Finish
  <2> QED
    BY <1>4, <2>1, <2>2 DEF FlightLock
<1>5. CASE FlightStatus
  <2>1. CASE Finish(Err)
    BY <1>5, <2>1, FinishIInv DEF FlightStatus, Finish
  <2>2. CASE ~Finish(Err)
    <3>1. PICK onus \in Seen(Listed(flight.items)) :
            \/ onus = {} /\ Finish(Nothing)
            \/ onus # {} /\ Continue("names", Found(onus)) /\ UNCHANGED <<list, names>>
      BY <1>5, <2>2 DEF FlightStatus
    <3>2. onus \in SUBSET Onu /\ Listed(flight.items) \cap Present \subseteq onus
      BY <3>1, SeenFacts DEF Listed
    <3>3. CASE onus = {} /\ Finish(Nothing)
      <4>1. \A r \in members : fresh[r] /\ ~late[r] => must[r] \subseteq Listed(flight.items)
        BY <1>2, <1>5 DEF FlightStatus, WaitersAreMembers, WalksSee, Sees, Reading
      <4>2. \A r \in members : must[r] \subseteq Present
        BY DEF WaitersAreMembers, CountedOnAreThere
      <4>3. \A r \in members : fresh[r] /\ ~late[r] => must[r] \subseteq Listed(Nothing)
        BY <3>2, <3>3, <4>1, <4>2
      <4> QED
        BY <1>5, <3>3, <4>3, FinishIInv DEF FlightStatus, Finish
    <3>4. CASE onus # {} /\ Continue("names", Found(onus)) /\ UNCHANGED <<list, names>>
      <4>1. Found(onus) \in Items /\ Listed(flight.items) \cap Present \subseteq Listed(Found(onus))
        BY <3>2
      <4> QED
        BY <1>5, <3>4, <4>1, ContinueIInv DEF FlightStatus, Started, Reading
    <3> QED
      BY <3>1, <3>3, <3>4
  <2> QED
    BY <2>1, <2>2
<1>6. CASE FlightNames
  <2> DEFINE named == [u \in Onu |-> IF u \in Present THEN dev[u] ELSE flight.items[u]]
  <2>1. named \in Items /\ Listed(flight.items) \subseteq Listed(named)
    BY <1>1 DEF Items, Listed, Present
  <2>2. PICK items \in {named, flight.items} : Continue("writeList", items)
    BY <1>6 DEF FlightNames
  <2>3. items \in Items /\ Listed(flight.items) \subseteq Listed(items)
    BY <1>1, <2>1
  <2> QED
    BY <1>6, <2>2, <2>3, ContinueIInv DEF FlightNames, Reading, Started
<1>7. CASE FlightWriteList
  BY <1>1, <1>7, ContinueIInv DEF FlightWriteList, Reading, Started
<1>8. CASE FlightWriteNames
  <2>1. \A r \in members : fresh[r] /\ ~late[r] => must[r] \subseteq Listed(flight.items)
    BY <1>2, <1>8 DEF FlightWriteNames, TypeOK, WalksSee, Sees, Reading
  <2> QED
    BY <1>1, <1>8, <2>1, FinishIInv DEF FlightWriteNames, Reading, Started
<1> QED
  BY <1>3, <1>4, <1>5, <1>6, <1>7, <1>8 DEF Flight

-----------------------------------------------------------------------------
(* The pollers. *)

\* A step of one optical poll: what it walks and stores lists the ONUs counted
\* on, and is tagged if the OLT is not registered.
LEMMA OpticalIInv ==
  ASSUME IInv, NEW o \in Poll, NotPollers, UNCHANGED <<names, npoll>>,
         poll' \in [Poll -> Walk], \A p \in Poll : p # o => poll'[p] = poll[p],
         list' \in {list, [items |-> poll[o].items, tags |-> poll[o].tags]},
         list' # list => poll[o].step \in Reading,
         "prov" \notin poll'[o].tags => Sees(poll'[o], acked),
         ~registered => Outlived(poll'[o])
  PROVE  IInv'
<1> USE DEF IInv, NotPollers, reqVars
<1>1. list' \in Entry \cup {None}
  <2>1. poll[o].items \in Items /\ poll[o].tags \in Tags /\ list \in Entry \cup {None}
    BY WalkFacts DEF TypeOK
  <2> QED
    BY <2>1, WalkFacts
<1>2. TypeOK'
  BY <1>1 DEF TypeOK
<1>3. CountedOnAreThere' /\ CacheReadInOrder' /\ WaitersAreMembers' /\ FreshUnlessLate'
  BY DEF CountedOnAreThere, Present, Listed, CacheReadInOrder, WaitersAreMembers, FreshUnlessLate
<1>4. WalksSee'
  BY DEF WalksSee, Sees, Listed
<1>5. Unregistered'
  <2>1. ~registered /\ list' # None /\ "list" \notin clearing => "unreg" \in list'.tags
    BY DEF Unregistered, Outlived, Started
  <2> QED
    BY <2>1 DEF Unregistered, Outlived
<1>6. UnregisterClears'
  BY <1>5 DEF Unregistered, UnregisterClears
<1>7. ListAfterProvision'
  BY DEF ListAfterProvision, WalksSee, Sees, Listed
<1> QED
  BY <1>2, <1>3, <1>4, <1>5, <1>6, <1>7

LEMMA PollIInv ==
  ASSUME IInv, NEW o \in Poll, OpticalStart(o) \/ OpticalPoll(o)
  PROVE  IInv'
<1> USE DEF IInv
<1>1. poll[o] \in Walk
  BY DEF TypeOK
<1>2. CASE OpticalStart(o)
  <2>1. poll'[o].step = "walk" /\ poll'[o] \in Walk
    BY <1>1, <1>2 DEF OpticalStart, TypeOK, Walk
  <2>2. poll' \in [Poll -> Walk]
    BY <1>2, <2>1 DEF OpticalStart, TypeOK
  <2> QED
    BY <1>2, <2>1, <2>2, OpticalIInv DEF OpticalStart, Sees, Reading
<1>3. CASE OpticalBegin(o)
  <2>1. Found(Present) \in Items /\ Listed(Found(Present)) = Present
    BY ItemsFacts
  <2>2. poll' = [poll EXCEPT ![o].step = "status", ![o].items = Found(Present)]
    BY <1>3 DEF OpticalBegin
  <2>3. /\ poll'[o].items = Found(Present) /\ poll'[o].tags = poll[o].tags
        /\ poll'[o] \in Walk
    BY <1>1, <2>1, <2>2 DEF TypeOK, Walk
  <2>4. poll' \in [Poll -> Walk]
    BY <2>2, <2>3 DEF TypeOK
  <2>5. Sees(poll'[o], acked)
    BY <2>1, <2>3 DEF Sees, CountedOnAreThere
  <2>6. ~registered => Outlived(poll'[o])
    BY <1>3, <2>3 DEF OpticalBegin, Unregistered, Outlived, Started
  <2> QED
    BY <1>3, <2>2, <2>4, <2>5, <2>6, OpticalIInv DEF OpticalBegin
<1>4. CASE OpticalWalk(o)
  <2>1. CASE poll' = [poll EXCEPT ![o] = NoWalk]
    <3>1. poll' \in [Poll -> Walk] /\ poll'[o].step = "none"
      BY <2>1, ItemsFacts DEF TypeOK, NoWalk
    <3> QED
      BY <1>4, <2>1, <3>1, OpticalIInv DEF OpticalWalk, Sees, Outlived, Started, Reading
  <2>2. CASE poll' # [poll EXCEPT ![o] = NoWalk]
    <3>1. PICK onus \in Seen(Listed(poll[o].items)) :
            poll' = [poll EXCEPT ![o].step = "merge", ![o].items = Found(onus)]
      BY <1>4, <2>2 DEF OpticalWalk
    <3>2. onus \in SUBSET Onu /\ Listed(poll[o].items) \cap Present \subseteq onus
      BY <3>1, SeenFacts DEF Listed
    <3>3. Found(onus) \in Items /\ Listed(Found(onus)) = onus
      BY <3>2, ItemsFacts
    <3>4. /\ poll'[o].items = Found(onus) /\ poll'[o].tags = poll[o].tags
          /\ poll'[o] \in Walk
      BY <1>1, <3>1, <3>3 DEF TypeOK, Walk
    <3>5. poll' \in [Poll -> Walk]
      BY <3>1, <3>4 DEF TypeOK
    <3>6. "prov" \notin poll'[o].tags => Sees(poll'[o], acked)
      BY <1>4, <3>2, <3>3, <3>4 DEF OpticalWalk, WalksSee, Sees, Reading, CountedOnAreThere
    <3>7. ~registered => Outlived(poll'[o])
      BY <1>4, <3>4 DEF OpticalWalk, Unregistered, Outlived, Started, Reading
    <3> QED
      BY <1>4, <3>1, <3>5, <3>6, <3>7, OpticalIInv DEF OpticalWalk
  <2> QED
    BY <2>1, <2>2
<1>5. CASE OpticalMerge(o)
  <2> DEFINE named    == {u \in Onu : /\ names # None
                                      /\ poll[o].items[u] # Absent
                                      /\ names.items[u] # Absent}
  <2>1. PICK given \in {named, {}} :
          poll' = [poll EXCEPT ![o].step = "writeList",
                               ![o].items = WithNames(poll[o].items, given)]
    BY <1>5 DEF OpticalMerge
  <2>2. poll[o].items \in Items /\ (names # None => names.items \in Items)
    BY WalkFacts DEF TypeOK
  <2>3. /\ WithNames(poll[o].items, given) \in Items
        /\ Listed(poll[o].items) \subseteq Listed(WithNames(poll[o].items, given))
    <3>1. /\ given \in SUBSET Onu /\ given # {} => names.items \in Items
          /\ \A u \in given : names.items[u] # Absent
      BY <2>2
    <3> QED
      BY <2>2, <3>1, WithNamesFacts
  <2>4. /\ poll'[o].items = WithNames(poll[o].items, given) /\ poll'[o].tags = poll[o].tags
        /\ poll'[o] \in Walk
    BY <1>1, <2>1, <2>3 DEF TypeOK, Walk
  <2>5. poll' \in [Poll -> Walk]
    BY <2>1, <2>4 DEF TypeOK
  <2>6. "prov" \notin poll'[o].tags => Sees(poll'[o], acked)
    BY <1>5, <2>3, <2>4 DEF OpticalMerge, WalksSee, Sees, Reading
  <2>7. ~registered => Outlived(poll'[o])
    BY <1>5, <2>4 DEF OpticalMerge, Unregistered, Outlived, Started, Reading
  <2> QED
    BY <1>5, <2>1, <2>5, <2>6, <2>7, OpticalIInv DEF OpticalMerge
<1>6. CASE OpticalWrite(o)
  <2>1. poll' \in [Poll -> Walk] /\ poll'[o].step = "none"
    BY <1>6, ItemsFacts DEF OpticalWrite, TypeOK, NoWalk
  <2> QED
    BY <1>6, <2>1, OpticalIInv DEF OpticalWrite, Sees, Outlived, Started, Reading
<1> QED
  BY <1>2, <1>3, <1>4, <1>5, <1>6 DEF OpticalPoll

\* A step of one names poll, in the same way; what it stores is not a list.
LEMMA NPollIInv ==
  ASSUME IInv, NEW q \in NPoll, NotPollers, UNCHANGED <<list, poll>>,
         npoll' \in [NPoll -> Walk], \A p \in NPoll : p # q => npoll'[p] = npoll[p],
         names' \in {names, [items |-> npoll[q].items, tags |-> npoll[q].tags]},
         names' # names => npoll[q].step \in Reading,
         ~registered => Outlived(npoll'[q])
  PROVE  IInv'
<1> USE DEF IInv, NotPollers, reqVars
<1>1. names' \in Entry \cup {None}
  <2>1. npoll[q].items \in Items /\ npoll[q].tags \in Tags /\ names \in Entry \cup {None}
    BY WalkFacts DEF TypeOK
  <2> QED
    BY <2>1, WalkFacts
<1>2. TypeOK'
  BY <1>1 DEF TypeOK
<1>3. CountedOnAreThere' /\ CacheReadInOrder' /\ WaitersAreMembers' /\ FreshUnlessLate'
  BY DEF CountedOnAreThere, Present, Listed, CacheReadInOrder, WaitersAreMembers, FreshUnlessLate
<1>4. WalksSee' /\ ListAfterProvision'
  BY DEF WalksSee, Sees, Listed, ListAfterProvision
<1>5. Unregistered'
  <2>1. ~registered /\ names' # None /\ "names" \notin clearing => "unreg" \in names'.tags
    BY DEF Unregistered, Outlived, Started, Reading
  <2> QED
    BY <2>1 DEF Unregistered, Outlived
<1>6. UnregisterClears'
  BY <1>5 DEF Unregistered, UnregisterClears
<1> QED
  BY <1>2, <1>3, <1>4, <1>5, <1>6

LEMMA NamesPollIInv ==
  ASSUME IInv, NEW q \in NPoll, NamesStart(q) \/ NamesPoll(q)
  PROVE  IInv'
<1> USE DEF IInv
<1>1. NotPollers /\ UNCHANGED <<list, poll>>
  BY DEF NamesStart, NamesPoll, NamesWalk, NamesWrite
<1>2. npoll[q] \in Walk
  BY DEF TypeOK
<1>3. CASE NamesStart(q)
  <2>1. npoll'[q] \in Walk
    BY <1>2, <1>3 DEF NamesStart, TypeOK, Walk
  <2>2. npoll' \in [NPoll -> Walk]
    BY <1>3, <2>1 DEF NamesStart, TypeOK
  <2> QED
    BY <1>1, <1>3, <2>2, NPollIInv DEF NamesStart
<1>4. CASE NamesWalk(q)
  <2>1. CASE npoll' = [npoll EXCEPT ![q] = NoWalk]
    <3>1. npoll' \in [NPoll -> Walk] /\ npoll'[q].step = "none"
      BY <2>1, ItemsFacts DEF TypeOK, NoWalk
    <3> QED
      BY <1>1, <1>4, <2>1, <3>1, NPollIInv DEF NamesWalk, Outlived, Started, Reading
  <2>2. CASE npoll' = [npoll EXCEPT ![q].step = "writeNames", ![q].items = dev]
    <3>1. npoll'[q] \in Walk /\ npoll'[q].tags = npoll[q].tags
      BY <1>2, <2>2, ItemsFacts DEF TypeOK, Walk
    <3>2. npoll' \in [NPoll -> Walk]
      BY <2>2, <3>1 DEF TypeOK
    <3>3. ~registered => Outlived(npoll'[q])
      BY <1>4, <3>1 DEF NamesWalk, Unregistered, Outlived, Started
    <3> QED
      BY <1>1, <1>4, <2>2, <3>2, <3>3, NPollIInv DEF NamesWalk
  <2> QED
    BY <1>4, <2>1, <2>2 DEF NamesWalk
<1>5. CASE NamesWrite(q)
  <2>1. npoll' \in [NPoll -> Walk] /\ npoll'[q].step = "none"
    BY <1>5, ItemsFacts DEF NamesWrite, TypeOK, NoWalk
  <2> QED
    BY <1>1, <1>5, <2>1, NPollIInv DEF NamesWrite, Outlived, Started, Reading
<1> QED
  BY <1>3, <1>4, <1>5 DEF NamesPoll

-----------------------------------------------------------------------------
(* Changes of the device, invalidations, expiry. *)

\* A change of the device takes an ONU that goes out of all that is counted on.
LEMMA DeviceIInv ==
  ASSUME IInv, NEW u \in Onu, NEW n \in Name \cup {Absent},
         DeviceChange(u, n) \/ (n \in Name /\ Provision(u, n))
  PROVE  IInv'
<1> USE DEF IInv
<1>1. /\ dev' = [dev EXCEPT ![u] = n] /\ changes' \in 0 .. MaxChanges
      /\ pending' \subseteq Onu
      /\ UNCHANGED <<registered, clearing, list, names, pc, fresh, resp, late,
                     flight, members, poll, npoll>>
  BY OnuCacheAssumption DEF DeviceChange, Provision, Changed, reqVars, TypeOK
<1>2. /\ acked' \subseteq IF n = Absent THEN acked \ {u} ELSE acked
      /\ must' \in [Req -> SUBSET Onu]
      /\ \A r \in Req : must'[r] \subseteq IF n = Absent THEN must[r] \ {u} ELSE must[r]
  BY OnuCacheAssumption DEF DeviceChange, Provision, reqVars, TypeOK
<1>3. TypeOK'
  BY <1>1, <1>2 DEF TypeOK
<1>4. CountedOnAreThere'
  BY <1>1, <1>2 DEF TypeOK, CountedOnAreThere, Present, Listed
<1>5. CacheReadInOrder' /\ WaitersAreMembers'
  BY <1>1 DEF CacheReadInOrder, WaitersAreMembers
<1>6. acked' \subseteq acked /\ \A r \in Req : must'[r] \subseteq must[r]
  BY <1>2
<1>7. WalksSee' /\ ListAfterProvision' /\ FreshUnlessLate'
  BY <1>1, <1>6 DEF WalksSee, Sees, Listed, ListAfterProvision, FreshUnlessLate
<1>8. Unregistered' /\ UnregisterClears'
  BY <1>1, UnregisteredStays DEF Outlived
<1> QED
  BY <1>3, <1>4, <1>5, <1>7, <1>8

\* What a tag changes of a walk.
LEMMA TaggedFacts ==
  ASSUME NEW walk \in Walk, NEW tag \in {"prov", "unreg"}, NEW steps
  PROVE  /\ Tagged(walk, tag, steps) \in Walk
         /\ Tagged(walk, tag, steps).step = walk.step
         /\ Tagged(walk, tag, steps).items = walk.items
         /\ walk.tags \subseteq Tagged(walk, tag, steps).tags
         /\ walk.step \in steps => tag \in Tagged(walk, tag, steps).tags
<1>1. walk.tags \cup {tag} \in Tags
  BY DEF Walk, Tags
<1>2. CASE walk.step \notin steps
  BY <1>2 DEF Tagged
<1>3. CASE walk.step \in steps
  <2>1. Tagged(walk, tag, steps) = [walk EXCEPT !.tags = walk.tags \cup {tag}]
    BY <1>3 DEF Tagged
  <2> QED
    BY <1>1, <2>1 DEF Walk
<1> QED
  BY <1>2, <1>3

\* After an invalidation there is no list, and walks that read are tagged.
LEMMA InvalidateIInv ==
  ASSUME IInv, NEW u \in Onu, InvalidateONUCache(u)
  PROVE  IInv'
<1> USE DEF IInv, reqVars
<1>1. /\ UNCHANGED <<dev, changes, registered, clearing, names, reqVars, members, npoll>>
      /\ pending' \subseteq Onu
  BY DEF InvalidateONUCache, TypeOK
<1>2. flight \in Walk /\ \A o \in Poll : poll[o] \in Walk
  BY DEF TypeOK
<1>3. CASE UNCHANGED <<acked, list, flight, poll>>
  <2>1. TypeOK'
    BY <1>1, <1>3 DEF TypeOK
  <2>2. CountedOnAreThere' /\ CacheReadInOrder' /\ WaitersAreMembers'
    BY <1>1, <1>3 DEF CountedOnAreThere, Present, Listed, CacheReadInOrder, WaitersAreMembers
  <2>3. WalksSee' /\ ListAfterProvision' /\ FreshUnlessLate'
    BY <1>1, <1>3 DEF WalksSee, Sees, Listed, ListAfterProvision, FreshUnlessLate
  <2>4. Unregistered' /\ UnregisterClears'
    BY <1>1, <1>3, UnregisteredStays DEF Outlived
  <2> QED
    BY <2>1, <2>2, <2>3, <2>4
<1>4. CASE /\ acked' = IF dev[u] = Absent THEN acked ELSE acked \cup {u}
           /\ list' = ListDeleted
           /\ flight' = Tagged(flight, "prov", Reading)
           /\ poll' = [o \in Poll |-> Tagged(poll[o], "prov", Reading)]
  <2>1. list' = None
    BY <1>4 DEF ListDeleted
  <2>2. /\ flight' \in Walk /\ flight'.step = flight.step /\ flight'.items = flight.items
        /\ flight.tags \subseteq flight'.tags
        /\ flight.step \in Reading => "prov" \in flight'.tags
    BY <1>2, <1>4, TaggedFacts
  <2>3. \A o \in Poll :
          /\ poll'[o] \in Walk /\ poll'[o].step = poll[o].step /\ poll'[o].items = poll[o].items
          /\ poll[o].tags \subseteq poll'[o].tags
          /\ poll[o].step \in Reading => "prov" \in poll'[o].tags
    BY <1>2, <1>4, TaggedFacts
  <2>4. TypeOK'
    BY <1>1, <1>4, <2>1, <2>2, <2>3 DEF TypeOK
  <2>5. CountedOnAreThere' /\ CacheReadInOrder' /\ WaitersAreMembers'
    BY <1>1, <1>4, <2>2 DEF CountedOnAreThere, Present, Listed, CacheReadInOrder, WaitersAreMembers
  <2>6. WalksSee' /\ ListAfterProvision' /\ FreshUnlessLate'
    BY <1>1, <2>1, <2>2, <2>3 DEF WalksSee, Sees, Listed, ListAfterProvision, FreshUnlessLate
  <2>7. Unregistered'
    BY <1>1, <2>1, <2>2, <2>3 DEF Unregistered, Outlived
  <2>8. UnregisterClears'
    BY <2>7 DEF Unregistered, UnregisterClears
  <2> QED
    BY <2>4, <2>5, <2>6, <2>7, <2>8
<1> QED
  BY <1>3, <1>4 DEF InvalidateONUCache

\* When an OLT is unregistered all its keys are to be cleared, and its walks
\* are tagged.
LEMMA UnregisterIInv ==
  ASSUME IInv, UnregisterOLT
  PROVE  IInv'
<1> USE DEF IInv, UnregisterOLT, reqVars
<1>1. flight \in Walk /\ (\A o \in Poll : poll[o] \in Walk) /\ \A q \in NPoll : npoll[q] \in Walk
  BY DEF TypeOK
<1>2. /\ flight' \in Walk /\ flight'.step = flight.step /\ flight'.items = flight.items
      /\ flight.tags \subseteq flight'.tags
      /\ flight.step \in Started => "unreg" \in flight'.tags
  BY <1>1, TaggedFacts
<1>3. \A o \in Poll :
        /\ poll'[o] \in Walk /\ poll'[o].step = poll[o].step /\ poll'[o].items = poll[o].items
        /\ poll[o].tags \subseteq poll'[o].tags
        /\ poll[o].step \in Started => "unreg" \in poll'[o].tags
  BY <1>1, TaggedFacts
<1>4. \A q \in NPoll :
        /\ npoll'[q] \in Walk /\ npoll'[q].step = npoll[q].step
        /\ npoll[q].step \in Started => "unreg" \in npoll'[q].tags
  BY <1>1, TaggedFacts
<1>5. TypeOK'
  BY <1>2, <1>3, <1>4 DEF TypeOK, KeysOfOlt
<1>6. CountedOnAreThere' /\ CacheReadInOrder' /\ WaitersAreMembers'
  BY <1>2 DEF CountedOnAreThere, Present, Listed, CacheReadInOrder, WaitersAreMembers
<1>7. WalksSee' /\ ListAfterProvision' /\ FreshUnlessLate'
  BY <1>2, <1>3 DEF WalksSee, Sees, Listed, ListAfterProvision, FreshUnlessLate
<1>8. Unregistered' /\ UnregisterClears'
  BY <1>2, <1>3, <1>4 DEF Unregistered, UnregisterClears, Outlived, KeysOfOlt
<1> QED
  BY <1>5, <1>6, <1>7, <1>8

\* An entry that goes, deleted or expired.
LEMMA GoneIInv ==
  ASSUME IInv, (\E k \in clearing : DeleteKey(k)) \/ ExpireList \/ ExpireNames
  PROVE  IInv'
<1> USE DEF IInv, reqVars
<1>1. /\ list' \in {list, None} /\ names' \in {names, None}
      /\ clearing' \subseteq clearing
      /\ "list" \in clearing \ clearing' => list' = None
      /\ "names" \in clearing \ clearing' => names' = None
      /\ UNCHANGED <<dev, changes, registered, pending, acked, reqVars,
                     flight, members, poll, npoll>>
  BY DEF TypeOK, DeleteKey, ExpireList, ExpireNames
<1>2. TypeOK'
  BY <1>1 DEF TypeOK
<1>3. CountedOnAreThere' /\ CacheReadInOrder' /\ WaitersAreMembers'
  BY <1>1 DEF CountedOnAreThere, Present, Listed, CacheReadInOrder, WaitersAreMembers
<1>4. WalksSee' /\ ListAfterProvision' /\ FreshUnlessLate'
  BY <1>1 DEF WalksSee, Sees, Listed, ListAfterProvision, FreshUnlessLate
<1>5. Unregistered'
  BY <1>1 DEF Unregistered, Outlived
<1>6. UnregisterClears'
  BY <1>5 DEF Unregistered, UnregisterClears
<1> QED
  BY <1>2, <1>3, <1>4, <1>5, <1>6

-----------------------------------------------------------------------------
\* A step that changes nothing.
LEMMA StutterIInv == IInv /\ UNCHANGED vars => IInv'
BY DEF IInv, TypeOK, CountedOnAreThere, Present, Listed, WaitersAreMembers,
       CacheReadInOrder, WalksSee, Sees, Unregistered, Outlived, ListAfterProvision,
       UnregisterClears, FreshUnlessLate, vars, reqVars

LEMMA NextIInv == IInv /\ [Next]_vars => IInv'
<1> SUFFICES ASSUME IInv, [Next]_vars PROVE IInv'
  OBVIOUS
<1>1. CASE \E r \in Req : Request(r) \/ \E f \in BOOLEAN : Arrive(r, f)
  BY <1>1, ArriveIInv, CachedIInv, DoIInv, ReplyIInv DEF Request
<1>2. CASE \E o \in Poll : OpticalStart(o) \/ OpticalPoll(o)
  BY <1>2, PollIInv
<1>3. CASE \E q \in NPoll : NamesStart(q) \/ NamesPoll(q)
  BY <1>3, NamesPollIInv
<1>4. CASE \E u \in Onu, n \in Name \cup {Absent} : DeviceChange(u, n)
  BY <1>4, DeviceIInv
<1>5. CASE \E u \in Onu : InvalidateONUCache(u) \/ \E n \in Name : Provision(u, n)
  BY <1>5, InvalidateIInv, DeviceIInv
<1>6. CASE (\E k \in clearing : DeleteKey(k)) \/ ExpireList \/ ExpireNames
  BY <1>6, GoneIInv
<1> QED
  BY <1>1, <1>2, <1>3, <1>4, <1>5, <1>6, FlightIInv, UnregisterIInv, StutterIInv DEF Next

\* In every behaviour what is counted on is listed by every walk that no tag
\* excuses, and what outlives its OLT shows it.
THEOREM Invariance == Spec => []IInv
BY InitIInv, NextIInv, PTL DEF Spec

\* After a provisioning the cached list has the new ONU, unless a walk that had
\* begun to read the ONUs before stored it after.
THEOREM ListAfterProvisionHolds == Spec => []ListAfterProvision
<1>1. IInv => ListAfterProvision
  BY DEF IInv
<1> QED
  BY <1>1, Invariance, PTL

\* What is cached of an unregistered OLT, once its keys are deleted, was stored
\* by a walk that had its client before.
THEOREM UnregisterClearsHolds == Spec => []UnregisterClears
<1>1. IInv => UnregisterClears
  BY DEF IInv
<1> QED
  BY <1>1, Invariance, PTL

\* A fresh request that did not join a walk that was reading already misses no
\* ONU that was there all the while.
THEOREM FreshUnlessLateHolds == Spec => []FreshUnlessLate
<1>1. IInv => FreshUnlessLate
  BY DEF IInv
<1> QED
  BY <1>1, Invariance, PTL
=============================================================================
