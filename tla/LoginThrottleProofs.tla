------------------------- MODULE LoginThrottleProofs -------------------------
(***************************************************************************)
(* Theorems about LoginThrottle, for any users, clients and requests, any  *)
(* limits and lengths, and any bound on the clock.                         *)
(***************************************************************************)
EXTENDS LoginThrottle, FiniteSetTheorems, TLAPS

-----------------------------------------------------------------------------
(* What is counted. *)

LEMMA Limits ==
  /\ loginFailLimit \in Nat /\ lockoutDuration \in Nat /\ rateLimitWindow \in Nat
  /\ rateLimitMaxHits \in Nat /\ MaxTime \in Nat
  /\ loginFailLimit > 0 /\ lockoutDuration > 0 /\ rateLimitWindow > 0 /\ rateLimitMaxHits > 0
BY LoginThrottleAssumption

\* The values of the counters are numbers.
LEMMA RateFacts ==
  ASSUME TypeOK, NEW c \in Client
  PROVE  /\ now \in Nat /\ now > 0 /\ now <= MaxTime
         /\ rate[c].start \in Nat /\ rate[c].start <= now
         /\ rate[c].count \in Nat /\ rate[c].count <= rateLimitMaxHits
         /\ rate[c] = [start |-> rate[c].start, count |-> rate[c].count]
         /\ \A h \in hits[c] : /\ h.at \in Time /\ h.window.start \in Time
                              /\ h.window.count \in 1 .. rateLimitMaxHits
                              /\ h.at \in Nat /\ h.window.start \in Nat
<1>1. now \in 1 .. MaxTime /\ rate[c] \in [start : 0 .. now, count : 0 .. rateLimitMaxHits]
  BY DEF TypeOK, Time
<1>2. hits[c] \subseteq [at : Time, window : [start : Time, count : 1 .. rateLimitMaxHits]]
  BY DEF TypeOK
<1>3. \A i \in Time : i \in Nat
  BY LoginThrottleAssumption DEF Time
<1>4. ASSUME NEW h \in hits[c]
      PROVE  h.at \in Time /\ h.window.start \in Time /\ h.window.count \in 1 .. rateLimitMaxHits
  BY <1>2
<1> QED
  BY <1>1, <1>3, <1>4, LoginThrottleAssumption

LEMMA LockFacts ==
  ASSUME TypeOK, NEW u \in User
  PROVE  /\ now \in Nat /\ now \in Time
         /\ lockouts[u].failed \in Nat /\ lockouts[u].failed < loginFailLimit
         /\ lockouts[u].until \in Nat
         /\ \A e \in fails[u] : e.at \in Nat /\ e.nth \in Nat /\ e.at \in Time
<1>1. now \in Time /\ \A i \in Time : i \in Nat
  BY LoginThrottleAssumption DEF TypeOK, Time
<1>2. lockouts[u] \in [failed : 0 .. loginFailLimit - 1, until : 0 .. now + lockoutDuration]
  BY DEF TypeOK
<1>3. lockouts[u].failed \in 0 .. loginFailLimit - 1 /\ lockouts[u].until \in 0 .. now + lockoutDuration
  BY <1>2
<1>4. fails[u] \subseteq [at : Time, nth : Nat]
  BY DEF TypeOK
<1> QED
  BY <1>1, <1>3, <1>4, LoginThrottleAssumption

LEMMA SameUserFacts ==
  ASSUME NEW u
  PROVE  /\ IsFiniteSet(SameUser(u)) /\ Cardinality(SameUser(u)) \in Nat
         /\ Cardinality(SameUser(u)) <= Cardinality(Proc) /\ Cardinality(Proc) \in Nat
<1>1. SameUser(u) \in SUBSET Proc
  BY DEF SameUser
<1> QED
  BY <1>1, FS_Subset, FS_CardinalityType, LoginThrottleAssumption

\* Failures within a span are finite, and a new one in it is one more.
LEMMA SpanFacts ==
  ASSUME NEW S, IsFiniteSet(S), NEW first, NEW last
  PROVE  Within(S, first, last) \in Nat /\ Within(S, first, last) <= Cardinality(S)
<1>1. {e \in S : first <= e.at /\ e.at <= last} \in SUBSET S
  OBVIOUS
<1> QED
  BY <1>1, FS_Subset, FS_CardinalityType DEF Within

LEMMA SpanAdds ==
  ASSUME NEW S, IsFiniteSet(S), NEW x, x \notin S, NEW first, NEW last
  PROVE  first <= x.at /\ x.at <= last => Within(S \cup {x}, first, last) = Within(S, first, last) + 1
<1> DEFINE In(T) == {e \in T : first <= e.at /\ e.at <= last}
<1>1. IsFiniteSet(In(S)) /\ x \notin In(S)
  <2>1. In(S) \in SUBSET S
    OBVIOUS
  <2> QED
    BY <2>1, FS_Subset
<1>2. ASSUME first <= x.at /\ x.at <= last
      PROVE  Cardinality(In(S \cup {x})) = Cardinality(In(S)) + 1
  <2>1. In(S \cup {x}) = In(S) \cup {x}
    BY <1>2
  <2> HIDE DEF In
  <2> QED
    BY <1>1, <2>1, FS_AddElement
<1> QED
  BY <1>2 DEF Within

\* The history of a client that made no attempt stays in order as time goes by.
LEMMA HitsStill ==
  ASSUME TypeOK, NEW c \in Client, HitsCounted(c), hits'[c] = hits[c], rate'[c] = rate[c],
         now' \in Nat, now <= now'
  PROVE  HitsCounted(c)'
<1>1. ASSUME NEW h \in hits[c] PROVE h.at <= now'
  <2>1. h.at <= now
    BY DEF HitsCounted
  <2>2. h.at \in Nat /\ now \in Nat
    BY RateFacts
  <2> QED
    BY <2>1, <2>2
<1> QED
  BY <1>1 DEF HitsCounted

\* So do the failures of a user whose entry a step leaves alone, if no more of
\* its attempts get past isLocked, or it is not locked.
LEMMA FailuresStill ==
  ASSUME TypeOK, NEW u \in User, FailuresCounted(u), fails'[u] = fails[u], lockouts'[u] = lockouts[u],
         now' \in Nat, now <= now',
         (\A q \in Proc : q \in SameUser(u)' => q \in SameUser(u)) \/ (~Locked(u) /\ now' = now)
  PROVE  FailuresCounted(u)'
<1>1. \A e \in fails[u] : e.at <= now'
  BY LockFacts DEF FailuresCounted
<1>2. ASSUME NEW t \in Time PROVE SpanOK(u, t)'
  <2>1. Span(u, t)' = Span(u, t) /\ SpanOK(u, t)
    BY DEF Span, FailuresCounted
  <2>2. t \in Nat /\ lockoutDuration \in Nat
    BY LoginThrottleAssumption DEF Time
  <2>3. CASE now' < t + lockoutDuration /\ ~(Span(u, t) <= lockouts[u].failed)
    <3>1. /\ lockouts[u].until >= t + lockoutDuration
          /\ Span(u, t) + Cardinality(SameUser(u)) <= MostFailures
      BY <2>1, <2>2, <2>3, LockFacts DEF SpanOK
    <3>2. Locked(u) \/ now' # now
      BY <2>2, <2>3, <3>1, LockFacts DEF Locked
    <3>3. SameUser(u)' \in SUBSET SameUser(u)
      BY <3>2 DEF SameUser
    <3>4. Cardinality(SameUser(u)') <= Cardinality(SameUser(u)) /\ Cardinality(SameUser(u)') \in Nat
      BY <3>3, SameUserFacts, FS_Subset, FS_CardinalityType
    <3>5. Span(u, t) \in Nat /\ MostFailures \in Int
      BY SpanFacts, SameUserFacts, LoginThrottleAssumption DEF Span, FailuresCounted, MostFailures
    <3>6. Span(u, t) + Cardinality(SameUser(u)') <= MostFailures
      BY <3>1, <3>4, <3>5, SameUserFacts
    <3> QED
      BY <2>1, <3>1, <3>6 DEF SpanOK, MostFailures
  <2> QED
    BY <2>1, <2>3 DEF SpanOK, MostFailures
<1> QED
  BY <1>1, <1>2 DEF FailuresCounted

\* After a success nothing is counted.
LEMMA EmptySpan ==
  ASSUME NEW first, NEW last
  PROVE  Within({}, first, last) = 0 /\ 0 <= MostFailures
<1>1. {e \in {} : first <= e.at /\ e.at <= last} = {}
  OBVIOUS
<1>2. Within({}, first, last) = 0
  BY <1>1, FS_EmptySet DEF Within
<1>3. Cardinality(Proc) \in Nat
  BY FS_CardinalityType, LoginThrottleAssumption
<1> QED
  BY <1>2, <1>3, LoginThrottleAssumption DEF MostFailures

USE LoginThrottleAssumption DEF Names

-----------------------------------------------------------------------------
(* The invariant. *)

\* At the start nobody is locked.
LEMMA InitIInv == Init => IInv
<1> SUFFICES ASSUME Init PROVE IInv
  OBVIOUS
<1>1. TypeOK
  <2>1. rate \in [Client -> [start : 0 .. now, count : 0 .. rateLimitMaxHits]]
    BY DEF Init, NoRate
  <2>2. lockouts \in [User -> [failed : 0 .. loginFailLimit - 1, until : 0 .. now + lockoutDuration]]
    BY DEF Init, NoLock
  <2> QED
    BY <2>1, <2>2 DEF Init, TypeOK, Time
<1>2. LockCameLater
  BY DEF Init, LockCameLater
<1>3. ASSUME NEW c \in Client PROVE HitsCounted(c)
  BY FS_EmptySet DEF Init, HitsCounted, NoRate
<1>4. ASSUME NEW u \in User PROVE FailuresCounted(u)
  <2>1. fails[u] = {} /\ lockouts[u].failed = 0 /\ lockouts[u].until = 0
    BY DEF Init, NoLock
  <2>2. Cardinality(fails[u]) = 0 /\ IsFiniteSet(fails[u])
    BY <2>1, FS_EmptySet
  <2>3. ASSUME NEW t \in Time PROVE SpanOK(u, t)
    BY <2>1, EmptySpan DEF Span, SpanOK
  <2> QED
    BY <2>1, <2>2, <2>3 DEF FailuresCounted
<1> QED
  BY <1>1, <1>2, <1>3, <1>4 DEF IInv

\* Locks end by themselves; the clock sets none.
LEMMA TickIInv == ASSUME IInv, Tick PROVE IInv'
<1> USE DEF IInv, Tick
<1>1. now \in Nat /\ now' \in 1 .. MaxTime /\ now' = now + 1
  BY DEF TypeOK, Time
<1>2. TypeOK'
  <2>1. \A c \in Client : rate[c] \in [start : 0 .. now', count : 0 .. rateLimitMaxHits]
    BY <1>1 DEF TypeOK
  <2>2. \A u \in User : lockouts[u] \in [failed : 0 .. loginFailLimit - 1, until : 0 .. now' + lockoutDuration]
    BY <1>1 DEF TypeOK
  <2> QED
    BY <1>1, <2>1, <2>2 DEF TypeOK, Time
<1>3. \A u \in User : Locked(u)' => Locked(u)
  BY <1>1 DEF TypeOK, Locked
<1>4. LockCameLater'
  BY <1>3 DEF LockCameLater
<1>5. \A c \in Client : HitsCounted(c)'
  BY <1>1, HitsStill
<1>6. \A u \in User : FailuresCounted(u)'
  BY <1>1, FailuresStill DEF SameUser
<1> QED
  BY <1>2, <1>4, <1>5, <1>6

\* An attempt is the first of a window that begins after all others have ended,
\* or the next of its window.
LEMMA LoginHits ==
  ASSUME IInv, NEW p \in Proc, NEW u \in Names, NEW c \in Client, Login(p, u, c)
  PROVE  HitsCounted(c)'
<1> DEFINE w == rate'[c]
           hit == [at |-> now, window |-> w]
<1>1. TypeOK /\ HitsCounted(c)
  BY DEF IInv
<1>2. w = [Window(c) EXCEPT !.count = @ + 1] /\ hits'[c] = hits[c] \cup {hit} /\ now' = now
  BY <1>1 DEF Login, TypeOK
<1>3. hit.at = now /\ hit.window = w
  OBVIOUS
<1>n. PICK start \in Nat, count \in Nat :
        /\ rate[c] = [start |-> start, count |-> count] /\ start <= now
        /\ rate[c].start = start /\ rate[c].count = count
  BY <1>1, RateFacts
<1>m. now \in Nat /\ now > 0 /\ rateLimitWindow \in Nat /\ rateLimitWindow > 0
  BY <1>1, RateFacts, Limits
<1>h. ASSUME NEW h \in hits[c]
      PROVE  /\ h.at \in Nat /\ h.window.start \in Nat /\ h.window.count \in Nat /\ h.window.start > 0
             /\ h.window.start <= h.at /\ h.at <= h.window.start + rateLimitWindow /\ h.at <= now
             /\ \/ h.window.start = start /\ h.window.count <= count
                \/ h.window.start + rateLimitWindow < start
  <2>4. h.at \in Nat /\ h.window.start \in Time /\ h.window.count \in 1 .. rateLimitMaxHits
    BY <1>1, RateFacts
  <2>1. h.at \in Nat /\ h.window.start \in Time /\ h.window.count \in Nat
    BY <2>4, Limits
  <2>2. h.window.start \in Nat /\ h.window.start > 0
    BY <2>1, Limits DEF Time
  <2>3. /\ h.window.start <= h.at /\ h.at <= h.window.start + rateLimitWindow /\ h.at <= now
        /\ \/ h.window.start = rate[c].start /\ h.window.count <= rate[c].count
           \/ h.window.start + rateLimitWindow < rate[c].start
    BY <1>1 DEF HitsCounted
  <2> QED
    BY <1>n, <2>1, <2>2, <2>3
<1>4. \/ /\ w = [start |-> now, count |-> 1]
         /\ \A h \in hits[c] : h.window.start + rateLimitWindow < now
      \/ /\ w = [start |-> start, count |-> count + 1]
         /\ now <= start + rateLimitWindow
  <2>1. CASE Expired(c)
    <3>1. w = [start |-> now, count |-> 1]
      BY <1>2, <2>1 DEF Window
    <3>2. start = 0 \/ now - start > rateLimitWindow
      BY <1>n, <2>1 DEF Expired
    <3>3. ASSUME NEW h \in hits[c] PROVE h.window.start + rateLimitWindow < now
      BY <1>n, <1>m, <1>h, <3>2
    <3> QED
      BY <3>1, <3>3
  <2>2. CASE ~Expired(c)
    <3>1. Window(c) = [start |-> start, count |-> count]
      BY <1>n, <2>2 DEF Window
    <3>2. w = [start |-> start, count |-> count + 1]
      BY <1>2, <3>1
    <3>3. ~(now - start > rateLimitWindow)
      BY <1>n, <2>2 DEF Expired
    <3> QED
      BY <1>n, <1>m, <3>2, <3>3
  <2> QED
    BY <2>1, <2>2
<1> HIDE DEF w, hit
<1>w. \/ /\ w.start = now /\ w.count = 1 /\ w = [start |-> w.start, count |-> w.count]
         /\ \A h \in hits[c] : h.window.start + rateLimitWindow < now
      \/ /\ w.start = start /\ w.count = count + 1 /\ w = [start |-> w.start, count |-> w.count]
         /\ now <= start + rateLimitWindow
  BY <1>4
<1>5. w.start \in Nat /\ w.start <= now /\ now <= w.start + rateLimitWindow /\ w.count \in Nat
  BY <1>n, <1>m, <1>w
<1>6. ASSUME NEW h \in hits[c]
      PROVE  /\ h.window # w
             /\ \/ h.window.start = w.start /\ h.window.count <= w.count
                \/ h.window.start + rateLimitWindow < w.start
  <2>1. CASE w.start = now /\ h.window.start + rateLimitWindow < now
    <3>1. h.window.start # w.start
      BY <1>m, <1>h, <2>1
    <3> QED
      BY <2>1, <3>1
  <2>2. CASE w.start = start /\ w.count = count + 1
    <3>1. ~(h.window.start = w.start /\ h.window.count = w.count)
      BY <1>n, <1>m, <1>h, <2>2
    <3> QED
      BY <1>n, <1>m, <1>h, <2>2, <3>1
  <2> QED
    BY <1>w, <2>1, <2>2
<1>7. IsFiniteSet(hits'[c])
  BY <1>1, <1>2, FS_AddElement DEF HitsCounted
<1>8. ASSUME NEW h \in hits'[c]
      PROVE  /\ h.window.start <= h.at /\ h.at <= h.window.start + rateLimitWindow /\ h.at <= now'
             /\ \/ h.window.start = w.start /\ h.window.count <= w.count
                \/ h.window.start + rateLimitWindow < w.start
  <2>1. CASE h \in hits[c]
    BY <1>2, <1>6, <1>h, <2>1
  <2>2. CASE h = hit
    <3>1. h.at = now /\ h.window.start = w.start /\ h.window.count = w.count
      BY <1>3, <2>2
    <3> QED
      BY <1>2, <1>m, <1>5, <3>1
  <2> QED
    BY <1>2, <2>1, <2>2
<1>9. ASSUME NEW h \in hits'[c], NEW g \in hits'[c]
      PROVE  /\ h.window = g.window => h = g
             /\ \/ h.window.start = g.window.start
                \/ h.window.start + rateLimitWindow < g.window.start
                \/ g.window.start + rateLimitWindow < h.window.start
  <2>1. CASE h \in hits[c] /\ g \in hits[c]
    BY <1>1, <2>1 DEF HitsCounted
  <2>2. CASE h = hit /\ g \in hits[c]
    BY <1>3, <1>6, <2>2
  <2>3. CASE g = hit /\ h \in hits[c]
    BY <1>3, <1>6, <2>3
  <2> QED
    BY <1>2, <2>1, <2>2, <2>3
<1>10. ASSUME NEW n \in 1 .. w.count
       PROVE  \E h \in hits'[c] : h.window = [start |-> w.start, count |-> n]
  <2>1. hit \in hits'[c]
    BY <1>2
  <2>2. CASE n = w.count
    <3>1. w = [start |-> w.start, count |-> n]
      BY <1>w, <2>2
    <3> QED
      BY <1>3, <2>1, <3>1
  <2>3. CASE n # w.count
    <3>1. w.start = start /\ n \in 1 .. count
      BY <1>n, <1>w, <2>3
    <3>2. \E h \in hits[c] : h.window = [start |-> rate[c].start, count |-> n]
      BY <1>1, <1>n, <3>1 DEF HitsCounted
    <3> QED
      BY <1>2, <1>n, <3>1, <3>2
  <2> QED
    BY <2>2, <2>3
<1> QED
  BY <1>1, <1>2, <1>7, <1>8, <1>9, <1>10, <1>5 DEF HitsCounted, w

\* An attempt that counts against the rate limit has not come to the lock.
LEMMA LoginIInv ==
  ASSUME IInv, NEW p \in Proc, NEW u \in Names, NEW c \in Client, Login(p, u, c)
  PROVE  IInv'
<1> USE DEF IInv, Login
<1>1. TypeOK'
  <2>1. Window(c).start \in 0 .. now /\ Window(c).count \in 0 .. rateLimitMaxHits
    BY DEF TypeOK, Time, Window
  <2>2. Window(c).count < rateLimitMaxHits
    BY <2>1 DEF Limited, AtLimit
  <2>3. Window(c) = [start |-> Window(c).start, count |-> Window(c).count]
    BY DEF TypeOK, Window
  <2>4. [Window(c) EXCEPT !.count = @ + 1] \in [start : 0 .. now, count : 0 .. rateLimitMaxHits]
    BY <2>1, <2>2, <2>3
  <2>5. hits' \in [Client -> SUBSET [at : Time, window : [start : Time, count : 1 .. rateLimitMaxHits]]]
    <3>1. rate'[c] = [start |-> Window(c).start, count |-> Window(c).count + 1]
      BY <2>3 DEF TypeOK
    <3>2. Window(c).start \in Time
      BY <2>1 DEF TypeOK, Time, Window, Expired
    <3>3. rate'[c] \in [start : Time, count : 1 .. rateLimitMaxHits]
      BY <2>1, <2>2, <3>1, <3>2
    <3>4. [at |-> now, window |-> rate'[c]] \in [at : Time, window : [start : Time, count : 1 .. rateLimitMaxHits]]
      BY <3>3 DEF TypeOK
    <3> QED
      BY <3>4 DEF TypeOK
  <2>6. at' \in [Proc -> {"idle", "isLocked", "compare", "right", "wrong"}] /\ user' \in [Proc -> Names]
    BY DEF TypeOK
  <2>7. since' \subseteq {q \in Proc : at'[q] \in {"compare", "right", "wrong"}}
    BY DEF TypeOK
  <2> QED
    BY <2>4, <2>5, <2>6, <2>7 DEF TypeOK
<1>2. \A v \in User : Locked(v)' <=> Locked(v)
  BY DEF Locked
<1>3. LockCameLater'
  BY <1>2 DEF TypeOK, LockCameLater
<1>4. now' = now /\ now \in Nat
  BY DEF TypeOK, Time
<1>5. ASSUME NEW d \in Client, d # c PROVE HitsCounted(d)'
  <2>1. hits'[d] = hits[d] /\ rate'[d] = rate[d]
    BY <1>5 DEF TypeOK
  <2>2. TypeOK /\ HitsCounted(d)
    OBVIOUS
  <2>3. now' \in Nat /\ now <= now'
    BY <1>4
  <2> QED
    BY <2>1, <2>2, <2>3, HitsStill
<1>6. ASSUME NEW v \in User PROVE FailuresCounted(v)'
  <2>1. \A q \in Proc : q \in SameUser(v)' => q \in SameUser(v)
    BY DEF TypeOK, SameUser
  <2> QED
    BY <1>4, <2>1, FailuresStill
<1> QED
  BY <1>1, <1>3, <1>5, <1>6, LoginHits

\* isLocked lets an attempt go on only while its user is not locked.
LEMMA CheckIInv ==
  ASSUME IInv, NEW p \in Proc, IsLocked(p) \/ CheckPassword(p)
  PROVE  IInv'
<1> USE DEF IInv
<1>1. /\ UNCHANGED <<now, rate, lockouts, hits, fails, since>>
      /\ at[p] \in {"isLocked", "compare"}
      /\ at' \in [Proc -> {"idle", "isLocked", "compare", "right", "wrong"}]
      /\ user' \in [Proc -> Names]
      /\ at[p] = "compare" => at'[p] \in {"right", "wrong"}
      /\ \A q \in Proc : q # p => at'[q] = at[q] /\ user'[q] = user[q]
  BY DEF TypeOK, IsLocked, CheckPassword, Finish, Goto
<1>2. TypeOK'
  BY <1>1 DEF TypeOK
<1>3. \A v \in User : Locked(v)' <=> Locked(v)
  BY <1>1 DEF Locked
<1>4. at[p] = "isLocked" => at'[p] = "idle" \/ (at'[p] = "compare" /\ (user'[p] \in User => ~Locked(user'[p])))
  BY DEF TypeOK, IsLocked, CheckPassword, Finish, Goto, Checked
<1>5. at[p] = "compare" => user'[p] = user[p] /\ (at'[p] = "right" => user[p] \in User)
  BY DEF TypeOK, IsLocked, CheckPassword, Finish, Goto
<1>6. LockCameLater'
  BY <1>1, <1>3, <1>4, <1>5 DEF TypeOK, LockCameLater
<1>7. now' = now /\ now \in Nat
  BY <1>1 DEF TypeOK, Time
<1>8. \A c \in Client : HitsCounted(c)'
  BY <1>1, <1>7, HitsStill
<1>9. ASSUME NEW v \in User PROVE FailuresCounted(v)'
  <2>1. (\A q \in Proc : q \in SameUser(v)' => q \in SameUser(v)) \/ ~Locked(v)
    BY <1>1, <1>3, <1>4, <1>5 DEF SameUser
  <2> QED
    BY <1>1, <1>7, <2>1, FailuresStill
<1> QED
  BY <1>2, <1>6, <1>8, <1>9

\* A failure counts in the user's entry, or is of a request that was under way
\* when the lock was set, and is then one less.
LEMMA FailureCounts ==
  ASSUME IInv, NEW p \in Proc, NEW u \in User, u = user[p], RegisterFailure(p)
  PROVE  FailuresCounted(u)'
<1> DEFINE e == [at |-> now, nth |-> Cardinality(fails[u]) + 1]
<1>1. u = user[p]
  OBVIOUS
<1>2. TypeOK /\ FailuresCounted(u) /\ u # Empty
  BY DEF IInv
<1>3. /\ now' = now /\ at[p] = "wrong" /\ fails'[u] = fails[u] \cup {e}
      /\ at' = [at EXCEPT ![p] = "idle"] /\ user' = [user EXCEPT ![p] = Empty]
  BY <1>1, <1>2 DEF RegisterFailure, Finish, TypeOK
<1>4. \/ /\ lockouts[u].failed + 1 >= loginFailLimit
         /\ lockouts'[u].failed = 0 /\ lockouts'[u].until = now + lockoutDuration
      \/ /\ lockouts[u].failed + 1 < loginFailLimit
         /\ lockouts'[u].failed = lockouts[u].failed + 1 /\ lockouts'[u].until = lockouts[u].until
  <2>1. CASE TooMany(lockouts[u].failed + 1)
    BY <1>1, <1>2, <2>1 DEF RegisterFailure, TooMany, TypeOK
  <2>2. CASE ~TooMany(lockouts[u].failed + 1)
    <3>1. lockouts' = [lockouts EXCEPT ![u].failed = @ + 1]
      BY <1>1, <1>2, <2>2 DEF RegisterFailure
    <3>2. lockouts'[u].failed = lockouts[u].failed + 1 /\ lockouts'[u].until = lockouts[u].until
      BY <1>2, <3>1 DEF TypeOK
    <3> QED
      BY <1>2, <2>2, <3>2, LockFacts DEF TooMany
  <2> QED
    BY <2>1, <2>2
<1>5. /\ IsFiniteSet(fails[u]) /\ Cardinality(fails[u]) \in Nat
      /\ e.at = now /\ e.nth = Cardinality(fails[u]) + 1
  BY <1>1, <1>2, FS_CardinalityType DEF FailuresCounted
<1> HIDE DEF e
<1>6. e \notin fails[u]
  BY <1>2, <1>5 DEF FailuresCounted
<1>7. IsFiniteSet(fails'[u]) /\ Cardinality(fails'[u]) = Cardinality(fails[u]) + 1
  <2>1. IsFiniteSet(fails[u] \cup {e}) /\ Cardinality(fails[u] \cup {e}) = Cardinality(fails[u]) + 1
    BY <1>5, <1>6, FS_AddElement
  <2> QED
    BY <1>3, <2>1
<1>8. /\ now \in Nat /\ lockouts[u].failed \in Nat /\ lockouts[u].failed < loginFailLimit
      /\ lockouts[u].until \in Nat /\ lockouts[u].failed <= Cardinality(fails[u])
      /\ \A f \in fails[u] : f.at \in Nat /\ f.nth \in Nat /\ f.at <= now /\ f.nth <= Cardinality(fails[u])
  BY <1>2, LockFacts DEF FailuresCounted
<1>9. \A f \in fails'[u] : f.at <= now' /\ f.nth <= Cardinality(fails'[u])
  BY <1>3, <1>5, <1>7, <1>8
<1>10. lockouts'[u].failed <= Cardinality(fails'[u])
  BY <1>4, <1>7, <1>5, <1>8
<1>11. ASSUME lockouts'[u].until # 0
       PROVE  /\ Cardinality(fails'[u]) >= loginFailLimit
              /\ \E f \in fails'[u] : lockouts'[u].until = f.at + lockoutDuration
  <2>1. CASE lockouts[u].failed + 1 >= loginFailLimit /\ lockouts'[u].until = now + lockoutDuration
    <3>1. e \in fails'[u] /\ lockouts'[u].until = e.at + lockoutDuration
      BY <1>3, <1>5, <2>1
    <3> QED
      BY <1>5, <1>7, <1>8, <2>1, <3>1
  <2>2. CASE lockouts'[u].until = lockouts[u].until
    <3>1. /\ Cardinality(fails[u]) >= loginFailLimit
          /\ \E f \in fails[u] : lockouts[u].until = f.at + lockoutDuration
      BY <1>2, <1>11, <2>2 DEF FailuresCounted
    <3> QED
      BY <1>3, <1>5, <1>7, <2>2, <3>1
  <2> QED
    BY <1>4, <2>1, <2>2
<1>12. /\ p \in SameUser(u) /\ SameUser(u)' = SameUser(u) \ {p}
       /\ Cardinality(SameUser(u)) \in Nat /\ Cardinality(SameUser(u)) <= Cardinality(Proc)
       /\ Cardinality(SameUser(u)') = Cardinality(SameUser(u)) - 1 /\ Cardinality(Proc) \in Nat
  <2>1. p \in SameUser(u)
    BY <1>1, <1>3 DEF SameUser
  <2>2. SameUser(u)' = SameUser(u) \ {p}
    BY <1>2, <1>3 DEF SameUser, TypeOK
  <2>3. Cardinality(SameUser(u) \ {p}) = Cardinality(SameUser(u)) - 1
    BY <2>1, SameUserFacts, FS_RemoveElement
  <2>4. Cardinality(SameUser(u)') = Cardinality(SameUser(u)) - 1
    BY <2>2, <2>3
  <2> QED
    BY <2>1, <2>2, <2>4, SameUserFacts
<1>13. ASSUME NEW t \in Time PROVE SpanOK(u, t)'
  <2>1. t \in Nat /\ lockoutDuration \in Nat /\ lockoutDuration > 0 /\ loginFailLimit \in Nat
    BY DEF Time
  <2>2. Span(u, t) \in Nat /\ SpanOK(u, t)
    BY <1>2, SpanFacts DEF Span, FailuresCounted
  <2>5. PICK most \in Int, under \in Nat, span \in Nat, all \in Nat :
          /\ most = MostFailures /\ under = Cardinality(SameUser(u)) /\ span = Span(u, t)
          /\ all = Cardinality(Proc) /\ most = loginFailLimit + all - 1 /\ under <= all /\ under > 0
    <3>1. MostFailures \in Int /\ MostFailures = loginFailLimit + Cardinality(Proc) - 1
      BY <1>12, <2>1 DEF MostFailures
    <3>2. Cardinality(SameUser(u)) > 0
      <4>1. SameUser(u) # {}
        BY <1>12
      <4> QED
        BY <1>12, <4>1, SameUserFacts, FS_EmptySet
    <3> QED
      BY <1>12, <2>2, <3>1, <3>2
  <2>6. MostFailures' = most /\ Cardinality(SameUser(u)') = under - 1
    BY <1>12, <2>5 DEF MostFailures
  <2>3. CASE t <= now /\ now < t + lockoutDuration
    <3>1. Span(u, t)' = span + 1
      <4>1. t <= e.at /\ e.at <= t + lockoutDuration - 1
        BY <1>5, <1>8, <2>1, <2>3
      <4>2. Within(fails[u] \cup {e}, t, t + lockoutDuration - 1) = Within(fails[u], t, t + lockoutDuration - 1) + 1
        BY <1>5, <1>6, <4>1, SpanAdds
      <4> QED
        BY <1>3, <2>5, <4>2 DEF Span
    <3>2. CASE span <= lockouts[u].failed
      <4>1. span + 1 <= loginFailLimit /\ span + 1 <= most
        BY <1>8, <2>1, <2>5, <3>2
      <4>2. CASE lockouts'[u].failed = lockouts[u].failed + 1
        <5>1. span + 1 <= lockouts'[u].failed
          BY <1>8, <3>2, <4>2
        <5> QED
          BY <2>6, <3>1, <4>1, <5>1 DEF SpanOK
      <4>3. CASE lockouts'[u].until = now + lockoutDuration
        <5>1. lockouts'[u].until >= t + lockoutDuration
          BY <1>8, <2>1, <2>3, <4>3
        <5>2. (span + 1) + (under - 1) <= most
          BY <2>1, <2>5, <4>1, <1>8, <3>2
        <5> QED
          BY <2>6, <3>1, <4>1, <5>1, <5>2 DEF SpanOK
      <4> QED
        BY <1>4, <4>2, <4>3
    <3>3. CASE lockouts[u].until >= t + lockoutDuration /\ span + under <= most
      <4>1. lockouts'[u].until >= t + lockoutDuration
        BY <1>4, <1>8, <2>1, <2>3, <3>3
      <4>2. (span + 1) + (under - 1) <= most /\ span + 1 <= most
        BY <2>5, <3>3
      <4> QED
        BY <2>6, <3>1, <4>1, <4>2 DEF SpanOK
    <3> QED
      BY <2>2, <2>3, <2>5, <3>2, <3>3 DEF SpanOK
  <2>4. CASE ~(t <= now /\ now < t + lockoutDuration)
    <3>1. Span(u, t)' = Span(u, t)
      <4>1. ~(t <= e.at /\ e.at <= t + lockoutDuration - 1)
        BY <1>5, <1>8, <2>1, <2>4
      <4>2. Within(fails[u] \cup {e}, t, t + lockoutDuration - 1) = Within(fails[u], t, t + lockoutDuration - 1)
        <5>1. {f \in fails[u] \cup {e} : t <= f.at /\ f.at <= t + lockoutDuration - 1}
                = {f \in fails[u] : t <= f.at /\ f.at <= t + lockoutDuration - 1}
          BY <4>1
        <5> QED
          BY <5>1 DEF Within
      <4> QED
        BY <1>3, <4>2 DEF Span
    <3>2. CASE now >= t + lockoutDuration
      BY <1>3, <1>8, <2>1, <2>2, <3>1, <3>2 DEF SpanOK, MostFailures
    <3>3. CASE t > now
      <4>1. {f \in fails[u] : t <= f.at /\ f.at <= t + lockoutDuration - 1} = {}
        BY <1>8, <2>1, <3>3
      <4>2. Span(u, t) = 0
        BY <4>1, FS_EmptySet DEF Span, Within
      <4>3. 0 <= lockouts'[u].failed
        BY <1>4, <1>8
      <4> QED
        BY <2>2, <3>1, <4>2, <4>3 DEF SpanOK, MostFailures
    <3> QED
      BY <1>8, <2>1, <2>4, <3>2, <3>3
  <2> QED
    BY <2>3, <2>4
<1> QED
  BY <1>7, <1>9, <1>10, <1>11, <1>13 DEF FailuresCounted

\* A failure that sets the lock finds the attempts under way.
LEMMA RegisterFailureIInv ==
  ASSUME IInv, NEW p \in Proc, RegisterFailure(p)
  PROVE  IInv'
<1> USE DEF IInv, RegisterFailure
<1>1. /\ UNCHANGED <<now, rate, hits>> /\ at[p] = "wrong"
      /\ at' = [at EXCEPT ![p] = "idle"] /\ user' = [user EXCEPT ![p] = Empty]
  BY DEF Finish
<1>4. now' = now /\ now \in Nat
  BY <1>1 DEF TypeOK, Time
<1>5. \A c \in Client : HitsCounted(c)'
  BY <1>1, <1>4, HitsStill
<1>2. CASE user[p] = Empty
  <2>1. UNCHANGED <<lockouts, fails, since>> /\ p \notin since
    BY <1>2 DEF LockCameLater
  <2>2. \A v \in User : Locked(v)' <=> Locked(v)
    BY <1>1, <2>1 DEF Locked
  <2>3. \A v \in User : FailuresCounted(v)'
    BY <1>1, <1>4, <2>1, FailuresStill DEF TypeOK, SameUser
  <2> QED
    BY <1>1, <1>5, <2>1, <2>2, <2>3 DEF TypeOK, LockCameLater
<1>3. CASE user[p] # Empty
  <2>1. PICK u \in User : u = user[p]
    BY <1>3 DEF TypeOK
  <2>2. since' \subseteq (since \cup SameUser(u)) \ {p} /\ since \ {p} \subseteq since'
    BY <1>3, <2>1
  <2>3. /\ lockouts' \in [User -> [failed : 0 .. loginFailLimit - 1, until : 0 .. now + lockoutDuration]]
        /\ \A v \in User : v # u => lockouts'[v] = lockouts[v]
        /\ Locked(u)' => Locked(u) \/ since' = (since \cup SameUser(u)) \ {p}
    <3>n. now \in Nat /\ lockouts \in [User -> [failed : 0 .. loginFailLimit - 1, until : 0 .. now + lockoutDuration]]
      BY <1>4 DEF TypeOK
    <3>1. CASE TooMany(lockouts[u].failed + 1)
      <4>1. [failed |-> 0, until |-> now + lockoutDuration]
              \in [failed : 0 .. loginFailLimit - 1, until : 0 .. now + lockoutDuration]
        BY <3>n, Limits
      <4>2. /\ lockouts' = [lockouts EXCEPT ![u] = [failed |-> 0, until |-> now + lockoutDuration]]
            /\ since' = (since \cup SameUser(u)) \ {p}
        BY <1>3, <2>1, <3>1
      <4> QED
        BY <3>n, <4>1, <4>2
    <3>2. CASE ~TooMany(lockouts[u].failed + 1)
      <4>1. lockouts' = [lockouts EXCEPT ![u].failed = @ + 1]
        BY <1>3, <2>1, <3>2
      <4>2. lockouts[u].failed + 1 \in 0 .. loginFailLimit - 1
        BY <1>4, <3>2, LockFacts, Limits DEF TooMany
      <4>3. lockouts'[u].until = lockouts[u].until
        BY <3>n, <4>1
      <4>4. lockouts' \in [User -> [failed : 0 .. loginFailLimit - 1, until : 0 .. now + lockoutDuration]]
        BY <3>n, <4>1, <4>2
      <4>5. \A v \in User : v # u => lockouts'[v] = lockouts[v]
        BY <3>n, <4>1
      <4>6. Locked(u)' => Locked(u)
        BY <1>1, <4>3 DEF Locked
      <4> QED
        BY <4>4, <4>5, <4>6
    <3> QED
      BY <3>1, <3>2
  <2>4. fails' \in [User -> SUBSET [at : Time, nth : Nat]]
    <3>1. fails' = [fails EXCEPT ![u] = @ \cup {[at |-> now, nth |-> Cardinality(@) + 1]}] /\ now \in Time
      BY <1>3, <2>1 DEF TypeOK
    <3>2. Cardinality(fails[u]) \in Nat
      BY FS_CardinalityType DEF FailuresCounted
    <3>3. [at |-> now, nth |-> Cardinality(fails[u]) + 1] \in [at : Time, nth : Nat]
      BY <3>1, <3>2
    <3> QED
      BY <3>1, <3>3 DEF TypeOK
  <2>5. TypeOK'
    BY <1>1, <2>2, <2>3, <2>4 DEF TypeOK, SameUser
  <2>6. \A v \in User : v # u => (Locked(v)' <=> Locked(v))
    BY <1>1, <2>3 DEF Locked
  <2>7. LockCameLater'
    BY <1>1, <2>1, <2>2, <2>3, <2>6 DEF TypeOK, LockCameLater, SameUser
  <2>8. ASSUME NEW v \in User, v # u PROVE FailuresCounted(v)'
    <3>1. fails'[v] = fails[v] /\ lockouts'[v] = lockouts[v]
      BY <1>3, <2>1, <2>3, <2>8 DEF TypeOK
    <3>2. \A q \in Proc : q \in SameUser(v)' => q \in SameUser(v)
      BY <1>1 DEF TypeOK, SameUser
    <3> QED
      BY <1>4, <3>1, <3>2, FailuresStill
  <2> QED
    BY <1>5, <2>1, <2>5, <2>7, <2>8, FailureCounts
<1> QED
  BY <1>2, <1>3

\* A success lifts the lock of its own user only.
LEMMA ResetFailuresIInv ==
  ASSUME IInv, NEW p \in Proc, ResetFailures(p)
  PROVE  IInv'
<1> USE DEF IInv, ResetFailures, EntryDeleted, NoLock
<1>1. /\ UNCHANGED <<now, rate, hits>> /\ at[p] = "right" /\ since' = since \ {p}
      /\ at' = [at EXCEPT ![p] = "idle"] /\ user' = [user EXCEPT ![p] = Empty]
  BY DEF Finish
<1>2. user[p] \in User
  BY <1>1 DEF LockCameLater
<1>3. TypeOK'
  <2>1. [failed |-> 0, until |-> 0] \in [failed : 0 .. loginFailLimit - 1, until : 0 .. now + lockoutDuration]
    BY DEF TypeOK, Time
  <2>2. lockouts' \in [User -> [failed : 0 .. loginFailLimit - 1, until : 0 .. now + lockoutDuration]]
    BY <1>2, <2>1 DEF TypeOK
  <2>3. fails' \in [User -> SUBSET [at : Time, nth : Nat]]
    BY <1>2 DEF TypeOK
  <2> QED
    BY <1>1, <2>2, <2>3 DEF TypeOK
<1>4. \A v \in User : Locked(v)' => Locked(v)
  <2>1. ASSUME NEW v \in User, v # user[p]
        PROVE  Locked(v)' <=> Locked(v)
    BY <1>1, <2>1 DEF TypeOK, Locked
  <2>2. ASSUME NEW v \in User, v = user[p]
        PROVE  ~Locked(v)'
    <3>1. lockouts'[v].until = 0
      BY <2>2 DEF TypeOK
    <3> QED
      BY <1>1, <3>1 DEF TypeOK, Time, Locked
  <2> QED
    BY <2>1, <2>2
<1>5. LockCameLater'
  BY <1>1, <1>4 DEF TypeOK, LockCameLater
<1>6. now' = now /\ now \in Nat
  BY <1>1 DEF TypeOK, Time
<1>7. \A c \in Client : HitsCounted(c)'
  BY <1>1, <1>6, HitsStill
<1>8. ASSUME NEW v \in User, v # user[p] PROVE FailuresCounted(v)'
  <2>1. fails'[v] = fails[v] /\ lockouts'[v] = lockouts[v]
    BY <1>8 DEF TypeOK
  <2>2. \A q \in Proc : q \in SameUser(v)' => q \in SameUser(v)
    BY <1>1 DEF TypeOK, SameUser
  <2> QED
    BY <1>6, <2>1, <2>2, FailuresStill
<1>9. ASSUME NEW v \in User, v = user[p] PROVE FailuresCounted(v)'
  <2>1. fails'[v] = {} /\ lockouts'[v].failed = 0 /\ lockouts'[v].until = 0
    BY <1>2, <1>9 DEF TypeOK
  <2>2. Cardinality(fails'[v]) = 0 /\ IsFiniteSet(fails'[v])
    BY <2>1, FS_EmptySet
  <2>3. ASSUME NEW t \in Time PROVE SpanOK(v, t)'
    <3>1. Span(v, t)' = 0
      BY <2>1, EmptySpan DEF Span
    <3>2. 0 <= MostFailures' /\ 0 <= lockouts'[v].failed
      BY <2>1, EmptySpan DEF MostFailures
    <3> QED
      BY <3>1, <3>2 DEF SpanOK
  <2> QED
    BY <2>1, <2>2, <2>3 DEF FailuresCounted
<1> QED
  BY <1>3, <1>5, <1>7, <1>8, <1>9

LEMMA StutterIInv ==
  ASSUME IInv, UNCHANGED vars
  PROVE  IInv'
<1>1. UNCHANGED <<now, rate, lockouts, at, user, hits, fails, since>> /\ now \in Nat
  BY DEF vars, IInv, TypeOK, Time
<1>2. TypeOK' /\ LockCameLater'
  BY <1>1 DEF IInv, TypeOK, LockCameLater, Locked
<1>3. \A c \in Client : HitsCounted(c)'
  BY <1>1, HitsStill DEF IInv
<1>4. \A u \in User : FailuresCounted(u)'
  BY <1>1, FailuresStill DEF IInv, SameUser
<1> QED
  BY <1>2, <1>3, <1>4 DEF IInv

LEMMA NextIInv == IInv /\ [Next]_vars => IInv'
<1>1. IInv /\ UNCHANGED vars => IInv'
  BY StutterIInv
<1> QED
  BY <1>1, TickIInv, LoginIInv, CheckIInv, RegisterFailureIInv, ResetFailuresIInv
     DEF Next, Refuse

\* In every behaviour a request that is past isLocked though its user is locked
\* came there before the lock.
THEOREM Invariance == Spec => []IInv
BY InitIInv, NextIInv, PTL DEF Spec

\* resetFailures lifts a lock before its time only for a request that was past
\* isLocked when the lock was set, and nothing else does.
THEOREM LiftedOnlyByEarlierHolds == Spec => LiftedOnlyByEarlier
<1> DEFINE Lifted(u) == Locked(u) /\ ~Locked(u)' /\ now' = now
           ByEarlier(u) == \E p \in since : user[p] = u /\ at[p] = "right" /\ at'[p] = "idle"
<1>1. IInv /\ [Next]_vars => [\A u \in User : Lifted(u) => ByEarlier(u)]_vars
  <2> SUFFICES ASSUME IInv, Next, NEW u \in User, Lifted(u)
               PROVE  ByEarlier(u)
    OBVIOUS
  <2>1. lockouts'[u] # lockouts[u]
    BY DEF Locked
  <2>2. ASSUME NEW p \in Proc, RegisterFailure(p)
        PROVE  FALSE
    <3>1. lockouts'[u].until = lockouts[u].until \/ lockouts'[u].until = now + lockoutDuration
      <4>1. user[p] = u
        BY <2>1, <2>2 DEF RegisterFailure, IInv, TypeOK
      <4>2. \/ lockouts' = [lockouts EXCEPT ![u] = [failed |-> 0, until |-> now + lockoutDuration]]
            \/ lockouts' = [lockouts EXCEPT ![u].failed = @ + 1]
        BY <2>1, <2>2, <4>1 DEF RegisterFailure
      <4> QED
        BY <4>2 DEF IInv, TypeOK
    <3> QED
      BY <3>1, LoginThrottleAssumption DEF Locked, IInv, TypeOK, Time
  <2>3. ASSUME NEW p \in Proc, ResetFailures(p)
        PROVE  ByEarlier(u)
    <3>1. user[p] = u /\ at[p] = "right" /\ at'[p] = "idle"
      BY <2>1, <2>3 DEF ResetFailures, Finish, IInv, TypeOK
    <3>2. p \in since
      BY <3>1 DEF IInv, LockCameLater
    <3> QED
      BY <3>1, <3>2
  <2>4. PICK p \in Proc : RegisterFailure(p) \/ ResetFailures(p)
    BY <2>1 DEF Next, Tick, Refuse, Login, IsLocked, CheckPassword, vars
  <2> QED
    BY <2>2, <2>3, <2>4
<1> QED
  BY <1>1, Invariance, PTL DEF Spec, LiftedOnlyByEarlier

-----------------------------------------------------------------------------
(* What follows from the invariant. *)

\* FailuresBounded: whatever the requests under way, no more failures of a user
\* count in the length of a lock than the limit and one for each of the others.
THEOREM FailuresBoundedHolds == Spec => []FailuresBounded
<1>1. IInv => FailuresBounded
  <2> SUFFICES ASSUME IInv, NEW u \in User, NEW t \in Time
               PROVE  Within(fails[u], t, t + lockoutDuration - 1) <= loginFailLimit + Cardinality(Proc) - 1
    BY DEF FailuresBounded
  <2>1. FailuresCounted(u)
    BY DEF IInv
  <2>2. SpanOK(u, t)
    BY <2>1 DEF FailuresCounted
  <2> QED
    BY <2>2 DEF SpanOK, Span, MostFailures
<1> QED
  BY <1>1, Invariance, PTL

\* LockedOnlyAfterFailures: a locked user failed that often since its last
\* success, and the lock lasts as long as it does from one of these failures on.
THEOREM LockedOnlyAfterFailuresHolds == Spec => []LockedOnlyAfterFailures
<1>1. IInv => LockedOnlyAfterFailures
  <2> SUFFICES ASSUME IInv, NEW u \in User, Locked(u)
               PROVE  /\ Within(fails[u], 1, now) >= loginFailLimit
                      /\ \E e \in fails[u] : lockouts[u].until = e.at + lockoutDuration
    BY DEF LockedOnlyAfterFailures
  <2>1. TypeOK /\ FailuresCounted(u)
    BY DEF IInv
  <2>2. lockouts[u].until # 0
    BY <2>1, LockFacts DEF Locked
  <2>3. /\ Cardinality(fails[u]) >= loginFailLimit
        /\ \E e \in fails[u] : lockouts[u].until = e.at + lockoutDuration
    BY <2>1, <2>2 DEF FailuresCounted
  <2>4. {e \in fails[u] : 1 <= e.at /\ e.at <= now} = fails[u]
    <3>1. ASSUME NEW e \in fails[u] PROVE 1 <= e.at /\ e.at <= now
      <4>1. e.at \in Time
        BY <2>1, LockFacts
      <4>2. e.at <= now
        BY <2>1 DEF FailuresCounted
      <4> QED
        BY <4>1, <4>2, Limits DEF Time
    <3> QED
      BY <3>1
  <2> QED
    BY <2>3, <2>4 DEF Within
<1> QED
  BY <1>1, Invariance, PTL

\* RefusedOnlyAtLimit: the window a refused client is in has all its attempts in
\* its history.
THEOREM RefusedOnlyAtLimitHolds == Spec => []RefusedOnlyAtLimit
<1>1. IInv => RefusedOnlyAtLimit
  <2> SUFFICES ASSUME IInv, NEW c \in Client, Limited(c)
               PROVE  \E t \in Time : /\ now - t <= rateLimitWindow
                                      /\ Within(hits[c], t, now) >= rateLimitMaxHits
    BY DEF RefusedOnlyAtLimit
  <2>1. TypeOK /\ HitsCounted(c)
    BY DEF IInv
  <2>2. ~Expired(c)
    <3>1. CASE Expired(c)
      <4>1. Window(c).count = 0
        BY <3>1 DEF Window
      <4> QED
        BY <4>1, Limits DEF Limited, AtLimit
    <3> QED
      BY <3>1
  <2> DEFINE start == rate[c].start
             max == rateLimitMaxHits
             In == {e \in hits[c] : start <= e.at /\ e.at <= now}
             hit == [n \in 1 .. max |-> CHOOSE h \in hits[c] : h.window = [start |-> start, count |-> n]]
  <2>3. /\ start \in Nat /\ start # 0 /\ start <= now /\ now \in Nat /\ now <= MaxTime
        /\ now - start <= rateLimitWindow
    <3>1. start \in Nat /\ start <= now /\ now \in Nat /\ now <= MaxTime
      BY <2>1, RateFacts
    <3>2. start # 0 /\ ~(now - start > rateLimitWindow)
      BY <2>2 DEF Expired
    <3> QED
      BY <3>1, <3>2, Limits
  <2>4. start \in Time
    BY <2>3, Limits DEF Time
  <2>5. 1 .. max \subseteq 1 .. rate[c].count
    <3>1. rate[c].count >= max
      BY <2>2 DEF Limited, AtLimit, Window
    <3>2. rate[c].count \in Nat
      BY <2>1, RateFacts
    <3> QED
      BY <3>1, <3>2, Limits
  <2>6. ASSUME NEW n \in 1 .. max
        PROVE  hit[n] \in In /\ hit[n].window = [start |-> start, count |-> n]
    <3>1. \E h \in hits[c] : h.window = [start |-> start, count |-> n]
      BY <2>1, <2>5 DEF HitsCounted
    <3>2. hit[n] \in hits[c] /\ hit[n].window = [start |-> start, count |-> n]
      BY <3>1
    <3>3. hit[n].window.start = start
      BY <3>2
    <3> HIDE DEF hit
    <3>4. start <= hit[n].at /\ hit[n].at <= now
      BY <2>1, <3>2, <3>3 DEF HitsCounted
    <3> QED
      BY <3>2, <3>4
  <2> HIDE DEF hit
  <2>7. \A n, m \in 1 .. max : hit[n] = hit[m] => n = m
    <3> SUFFICES ASSUME NEW n \in 1 .. max, NEW m \in 1 .. max, hit[n] = hit[m] PROVE n = m
      OBVIOUS
    <3>1. [start |-> start, count |-> n] = [start |-> start, count |-> m]
      BY <2>6
    <3>2. [start |-> start, count |-> n].count = [start |-> start, count |-> m].count
      BY <3>1
    <3> QED
      BY <3>2
  <2>8. In \in SUBSET hits[c] /\ IsFiniteSet(In)
    <3>1. IsFiniteSet(hits[c])
      BY <2>1 DEF HitsCounted
    <3>2. In \in SUBSET hits[c]
      OBVIOUS
    <3> QED
      BY <3>1, <3>2, FS_Subset
  <2> HIDE DEF In, start, max
  <2>9. Cardinality(In) >= max
    <3> DEFINE f == [n \in 1 .. max |-> hit[n]]
    <3>1. f \in [1 .. max -> In]
      BY <2>6
    <3>2. max \in Nat /\ Cardinality(In) \in Nat
      BY <2>8, FS_CardinalityType, Limits DEF max
    <3>3. IsFiniteSet(1 .. max) /\ Cardinality(1 .. max) = max
      BY <3>2, FS_Interval, Limits DEF max
    <3>4. \A n, m \in 1 .. max : f[n] = f[m] => n = m
      BY <2>7
    <3> HIDE DEF f
    <3>5. ~(Cardinality(In) < Cardinality(1 .. max))
      <4> SUFFICES ASSUME Cardinality(In) < Cardinality(1 .. max) PROVE FALSE
        OBVIOUS
      <4>1. \E n, m \in 1 .. max : n # m /\ f[n] = f[m]
        BY <2>8, <3>1, <3>3, FS_PigeonHole
      <4> QED
        BY <3>4, <4>1
    <3> QED
      BY <3>2, <3>3, <3>5
  <2>10. Within(hits[c], start, now) = Cardinality(In)
    BY DEF Within, In
  <2> QED
    BY <2>3, <2>4, <2>9, <2>10 DEF max
<1> QED
  BY <1>1, Invariance, PTL

\* Three windows of a client do not all begin less than a window's length before
\* a moment or within one after it: what passed in a span is of two of them.
LEMMA TwoWindows ==
  ASSUME IInv, NEW c \in Client, NEW t \in Time
  PROVE  \E first : \A h, g \in {e \in hits[c] : t <= e.at /\ e.at <= t + rateLimitWindow} :
            h.window.start # first /\ g.window.start # first => h.window.start = g.window.start
<1> DEFINE In == {e \in hits[c] : t <= e.at /\ e.at <= t + rateLimitWindow}
<1>1. TypeOK /\ HitsCounted(c) /\ t \in Nat /\ rateLimitWindow \in Nat
  BY Limits DEF IInv, Time
<1>2. ASSUME NEW h \in In
      PROVE  /\ h.at \in Nat /\ h.window.start \in Nat
             /\ t <= h.at /\ h.at <= t + rateLimitWindow
             /\ h.window.start <= h.at /\ h.at <= h.window.start + rateLimitWindow
  <2>1. h \in hits[c] /\ t <= h.at /\ h.at <= t + rateLimitWindow
    OBVIOUS
  <2>2. h.at \in Nat /\ h.window.start \in Nat
    BY <1>1, <2>1, RateFacts
  <2>3. h.window.start <= h.at /\ h.at <= h.window.start + rateLimitWindow
    BY <1>1, <2>1 DEF HitsCounted
  <2> QED
    BY <2>1, <2>2, <2>3
<1>3. ASSUME NEW h \in In, NEW g \in In
      PROVE  \/ h.window.start = g.window.start
             \/ h.window.start + rateLimitWindow < g.window.start
             \/ g.window.start + rateLimitWindow < h.window.start
  BY <1>1 DEF HitsCounted
<1> HIDE DEF In
<1>4. ASSUME NEW h \in In, NEW g \in In, NEW k \in In
      PROVE  \/ h.window.start = g.window.start \/ h.window.start = k.window.start
             \/ g.window.start = k.window.start
  <2>1. PICK a \in Nat, b \in Nat, d \in Nat, w \in Nat, s \in Nat :
          /\ a = h.window.start /\ b = g.window.start /\ d = k.window.start
          /\ w = rateLimitWindow /\ s = t
          /\ s <= a + w /\ a <= s + w /\ s <= b + w /\ b <= s + w /\ s <= d + w /\ d <= s + w
    <3>1. t <= h.window.start + rateLimitWindow /\ h.window.start <= t + rateLimitWindow
      BY <1>1, <1>2
    <3>2. t <= g.window.start + rateLimitWindow /\ g.window.start <= t + rateLimitWindow
      BY <1>1, <1>2
    <3>3. t <= k.window.start + rateLimitWindow /\ k.window.start <= t + rateLimitWindow
      BY <1>1, <1>2
    <3> QED
      BY <1>1, <1>2, <3>1, <3>2, <3>3
  <2>2. a = b \/ a + w < b \/ b + w < a
    BY <1>3, <2>1
  <2>3. a = d \/ a + w < d \/ d + w < a
    BY <1>3, <2>1
  <2>4. b = d \/ b + w < d \/ d + w < b
    BY <1>3, <2>1
  <2>5. a = b \/ a = d \/ b = d
    BY <2>1, <2>2, <2>3, <2>4
  <2> QED
    BY <2>1, <2>5
<1>5. \E first : \A h, g \in In :
         h.window.start # first /\ g.window.start # first => h.window.start = g.window.start
  <2>1. CASE In = {}
    BY <2>1
  <2>2. CASE In # {}
    <3>1. PICK k \in In : TRUE
      BY <2>2
    <3>2. \A h, g \in In :
            h.window.start # k.window.start /\ g.window.start # k.window.start => h.window.start = g.window.start
      BY <1>4
    <3> QED
      BY <3>2
  <2> QED
    BY <2>1, <2>2
<1> QED
  BY <1>5 DEF In

\* RateBounded: what passes in the length of a window is of two windows, and each
\* has counted its own.
THEOREM RateBoundedHolds == Spec => []RateBounded
<1>1. IInv => RateBounded
  <2> SUFFICES ASSUME IInv, NEW c \in Client, NEW t \in Time
               PROVE  Within(hits[c], t, t + rateLimitWindow) <= 2 * rateLimitMaxHits
    BY DEF RateBounded
  <2> DEFINE In == {e \in hits[c] : t <= e.at /\ e.at <= t + rateLimitWindow}
  <2>1. PICK first : \A h, g \in In :
          h.window.start # first /\ g.window.start # first => h.window.start = g.window.start
    BY TwoWindows
  <2>2. TypeOK /\ HitsCounted(c)
    BY DEF IInv
  <2>3. IsFiniteSet(In) /\ In \in SUBSET hits[c]
    <3>1. IsFiniteSet(hits[c]) /\ In \in SUBSET hits[c]
      BY <2>2 DEF HitsCounted
    <3> QED
      BY <3>1, FS_Subset
  <2> HIDE DEF In
  <2>4. PICK max \in Nat : max = rateLimitMaxHits
    BY Limits
  <2>5. ASSUME NEW h \in In PROVE h.window.count \in 1 .. max /\ h.window \in [start : Time, count : 1 .. max]
    <3>1. h \in [at : Time, window : [start : Time, count : 1 .. rateLimitMaxHits]]
      BY <2>2, <2>3 DEF TypeOK
    <3> QED
      BY <2>4, <3>1
  <2>6. \A h, g \in In : h.window = g.window => h = g
    BY <2>2, <2>3 DEF HitsCounted
  <2> DEFINE f == [h \in In |-> IF h.window.start = first THEN h.window.count ELSE max + h.window.count]
  <2>7. f \in [In -> 1 .. 2 * max]
    <3>1. ASSUME NEW h \in In PROVE f[h] \in 1 .. 2 * max
      BY <2>4, <2>5
    <3> QED
      BY <3>1
  <2>8. ASSUME NEW h \in In, NEW g \in In, f[h] = f[g] PROVE h = g
    <3>1. f[h] = (IF h.window.start = first THEN h.window.count ELSE max + h.window.count)
      OBVIOUS
    <3>2. f[g] = (IF g.window.start = first THEN g.window.count ELSE max + g.window.count)
      OBVIOUS
    <3> HIDE DEF f
    <3>3. PICK n \in 1 .. max, m \in 1 .. max : n = h.window.count /\ m = g.window.count
      BY <2>5
    <3>4. n \in Nat /\ n >= 1 /\ n <= max /\ m \in Nat /\ m >= 1 /\ m <= max
      BY <2>4, <3>3
    <3>9. (h.window.start = first => f[h] = n) /\ (h.window.start # first => f[h] = max + n)
      BY <3>1, <3>3
    <3>10. (g.window.start = first => f[h] = m) /\ (g.window.start # first => f[h] = max + m)
      BY <2>8, <3>2, <3>3
    <3>7. n = m /\ (h.window.start = first <=> g.window.start = first)
      BY <2>4, <3>4, <3>9, <3>10
    <3>5. h.window.start = g.window.start
      BY <2>1, <3>7
    <3>8. /\ h.window = [start |-> h.window.start, count |-> h.window.count]
          /\ g.window = [start |-> g.window.start, count |-> g.window.count]
      BY <2>5
    <3>6. h.window = g.window
      BY <3>3, <3>5, <3>7, <3>8
    <3> QED
      BY <2>6, <3>6
  <2> HIDE DEF f
  <2>9. Cardinality(In) <= 2 * max
    <3>1. Cardinality(In) \in Nat /\ IsFiniteSet(1 .. 2 * max) /\ Cardinality(1 .. 2 * max) = 2 * max
      <4>1. PICK k \in Nat : k = 2 * max
        BY <2>4
      <4>2. IsFiniteSet(1 .. k) /\ Cardinality(1 .. k) = k
        <5>1. 1 \in Int /\ k \in Int
          OBVIOUS
        <5>2. IsFiniteSet(1 .. k) /\ Cardinality(1 .. k) = IF 1 > k THEN 0 ELSE k - 1 + 1
          BY <5>1, FS_Interval
        <5>3. (IF 1 > k THEN 0 ELSE k - 1 + 1) = k
          OBVIOUS
        <5> QED
          BY <5>2, <5>3
      <4> QED
        BY <2>3, <4>1, <4>2, FS_CardinalityType
    <3>2. ~(Cardinality(1 .. 2 * max) < Cardinality(In))
      <4> SUFFICES ASSUME Cardinality(1 .. 2 * max) < Cardinality(In) PROVE FALSE
        OBVIOUS
      <4>1. \E h, g \in In : h # g /\ f[h] = f[g]
        BY <2>3, <2>7, <3>1, FS_PigeonHole
      <4> QED
        BY <2>8, <4>1
    <3>3. 2 * max \in Nat
      BY <2>4
    <3> QED
      BY <3>1, <3>2, <3>3
  <2> QED
    BY <2>4, <2>9 DEF Within, In
<1> QED
  BY <1>1, Invariance, PTL
=============================================================================
