--------------------------- MODULE LoginThrottle ----------------------------
(***************************************************************************)
(* What slows down guessing at the login (Login of                         *)
(* internal/handler/auth_handler.go): a rate limit per client, counted in  *)
(* windows, and a lock per user name after some failures in a row.  The    *)
(* maps of both are under one mutex, which is held in each of              *)
(* checkRateLimit, isLocked, registerFailure and resetFailures and not     *)
(* between them, nor while a password is compared.  Attempts that are      *)
(* compared at the same time have all passed a check that none of their    *)
(* outcomes could count in.                                                *)
(*                                                                         *)
(* Time is in ticks.  The clock is read when the mutex is taken: the code  *)
(* reads it just before, microseconds against windows of minutes.          *)
(* hits, fails and since are read by properties only.                      *)
(***************************************************************************)
EXTENDS Naturals, FiniteSets

CONSTANTS
  User, Empty,        \* user names; the empty one
  Client,             \* client addresses
  Proc,               \* requests; bounds how many are under way at once
  loginFailLimit,
  lockoutDuration,
  rateLimitWindow,
  rateLimitMaxHits,
  MaxTime             \* bound on the clock

ASSUME LoginThrottleAssumption ==
  /\ Empty \notin User
  /\ {loginFailLimit, lockoutDuration, rateLimitWindow, rateLimitMaxHits} \subseteq Nat \ {0}
  /\ MaxTime \in Nat \ {0} /\ IsFiniteSet(Proc)

VARIABLES
  now,
  rate,      \* per client: start of its window (0: none) and count
  lockouts,  \* per user: failures in a row, and end of the lock (0: none)
  at,        \* each request: "idle", "isLocked", "compare", "right", "wrong"
  user,      \* the name it gave
  hits,      \* per client: when attempts passed the rate limit, and as which of a window
  fails,     \* per user: when failures counted since its last success, numbered
  since      \* requests past isLocked whose user was locked after that

vars == <<now, rate, lockouts, at, user, hits, fails, since>>

-----------------------------------------------------------------------------
Time  == 1 .. MaxTime
Names == User \cup {Empty}
NoRate == [start |-> 0, count |-> 0]
NoLock == [failed |-> 0, until |-> 0]

TypeOK ==
  /\ now \in Time
  /\ rate \in [Client -> [start : 0 .. now, count : 0 .. rateLimitMaxHits]]
  /\ lockouts \in [User -> [failed : 0 .. loginFailLimit - 1, until : 0 .. now + lockoutDuration]]
  /\ at \in [Proc -> {"idle", "isLocked", "compare", "right", "wrong"}]
  /\ user \in [Proc -> Names]
  /\ hits \in [Client -> SUBSET [at : Time, window : [start : Time, count : 1 .. rateLimitMaxHits]]]
  /\ fails \in [User -> SUBSET [at : Time, nth : Nat]]
  /\ since \subseteq {p \in Proc : at[p] \in {"compare", "right", "wrong"}}

Init ==
  /\ now = 1
  /\ rate = [c \in Client |-> NoRate]
  /\ lockouts = [u \in User |-> NoLock]
  /\ at = [p \in Proc |-> "idle"]
  /\ user = [p \in Proc |-> Empty]
  /\ hits = [c \in Client |-> {}]
  /\ fails = [u \in User |-> {}]
  /\ since = {}

Tick ==
  /\ now < MaxTime
  /\ now' = now + 1
  /\ UNCHANGED <<rate, lockouts, at, user, hits, fails, since>>

-----------------------------------------------------------------------------
Expired(c) == rate[c].start = 0 \/ now - rate[c].start > rateLimitWindow

\* mutant: the limit is one too high
OneMore(n) == n > rateLimitMaxHits

AtLimit(n) == n >= rateLimitMaxHits

\* mutant: a new window does not start counting anew
KeepsCount(c) == [start |-> IF Expired(c) THEN now ELSE rate[c].start, count |-> rate[c].count]

\* The window an attempt is counted in.
Window(c) == IF Expired(c) THEN [start |-> now, count |-> 0] ELSE rate[c]

Limited(c) == AtLimit(Window(c).count)

\* checkRateLimit: over the limit the attempt is refused, and counts nowhere.
Refuse(p, c) ==
  /\ at[p] = "idle"
  /\ Limited(c)
  /\ UNCHANGED vars

Login(p, u, c) ==
  /\ at[p] = "idle"
  /\ ~Limited(c)
  /\ rate' = [rate EXCEPT ![c] = [Window(c) EXCEPT !.count = @ + 1]]
  /\ hits' = [hits EXCEPT ![c] = @ \cup {[at |-> now, window |-> rate'[c]]}]
  /\ at' = [at EXCEPT ![p] = "isLocked"]
  /\ user' = [user EXCEPT ![p] = u]
  /\ UNCHANGED <<now, lockouts, fails, since>>

Goto(p, place) == at' = [at EXCEPT ![p] = place] /\ UNCHANGED <<now, rate, hits, user>>

\* The answer.
Finish(p) ==
  /\ at' = [at EXCEPT ![p] = "idle"]
  /\ user' = [user EXCEPT ![p] = Empty]
  /\ UNCHANGED <<now, rate, hits>>

\* mutant: isLocked looks at the failures, which a lock has reset
LockedByCount(u) == lockouts[u].failed >= loginFailLimit

Locked(u) == lockouts[u].until > now

Checked(u) == Locked(u)

\* isLocked: the empty name never is.
IsLocked(p) ==
  /\ at[p] = "isLocked"
  /\ IF (user[p] \in User /\ Checked(user[p])) THEN Finish(p) ELSE Goto(p, "compare")
  /\ UNCHANGED <<lockouts, fails, since>>

\* The account is looked up and the password compared, which takes a while.
\* There is no account without a name.
CheckPassword(p) ==
  /\ at[p] = "compare"
  /\ \/ Goto(p, "wrong")
     \/ user[p] # Empty /\ Goto(p, "right")
  /\ UNCHANGED <<lockouts, fails, since>>

\* mutant: a user is locked after one failure more
OneFailureMore(n) == n > loginFailLimit

TooMany(n) == n >= loginFailLimit

SameUser(u) == {q \in Proc : user[q] = u /\ at[q] \in {"compare", "right", "wrong"}}

RegisterFailure(p) ==
  LET u == user[p] IN
  /\ at[p] = "wrong"
  /\ Finish(p)
  /\ IF u = Empty
     THEN UNCHANGED <<lockouts, fails, since>>
     ELSE /\ fails' = [fails EXCEPT ![u] = @ \cup {[at |-> now, nth |-> Cardinality(@) + 1]}]
          /\ IF TooMany(lockouts[u].failed + 1)
             THEN /\ lockouts' = [lockouts EXCEPT ![u] =
                                    [failed |-> 0, until |-> now + lockoutDuration]]
                  /\ since' = (since \cup SameUser(u)) \ {p}
             ELSE /\ lockouts' = [lockouts EXCEPT ![u].failed = @ + 1]
                  /\ since' = since \ {p}

\* mutant: a success resets the failures and leaves the lock
CountReset(u) == [lockouts[u] EXCEPT !.failed = 0]

\* delete(h.lockouts, username)
EntryDeleted(u) == NoLock

ResetFailures(p) ==
  /\ at[p] = "right"
  /\ Finish(p)
  /\ lockouts' = [lockouts EXCEPT ![user[p]] = EntryDeleted(user[p])]
  /\ fails' = [fails EXCEPT ![user[p]] = {}]
  /\ since' = since \ {p}

Next ==
  \/ Tick
  \/ \E p \in Proc :
       \/ \E c \in Client : Refuse(p, c) \/ \E u \in Names : Login(p, u, c)
       \/ IsLocked(p) \/ CheckPassword(p)
       \/ RegisterFailure(p) \/ ResetFailures(p)

Spec == Init /\ [][Next]_vars

-----------------------------------------------------------------------------
\* How much of a history falls into a span of time.
Within(history, first, last) == Cardinality({e \in history : first <= e.at /\ e.at <= last})

\* A window that starts anew forgets the one before, so a client can do the
\* double of the limit in the length of a window, at the seam of two, but no
\* more, whatever the requests under way.
RateBounded ==
  \A c \in Client, t \in Time :
    Within(hits[c], t, t + rateLimitWindow) <= 2 * rateLimitMaxHits

\* A client is refused only if it used up the limit within a window's length.
RefusedOnlyAtLimit ==
  \A c \in Client :
    Limited(c) => \E t \in Time : /\ now - t <= rateLimitWindow
                                  /\ Within(hits[c], t, now) >= rateLimitMaxHits

\* Without a success in between, no more failures count in the length of a
\* lock than the limit, and one for each other request that was under way.
FailuresBounded ==
  \A u \in User, t \in Time :
    Within(fails[u], t, t + lockoutDuration - 1) <= loginFailLimit + Cardinality(Proc) - 1

\* A user is locked only after that many failures without a success, and for
\* the length of a lock after a failure: refused attempts do not prolong it.
LockedOnlyAfterFailures ==
  \A u \in User :
    Locked(u) => /\ Within(fails[u], 1, now) >= loginFailLimit
                 /\ \E e \in fails[u] : lockouts[u].until = e.at + lockoutDuration

\* A request past isLocked whose user is locked was there when the lock was
\* set.
LockCameLater ==
  /\ \A p \in since : user[p] \in User
  /\ \A p \in Proc : at[p] = "right" => user[p] \in User
  /\ \A p \in Proc :
       at[p] \in {"compare", "right", "wrong"} /\ user[p] \in User /\ Locked(user[p]) => p \in since

\* An attempt that passed is of the client's window or of one that ended before
\* it, windows do not overlap, and a window has counted each of its attempts.
HitsCounted(c) ==
  /\ IsFiniteSet(hits[c])
  /\ \A h \in hits[c] :
       /\ h.window.start <= h.at /\ h.at <= h.window.start + rateLimitWindow /\ h.at <= now
       /\ \/ h.window.start = rate[c].start /\ h.window.count <= rate[c].count
          \/ h.window.start + rateLimitWindow < rate[c].start
  /\ \A h, g \in hits[c] :
       /\ h.window = g.window => h = g
       /\ \/ h.window.start = g.window.start
          \/ h.window.start + rateLimitWindow < g.window.start
          \/ g.window.start + rateLimitWindow < h.window.start
  /\ \A n \in 1 .. rate[c].count : \E h \in hits[c] : h.window = [start |-> rate[c].start, count |-> n]

\* Failures in the length of a lock that begins at t.
Span(u, t) == Within(fails[u], t, t + lockoutDuration - 1)

MostFailures == loginFailLimit + Cardinality(Proc) - 1

\* Until such a span is over, no lock was set in it and the user's entry counts its
\* failures, or the lock set in it lasts beyond it and only the requests that
\* are past isLocked may still add to them.
SpanOK(u, t) ==
  /\ Span(u, t) <= MostFailures
  /\ now < t + lockoutDuration =>
       \/ Span(u, t) <= lockouts[u].failed
       \/ /\ lockouts[u].until >= t + lockoutDuration
          /\ Span(u, t) + Cardinality(SameUser(u)) <= MostFailures

\* The entry of a user counts failures that there were, and its lock is that of
\* one of them.
FailuresCounted(u) ==
  /\ IsFiniteSet(fails[u])
  /\ \A e \in fails[u] : e.at <= now /\ e.nth <= Cardinality(fails[u])
  /\ lockouts[u].failed <= Cardinality(fails[u])
  /\ lockouts[u].until # 0 =>
       /\ Cardinality(fails[u]) >= loginFailLimit
       /\ \E e \in fails[u] : lockouts[u].until = e.at + lockoutDuration
  /\ \A t \in Time : SpanOK(u, t)

\* The inductive invariant.
IInv == /\ TypeOK /\ LockCameLater
        /\ \A c \in Client : HitsCounted(c)
        /\ \A u \in User : FailuresCounted(u)

\* Nothing but the success of a request that was past isLocked when the lock
\* was set lifts the lock before its time.
LiftedOnlyByEarlier ==
  [][\A u \in User :
       Locked(u) /\ ~Locked(u)' /\ now' = now =>
         \E p \in since : user[p] = u /\ at[p] = "right" /\ at'[p] = "idle"]_vars
=============================================================================
