--------------------------- MODULE UserAdminProofs ---------------------------
(***************************************************************************)
(* Theorems about UserAdmin, for any users and any number of concurrent    *)
(* requests.                                                               *)
(***************************************************************************)
EXTENDS UserAdmin, FiniteSetTheorems, TLAPS

\* None is neither an account nor a change, nor a field of an account.
LEMMA RecordFacts ==
  /\ None \notin Account /\ None \notin Change /\ None \notin Role
  /\ None \notin Password /\ None \notin User
  /\ \A a \in Account : a.pass \in Password /\ a.role \in Role
  /\ \A c \in Change : c.pass \in Password \cup {None} /\ c.role \in Role \cup {None}
  /\ \A w \in Password, r \in Role : [pass |-> w, role |-> r] \in Account \cap Change
<1>1. None \notin Change
  <2>1. Change = [pass : Password \cup {None}, role : {"superadmin", "technician", None}]
    BY DEF Change, Role
  <2> QED
    BY <2>1, UserAdminAssumption
<1> QED
  BY <1>1, UserAdminAssumption DEF Account, Change, Role

\* LastSuperadmin refuses unless somebody else is superadmin too.
LEMMA AnotherSuperadmin ==
  ASSUME NEW u \in Superadmins, ~LastSuperadmin(u)
  PROVE  \E v \in Superadmins : v # u
<1> SUFFICES ASSUME \A v \in Superadmins : v = u PROVE FALSE
  OBVIOUS
<1>1. Superadmins = {u}
  OBVIOUS
<1>2. Cardinality({u}) = 1
  BY FS_Singleton
<1> QED
  BY <1>1, <1>2 DEF LastSuperadmin, Superadmins

\* The process starts with no request and a superadmin.
LEMMA InitIInv == Init => IInv
<1> SUFFICES ASSUME Init PROVE IInv
  OBVIOUS
<1> USE RecordFacts DEF Init
<1>1. TypeOK /\ RequestOK /\ OverlapNoticed /\ AsAsked
  BY DEF TypeOK, RequestOK, OverlapNoticed, AsAsked
<1>2. NothingLost /\ OneRemoves /\ SuperadminStays
  BY DEF NothingLost, OneRemoves, Removing, SuperadminStays
<1> QED
  BY <1>1, <1>2 DEF IInv

\* What a request begins with: the account it will write is what it asks for.
Admitted(u, change, account) ==
  /\ change \in Change \cup {None} /\ account \in Account \cup {None}
  /\ account = IF change = None THEN None
               ELSE [pass |-> IF change.pass = None THEN users[u].pass ELSE change.pass,
                     role |-> IF change.role = None THEN users[u].role ELSE change.role]
  /\ users[u] = None => change # None /\ change.pass # None /\ change.role # None
  /\ u \in Superadmins /\ ~IsSuperadmin(account) => \E v \in Superadmins : v # u

\* A request begins: it notices whom it meets, and if it takes a superadmin
\* away it leaves one.
LEMMA BeginIInv ==
  ASSUME IInv, NEW p \in Proc, NEW u \in User, NEW change, NEW account,
         NEW step \in {"hash", "write"},
         Admitted(u, change, account), Begin(p, u, change, account, step)
  PROVE  IInv'
<1> USE RecordFacts DEF IInv, Begin, Admitted
<1>1. TypeOK'
  BY DEF TypeOK
<1>2. RequestOK'
  BY DEF TypeOK, RequestOK
<1>3. OverlapNoticed'
  <2> SUFFICES ASSUME NEW q \in Proc, NEW r \in Proc, q # r,
                      about'[q] = about'[r], about'[q] # None
               PROVE  about'[q] \in overlapped'
    BY DEF OverlapNoticed
  <2>1. CASE q # p /\ r # p
    BY <2>1 DEF TypeOK, OverlapNoticed
  <2>2. CASE q = p \/ r = p
    BY <2>2 DEF TypeOK, Busy
  <2> QED
    BY <2>1, <2>2
<1>4. AsAsked'
  <2> SUFFICES ASSUME NEW q \in Proc, at'[q] # "idle", about'[q] \notin overlapped'
               PROVE  /\ copy'[q] = Asked(q)'
                      /\ users'[about'[q]] = IF at'[q] = "save" THEN copy'[q]
                                             ELSE ledger'[about'[q]]
    BY DEF AsAsked
  <2>1. CASE q # p
    BY <2>1 DEF TypeOK, AsAsked, Asked
  <2>2. CASE q = p
    <3>1. about'[p] = u /\ copy'[p] = account /\ ask'[p] = change /\ at'[p] = step
      BY DEF TypeOK
    <3>2. users[u] = ledger[u]
      BY <2>2, <3>1 DEF NothingLost
    <3>3. account = Asked(p)'
      BY <3>1, <3>2 DEF Asked, TypeOK
    <3> QED
      BY <2>2, <3>1, <3>2, <3>3
  <2> QED
    BY <2>1, <2>2
<1>5. NothingLost'
  <2>1. \A v \in User : Busy(v) => Busy(v)'
    BY DEF TypeOK, RequestOK, Busy
  <2> QED
    BY <2>1 DEF NothingLost
<1>6. OneRemoves'
  <2> SUFFICES ASSUME ~raced', overlapped' = {}, NEW q \in Proc, Removing(q)'
               PROVE  /\ \E v \in Superadmins' : v # about'[q]
                      /\ \A r \in Proc : Removing(r)' => r = q
    BY DEF OneRemoves
  <2>1. ~raced /\ overlapped = {} /\ Superadmins' = Superadmins
    BY DEF TypeOK, Superadmins
  <2>2. \A r \in Proc : r # p /\ Removing(r)' => Removing(r) /\ about'[r] = about[r]
    BY <2>1 DEF TypeOK, Removing
  <2>3. Removing(p)' => /\ u \in Superadmins /\ ~IsSuperadmin(account) /\ about'[p] = u
                        /\ \A r \in Proc : ~Removing(r)
    BY <2>1 DEF TypeOK, Removing, IsSuperadmin
  <2> QED
    BY <2>1, <2>2, <2>3 DEF OneRemoves
<1>7. SuperadminStays'
  BY DEF SuperadminStays, Superadmins
<1> QED
  BY <1>1, <1>2, <1>3, <1>4, <1>5, <1>6, <1>7

\* A request that ends without a change to the accounts others read.
Ends(p) ==
  /\ at' = [at EXCEPT ![p] = "idle"]
  /\ about' = [about EXCEPT ![p] = None]
  /\ ask' = [ask EXCEPT ![p] = None]
  /\ copy' = [copy EXCEPT ![p] = None]
  /\ UNCHANGED <<users, overlapped, raced>>

\* The end of a request, answered or not: the ledger has what it wrote.
LEMMA EndIInv ==
  ASSUME IInv, NEW p \in Proc, at[p] # "idle", Ends(p),
         ledger' \in [User -> Account \cup {None}],
         \A v \in User : v # about[p] => ledger'[v] = ledger[v],
         about[p] \notin overlapped => ledger'[about[p]] = users[about[p]]
  PROVE  IInv'
<1> USE RecordFacts DEF IInv, Ends
<1>1. TypeOK'
  BY DEF TypeOK
<1>2. RequestOK' /\ OverlapNoticed'
  BY DEF TypeOK, RequestOK, OverlapNoticed
<1>3. AsAsked'
  <2> SUFFICES ASSUME NEW q \in Proc, at'[q] # "idle", about'[q] \notin overlapped'
               PROVE  /\ copy'[q] = Asked(q)'
                      /\ users'[about'[q]] = IF at'[q] = "save" THEN copy'[q]
                                             ELSE ledger'[about'[q]]
    BY DEF AsAsked
  <2>1. q # p /\ about'[q] = about[q] /\ about[q] \in User /\ about[q] # about[p]
    BY DEF TypeOK, RequestOK, OverlapNoticed
  <2> QED
    BY <2>1 DEF TypeOK, AsAsked, Asked
<1>4. NothingLost'
  <2> SUFFICES ASSUME NEW v \in User, ~Busy(v)', v \notin overlapped'
               PROVE  users'[v] = ledger'[v]
    BY DEF NothingLost
  <2>1. CASE v = about[p]
    BY <2>1
  <2>2. CASE v # about[p]
    <3>1. ~Busy(v)
      BY <2>2 DEF TypeOK, Busy
    <3> QED
      BY <2>2, <3>1 DEF NothingLost
  <2> QED
    BY <2>1, <2>2
<1>5. OneRemoves'
  <2>1. Superadmins' = Superadmins
    BY DEF Superadmins
  <2>2. \A q \in Proc : Removing(q)' => Removing(q) /\ about'[q] = about[q]
    BY <2>1 DEF TypeOK, Removing
  <2> QED
    BY <2>1, <2>2 DEF OneRemoves
<1>6. SuperadminStays'
  BY DEF SuperadminStays, Superadmins
<1> QED
  BY <1>1, <1>2, <1>3, <1>4, <1>5, <1>6

LEMMA HashFailsIInv == ASSUME IInv, NEW p \in Proc, HashFails(p) PROVE IInv'
<1>1. about[p] \notin overlapped => ledger[about[p]] = users[about[p]]
  BY DEF IInv, AsAsked, HashFails
<1> QED
  BY <1>1, EndIInv DEF IInv, TypeOK, HashFails, Ends

LEMMA AnswerIInv == ASSUME IInv, NEW p \in Proc, Answer(p) PROVE IInv'
<1> USE RecordFacts DEF IInv, Answer
<1>1. about[p] \in User
  BY DEF TypeOK, RequestOK
<1>2. Asked(p) \in Account \cup {None}
  BY <1>1 DEF TypeOK, Asked, Account
<1>3. /\ ledger' \in [User -> Account \cup {None}]
      /\ \A v \in User : v # about[p] => ledger'[v] = ledger[v]
      /\ ledger'[about[p]] = Asked(p)
  BY <1>1, <1>2 DEF TypeOK
<1>4. about[p] \notin overlapped => Asked(p) = users[about[p]]
  BY DEF AsAsked
<1> QED
  BY <1>3, <1>4, EndIInv DEF Ends

\* The write of a request changes the account of its user only, and the one
\* request that takes a superadmin away leaves another.
LEMMA WriteIInv == ASSUME IInv, NEW p \in Proc, Write(p) PROVE IInv'
<1> USE RecordFacts DEF IInv, Write
<1>1. /\ about[p] \in User /\ users'[about[p]] = copy[p]
      /\ \A v \in User : v # about[p] => users'[v] = users[v]
      /\ \A q \in Proc : q # p => at'[q] = at[q]
      /\ at'[p] = "save"
  BY DEF TypeOK, RequestOK, Written
<1>2. TypeOK'
  BY <1>1 DEF TypeOK, Written
<1>3. RequestOK' /\ OverlapNoticed'
  BY DEF TypeOK, RequestOK, OverlapNoticed
<1>4. AsAsked'
  <2> SUFFICES ASSUME NEW q \in Proc, at'[q] # "idle", about'[q] \notin overlapped'
               PROVE  /\ copy'[q] = Asked(q)'
                      /\ users'[about'[q]] = IF at'[q] = "save" THEN copy'[q]
                                             ELSE ledger'[about'[q]]
    BY DEF AsAsked
  <2>1. Asked(q)' = Asked(q)
    BY DEF Asked
  <2>2. CASE q = p
    BY <1>1, <2>1, <2>2 DEF AsAsked
  <2>3. CASE q # p
    <3>1. about[q] \in User /\ about[q] # about[p]
      BY <1>1, <2>3 DEF TypeOK, RequestOK, OverlapNoticed
    <3> QED
      BY <1>1, <2>1, <2>3, <3>1 DEF AsAsked
  <2> QED
    BY <2>2, <2>3
<1>5. NothingLost'
  <2>1. \A v \in User : ~Busy(v)' => ~Busy(v) /\ v # about[p]
    BY DEF Busy
  <2> QED
    BY <1>1, <2>1 DEF NothingLost
<1>6. \A v \in Superadmins : v # about[p] => v \in Superadmins'
  BY <1>1 DEF Superadmins
<1>7. OneRemoves'
  <2> SUFFICES ASSUME ~raced, overlapped = {}, NEW q \in Proc, Removing(q)'
               PROVE  /\ \E v \in Superadmins' : v # about[q]
                      /\ \A r \in Proc : Removing(r)' => r = q
    BY DEF OneRemoves
  <2>1. \A r \in Proc : Removing(r)' => Removing(r) /\ r # p
    <3> SUFFICES ASSUME NEW r \in Proc, Removing(r)' PROVE Removing(r) /\ r # p
      OBVIOUS
    <3>1. r # p /\ at[r] \in {"hash", "write"} /\ about[r] \in Superadmins'
      BY <1>1 DEF Removing
    <3>2. about[r] # about[p]
      BY <1>1, <3>1 DEF OverlapNoticed, Superadmins
    <3> QED
      BY <1>1, <3>1, <3>2 DEF Removing, Superadmins
  <2>2. PICK v \in Superadmins : v # about[q]
    BY <2>1 DEF OneRemoves
  <2>3. about[p] \in Superadmins => about[p] \in Superadmins'
    <3>1. ~Removing(p)
      BY <2>1 DEF OneRemoves
    <3> QED
      BY <1>1, <3>1 DEF Removing, Superadmins, IsSuperadmin
  <2> QED
    BY <1>6, <2>1, <2>2, <2>3 DEF OneRemoves
<1>8. SuperadminStays'
  <2> SUFFICES ASSUME ~raced, overlapped = {} PROVE Superadmins' # {}
    BY DEF SuperadminStays
  <2>1. PICK v \in Superadmins : TRUE
    BY DEF SuperadminStays
  <2>2. CASE Removing(p)
    BY <1>6, <2>2 DEF OneRemoves
  <2>3. CASE ~Removing(p)
    <3>1. about[p] \in Superadmins => about[p] \in Superadmins'
      BY <1>1, <2>3 DEF Removing, Superadmins, IsSuperadmin
    <3> QED
      BY <1>6, <2>1, <3>1
  <2> QED
    BY <2>2, <2>3
<1> QED
  BY <1>2, <1>3, <1>4, <1>5, <1>7, <1>8

\* The handlers begin with what Admitted says.
LEMMA CreateUserIInv ==
  ASSUME IInv, NEW p \in Proc, NEW u \in User, NEW w \in Password, NEW r \in Role,
         CreateUser(p, u, w, r)
  PROVE  IInv'
<1>1. Admitted(u, [pass |-> w, role |-> r], [pass |-> w, role |-> r])
  BY RecordFacts DEF Admitted, CreateUser, Superadmins
<1> QED
  BY <1>1, BeginIInv DEF CreateUser

LEMMA UpdateUserIInv ==
  ASSUME IInv, NEW p \in Proc, NEW u \in User, NEW change \in Change,
         UpdateUser(p, u, change)
  PROVE  IInv'
<1>1. users[u] \in Account /\ users[u] # None
  BY DEF IInv, TypeOK, UpdateUser
<1>2. Changed(users[u], change) \in Account
  BY <1>1, RecordFacts DEF Changed, Account
<1>3. u \in Superadmins /\ ~IsSuperadmin(Changed(users[u], change))
        => \E v \in Superadmins : v # u
  <2> SUFFICES ASSUME u \in Superadmins, ~IsSuperadmin(Changed(users[u], change))
               PROVE  ~LastSuperadmin(u)
    BY AnotherSuperadmin
  <2>1. change.role = "technician"
    BY <1>2, RecordFacts DEF IsSuperadmin, Changed, Superadmins, Role
  <2> QED
    BY <2>1 DEF UpdateUser
<1>4. Admitted(u, change, Changed(users[u], change))
  BY <1>1, <1>2, <1>3, RecordFacts DEF Admitted, Changed
<1> QED
  BY <1>4, BeginIInv DEF UpdateUser

LEMMA ChangePasswordIInv ==
  ASSUME IInv, NEW p \in Proc, NEW u \in User, NEW w \in Password,
         ChangePassword(p, u, w)
  PROVE  IInv'
<1> DEFINE change  == [pass |-> w, role |-> None]
           account == [users[u] EXCEPT !.pass = w]
<1>1. users[u] \in Account /\ users[u] # None
  BY DEF IInv, TypeOK, ChangePassword
<1>2. account = [pass |-> w, role |-> users[u].role] /\ account \in Account
  BY <1>1 DEF Account
<1>3. change \in Change
  BY DEF Change
<1>4. Admitted(u, change, account)
  BY <1>1, <1>2, <1>3, RecordFacts DEF Admitted, Superadmins, IsSuperadmin
<1> QED
  BY <1>4, BeginIInv DEF ChangePassword

LEMMA DeleteUserIInv ==
  ASSUME IInv, NEW p \in Proc, NEW u \in User, DeleteUser(p, u)
  PROVE  IInv'
<1>1. Admitted(u, None, None)
  BY AnotherSuperadmin DEF Admitted, DeleteUser
<1> QED
  BY <1>1, BeginIInv DEF DeleteUser

\* A step that changes nothing.
LEMMA StutterIInv == IInv /\ UNCHANGED vars => IInv'
BY DEF IInv, TypeOK, RequestOK, OverlapNoticed, AsAsked, Asked, NothingLost, Busy,
       OneRemoves, Removing, SuperadminStays, Superadmins, vars, request

LEMMA NextIInv == IInv /\ [Next]_vars => IInv'
BY CreateUserIInv, UpdateUserIInv, ChangePasswordIInv, DeleteUserIInv, HashFailsIInv,
   WriteIInv, AnswerIInv, StutterIInv DEF Next

\* In every behaviour each request alone about its user writes what it is asked
\* for, and the one that takes a superadmin away leaves another.
THEOREM Invariance == Spec => []IInv
BY InitIInv, NextIInv, PTL DEF Spec

\* What requests asked for is what Config.Users has, for every user that no two
\* requests were about at once.
THEOREM NothingLostHolds == Spec => []NothingLost
<1>1. IInv => NothingLost
  BY DEF IInv
<1> QED
  BY <1>1, Invariance, PTL

\* LastSuperadmin keeps a superadmin against every interleaving but two requests
\* that take one away at once or two about the same user.
THEOREM SuperadminStaysHolds == Spec => []SuperadminStays
<1>1. IInv => SuperadminStays
  BY DEF IInv
<1> QED
  BY <1>1, Invariance, PTL
=============================================================================
