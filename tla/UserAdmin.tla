------------------------------ MODULE UserAdmin ------------------------------
(***************************************************************************)
(* User accounts: Config.Users, a map without a lock, changed by the       *)
(* handlers of internal/handler/user_handler.go and by ChangePassword of   *)
(* auth_handler.go.  A request reads the account, decides, hashes a        *)
(* password with bcrypt (tens of milliseconds), writes back the account it *)
(* read with its changes, and saves.  The Save is one more of those of     *)
(* OltConfig: whether it succeeds decides the answer and nothing here.     *)
(*                                                                         *)
(* overlapped, raced and ledger are read by properties only.               *)
(***************************************************************************)
EXTENDS FiniteSets, Naturals

CONSTANTS
  User,      \* user names
  Proc,      \* concurrent requests
  Password,  \* passwords
  None       \* no account, or a field that a request leaves out

ASSUME UserAdminAssumption ==
  /\ None \notin Password \cup User \cup {"superadmin", "technician"}
  /\ None \notin [pass : Password, role : {"superadmin", "technician"}]
  /\ None \notin [pass : Password \cup {None}, role : {"superadmin", "technician", None}]

VARIABLES
  users,       \* Config.Users
  at,          \* place of each request in its handler
  about,       \* the user it is about
  ask,         \* the password and role in its body, or None to delete
  copy,        \* the account it will write, or None to delete
  overlapped,  \* users two requests have been about at once
  raced,       \* two requests have been taking a superadmin away at once
  ledger       \* accounts as the requests that are through asked for them

request == <<at, about, ask, copy>>
vars    == <<users, request, overlapped, raced, ledger>>

-----------------------------------------------------------------------------
Role    == {"superadmin", "technician"}
Account == [pass : Password, role : Role]
Change  == [pass : Password \cup {None}, role : Role \cup {None}]

TypeOK ==
  /\ users  \in [User -> Account \cup {None}]
  /\ ledger \in [User -> Account \cup {None}]
  /\ at     \in [Proc -> {"idle", "hash", "write", "save"}]
  /\ about  \in [Proc -> User \cup {None}]
  /\ ask    \in [Proc -> Change \cup {None}]
  /\ copy   \in [Proc -> Account \cup {None}]
  /\ overlapped \subseteq User
  /\ raced \in BOOLEAN

Busy(u) == \E p \in Proc : about[p] = u

Superadmins == {u \in User : users[u] # None /\ users[u].role = "superadmin"}

IsSuperadmin(account) == account # None /\ account.role = "superadmin"

\* Request p has a superadmin to take away and has not done it yet.
Removing(p) ==
  /\ at[p] \in {"hash", "write"}
  /\ about[p] \in Superadmins
  /\ ~IsSuperadmin(copy[p])

\* Config.Users as Load left it, with a superadmin.
Init ==
  /\ users \in [User -> Account \cup {None}]
  /\ Superadmins # {}
  /\ at = [p \in Proc |-> "idle"]
  /\ about = [p \in Proc |-> None]
  /\ ask = [p \in Proc |-> None]
  /\ copy = [p \in Proc |-> None]
  /\ overlapped = {}
  /\ raced = FALSE
  /\ ledger = users

-----------------------------------------------------------------------------
\* Request p is past its checks and will write this account.
Begin(p, u, change, account, step) ==
  /\ at[p] = "idle"
  /\ at' = [at EXCEPT ![p] = step]
  /\ about' = [about EXCEPT ![p] = u]
  /\ ask' = [ask EXCEPT ![p] = change]
  /\ copy' = [copy EXCEPT ![p] = account]
  /\ overlapped' = IF Busy(u) THEN overlapped \cup {u} ELSE overlapped
  /\ raced' = (raced \/ ((u \in Superadmins /\ ~IsSuperadmin(account))
                          /\ \E q \in Proc : Removing(q)))
  /\ UNCHANGED <<users, ledger>>

CreateUser(p, u, w, r) ==
  /\ users[u] = None
  /\ Begin(p, u, [pass |-> w, role |-> r], [pass |-> w, role |-> r], "hash")

\* mutant: the check of the last superadmin counts all accounts
LastAccount(u) ==
  users[u].role = "superadmin" /\ Cardinality({v \in User : users[v] # None}) <= 1

\* "Prevent removing last superadmin", "Prevent deleting last superadmin"
LastSuperadmin(u) ==
  users[u].role = "superadmin" /\ Cardinality(Superadmins) <= 1

\* mutant: a field the body leaves out is cleared
Cleared(account, change) == change

\* A field the body leaves out stays as it is.
Changed(account, change) ==
  [pass |-> IF change.pass = None THEN account.pass ELSE change.pass,
   role |-> IF change.role = None THEN account.role ELSE change.role]

UpdateUser(p, u, change) ==
  /\ users[u] # None
  /\ change # [pass |-> None, role |-> None]
  /\ ~(change.role = "technician" /\ LastSuperadmin(u))
  /\ Begin(p, u, change, Changed(users[u], change),
           IF change.pass = None THEN "write" ELSE "hash")

\* A user, whose old password has been checked, sets a new one.
ChangePassword(p, u, w) ==
  /\ users[u] # None
  /\ Begin(p, u, [pass |-> w, role |-> None], [users[u] EXCEPT !.pass = w], "hash")

\* Asked for by somebody else than the user.
DeleteUser(p, u) ==
  /\ users[u] # None
  /\ \E caller \in User : caller # u
  /\ ~LastSuperadmin(u)
  /\ Begin(p, u, None, None, "write")

\* HashPassword returns an error (an empty or too long password), and the
\* request is over.
HashFails(p) ==
  /\ at[p] = "hash"
  /\ at' = [at EXCEPT ![p] = "idle"]
  /\ about' = [about EXCEPT ![p] = None]
  /\ ask' = [ask EXCEPT ![p] = None]
  /\ copy' = [copy EXCEPT ![p] = None]
  /\ UNCHANGED <<users, overlapped, raced, ledger>>

\* mutant: DeleteUser leaves the account in the map
WrittenUnlessDeleted(p) ==
  IF copy[p] = None THEN users ELSE [users EXCEPT ![about[p]] = copy[p]]

Written(p) == [users EXCEPT ![about[p]] = copy[p]]

\* The account goes into the map, or out of it.
Write(p) ==
  /\ at[p] \in {"hash", "write"}
  /\ users' = Written(p)
  /\ at' = [at EXCEPT ![p] = "save"]
  /\ UNCHANGED <<about, ask, copy, overlapped, raced, ledger>>

\* What request p asks for, of an account that others may have changed.
Asked(p) ==
  LET before == ledger[about[p]] IN
  IF ask[p] = None \/ (before = None /\ None \in {ask[p].pass, ask[p].role}) THEN None
  ELSE [pass |-> IF ask[p].pass = None THEN before.pass ELSE ask[p].pass,
        role |-> IF ask[p].role = None THEN before.role ELSE ask[p].role]

\* Save, and the answer; if Save fails the change is in memory all the same.
Answer(p) ==
  /\ at[p] = "save"
  /\ ledger' = [ledger EXCEPT ![about[p]] = Asked(p)]
  /\ at' = [at EXCEPT ![p] = "idle"]
  /\ about' = [about EXCEPT ![p] = None]
  /\ ask' = [ask EXCEPT ![p] = None]
  /\ copy' = [copy EXCEPT ![p] = None]
  /\ UNCHANGED <<users, overlapped, raced>>

Next ==
  \E p \in Proc :
    \/ \E u \in User :
         \/ \E w \in Password : \E r \in Role : CreateUser(p, u, w, r)
         \/ \E change \in Change : UpdateUser(p, u, change)
         \/ \E w \in Password : ChangePassword(p, u, w)
         \/ DeleteUser(p, u)
    \/ HashFails(p) \/ Write(p) \/ Answer(p)

Spec == Init /\ [][Next]_vars

-----------------------------------------------------------------------------
\* What requests asked for is what Config.Users has, for every user no two
\* requests were about at once: requests about different users, and whatever
\* is between a request's read and its write, do not disturb each other.
NothingLost ==
  \A u \in User : ~Busy(u) /\ u \notin overlapped => users[u] = ledger[u]

\* No superadmin is left only if two requests were taking one away at once, or
\* two were about the same user: LastSuperadmin is enough against every other
\* interleaving.
SuperadminStays == Superadmins = {} => raced \/ overlapped # {}

\* A request has a user, something to write and something to answer for while
\* it runs.
RequestOK ==
  \A p \in Proc : /\ at[p] = "idle" <=> about[p] = None
                  /\ at[p] = "idle" => ask[p] = None /\ copy[p] = None

OverlapNoticed ==
  \A p, q \in Proc : p # q /\ about[p] = about[q] /\ about[p] # None => about[p] \in overlapped

\* A request alone about its user writes what it is asked for, and the account
\* is as all others left it until it does.
AsAsked ==
  \A p \in Proc : at[p] # "idle" /\ about[p] \notin overlapped =>
    /\ copy[p] = Asked(p)
    /\ users[about[p]] = IF at[p] = "save" THEN copy[p] ELSE ledger[about[p]]

\* Whoever takes a superadmin away is alone in that and leaves another one.
OneRemoves ==
  ~raced /\ overlapped = {} =>
    \A p \in Proc : Removing(p) =>
      /\ \E u \in Superadmins : u # about[p]
      /\ \A q \in Proc : Removing(q) => q = p

\* The inductive invariant.
IInv ==
  /\ TypeOK /\ RequestOK /\ OverlapNoticed /\ AsAsked /\ NothingLost
  /\ OneRemoves /\ SuperadminStays

\* API.md:183 and 203, "Tidak bisa menurunkan / menghapus superadmin terakhir":
\* there is always a superadmin.
SomeSuperadmin == Superadmins # {}
=============================================================================
