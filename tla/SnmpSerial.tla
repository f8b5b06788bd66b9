----------------------------- MODULE SnmpSerial -----------------------------
(***************************************************************************)
(* What AcquireSNMPLock promises its callers, with no channel, map or      *)
(* mutex in sight.  An operation arrives at the gate of an OLT, is         *)
(* admitted, and leaves.  A gate admits one operation at a time.  Retiring *)
(* an OLT's gate (its OLT is unregistered) makes everybody who already     *)
(* arrived stale: only stale operations may overlap with the others.       *)
(***************************************************************************)
CONSTANTS OLT, Proc, None

VARIABLES
  phase,   \* [Proc -> {"out", "waiting", "in"}]
  at,      \* [Proc -> OLT \cup {None}]  the OLT whose gate p arrived at
  stale    \* [Proc -> BOOLEAN]  that gate has been retired since

vars == <<phase, at, stale>>

Init ==
  /\ phase = [p \in Proc |-> "out"]
  /\ at    = [p \in Proc |-> None]
  /\ stale = [p \in Proc |-> FALSE]

Arrive(p, o) ==
  /\ phase[p] = "out"
  /\ phase' = [phase EXCEPT ![p] = "waiting"]
  /\ at'    = [at EXCEPT ![p] = o]
  /\ UNCHANGED stale

Serving(o) == {p \in Proc : phase[p] = "in" /\ at[p] = o /\ ~stale[p]}

Admit(p) ==
  /\ phase[p] = "waiting"
  /\ stale[p] \/ Serving(at[p]) = {}
  /\ phase' = [phase EXCEPT ![p] = "in"]
  /\ UNCHANGED <<at, stale>>

\* The operation is done, or gave up waiting.
Leave(p) ==
  /\ phase[p] # "out"
  /\ phase' = [phase EXCEPT ![p] = "out"]
  /\ at'    = [at EXCEPT ![p] = None]
  /\ stale' = [stale EXCEPT ![p] = FALSE]

Retire(o) ==
  /\ stale' = [p \in Proc |-> stale[p] \/ (phase[p] # "out" /\ at[p] = o)]
  /\ UNCHANGED <<phase, at>>

Next ==
  \/ \E p \in Proc : Admit(p) \/ Leave(p) \/ \E o \in OLT : Arrive(p, o)
  \/ \E o \in OLT : Retire(o)

Spec == Init /\ [][Next]_vars
=============================================================================
