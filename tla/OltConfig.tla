------------------------------ MODULE OltConfig ------------------------------
(***************************************************************************)
(* Where an OLT is remembered: the registry (OLTManager.olts), the         *)
(* configuration in memory (Config.OLTs) and the configuration file.  The  *)
(* create, update and delete handlers of internal/handler/olt_handler.go   *)
(* write the three one after the other, with a telnet session of seconds   *)
(* (refreshVLANProfiles) before the last writes, and no lock over them.    *)
(* main registers what the file has when the process starts.               *)
(*                                                                         *)
(* Of an entry its address is modelled.  The VLAN profiles are not, but    *)
(* writing them back is: it is the second write of an entry.  overlapped,  *)
(* want, behind and cut are read by properties only.                       *)
(***************************************************************************)
CONSTANTS
  OLT,      \* OLT identifiers
  Proc,     \* concurrent requests
  Host,     \* addresses an OLT can be configured with
  NoHost,   \* an empty address, or a part of one
  None      \* no entry

ASSUME OltConfigAssumption ==
  /\ NoHost \notin Host
  /\ None \notin Host \cup OLT \cup {NoHost}

VARIABLES
  reg,         \* registry: address of each OLT, or None
  cfg,         \* Config.OLTs, same
  file,        \* olt_config.yaml, same
  at,          \* each request: its place in the handler,
  about,       \* the OLT it is about
  addr,        \* and the address in its body
  overlapped,  \* OLTs two requests were about at the same time
  want,        \* what the last request on the OLT asked for: address or None
  text,        \* what each request is writing to the file
  mixed,       \* some Save met another one before it was through
  readable,    \* the file is YAML
  behind,      \* the last Save failed or was mixed with another
  cut          \* a failed Save cut an entry in two

registry == <<reg, want>>
save     == <<file, text, mixed, readable, behind, cut>>
vars     == <<registry, cfg, at, about, addr, overlapped, save>>

-----------------------------------------------------------------------------
Steps == {"idle", "persist", "save", "fetch", "store", "saveProfiles",
          "unregister", "reregister", "forget", "saveForgotten",
          "write", "writeProfiles", "writeForgotten"}
Entries == [OLT -> Host \cup {NoHost, None}]
Nothing == [o \in OLT |-> None]

TypeOK ==
  /\ reg \in Entries /\ cfg \in Entries /\ file \in Entries
  /\ text \in [Proc -> Entries]
  /\ at \in [Proc -> Steps]
  /\ about \in [Proc -> OLT \cup {None}]
  /\ addr \in [Proc -> Host \cup {None}]
  /\ overlapped \subseteq OLT
  /\ want \in Entries
  /\ mixed \in BOOLEAN /\ readable \in BOOLEAN /\ behind \in BOOLEAN
  /\ cut \in BOOLEAN

Busy(o) == \E p \in Proc : about[p] = o

\* The file can be any the operator wrote.
Init ==
  /\ file \in [OLT -> Host \cup {None}]
  /\ reg = file /\ cfg = file
  /\ at = [p \in Proc |-> "idle"]
  /\ about = [p \in Proc |-> None]
  /\ addr = [p \in Proc |-> None]
  /\ overlapped = {}
  /\ want = file
  /\ text = [p \in Proc |-> Nothing]
  /\ mixed = FALSE /\ readable = TRUE /\ behind = FALSE /\ cut = FALSE

-----------------------------------------------------------------------------
\* Request p, about o, begins; ghosts note another one about the same OLT.
Begin(p, o, h, step) ==
  /\ at[p] = "idle"
  /\ at' = [at EXCEPT ![p] = step]
  /\ about' = [about EXCEPT ![p] = o]
  /\ addr' = [addr EXCEPT ![p] = h]
  /\ overlapped' = IF Busy(o) THEN overlapped \cup {o} ELSE overlapped

Goto(p, step) == at' = [at EXCEPT ![p] = step] /\ UNCHANGED <<about, addr>>

\* The handler answers.
Finish(p) ==
  /\ at' = [at EXCEPT ![p] = "idle"]
  /\ about' = [about EXCEPT ![p] = None]
  /\ addr' = [addr EXCEPT ![p] = None]

\* Config.Save is viper's WriteConfig, which opens the file, truncating it,
\* renders Config.OLTs and writes that.  Every request comes here with its
\* change in Config.OLTs and goes on whether or not the Save succeeds.
Writing(p) == at[p] \in {"write", "writeProfiles", "writeForgotten"}

SomeWrites == \E p \in Proc : Writing(p)

OthersWrite(p) == \E q \in Proc \ {p} : Writing(q)

SaveOpen(p) ==
  /\ \/ at[p] = "save"          /\ Goto(p, "write")
     \/ at[p] = "saveProfiles"  /\ Goto(p, "writeProfiles")
     \/ at[p] = "saveForgotten" /\ Goto(p, "writeForgotten")
  /\ file' = Nothing
  /\ text' = [text EXCEPT ![p] = cfg]
  /\ mixed' = OthersWrite(p)
  /\ readable' = TRUE
  /\ UNCHANGED <<registry, cfg, overlapped, behind, cut>>

\* Where the handler goes on after Save.
Saved(p) ==
  \/ at[p] \in {"save", "write"}                   /\ Goto(p, "fetch")
  \/ at[p] \in {"saveProfiles", "writeProfiles"}   /\ Finish(p)
  \/ at[p] \in {"saveForgotten", "writeForgotten"} /\ Finish(p)

\* The file cannot be opened.
SaveFails(p) ==
  /\ at[p] \in {"save", "saveProfiles", "saveForgotten"}
  /\ Saved(p)
  /\ behind' = TRUE
  /\ mixed' = (mixed \/ OthersWrite(p))
  /\ UNCHANGED <<registry, cfg, overlapped, file, text, readable, cut>>

\* The text is written, over what another request wrote if the two were at it
\* at once: then the end of a longer text is left, and the file is no YAML.
SaveWrite(p) ==
  /\ Writing(p)
  /\ Saved(p)
  /\ file' = text[p]
  /\ text' = [text EXCEPT ![p] = Nothing]
  /\ readable' \in {TRUE, ~mixed}
  /\ behind' = mixed
  /\ UNCHANGED <<registry, cfg, overlapped, mixed, cut>>

\* The write fails, of a disk that is full.  The file stays as it is, truncated
\* or with the text of another request, or is no YAML; or it has the entries
\* that went through and at most one in part.
SaveBreaks(p) ==
  /\ Writing(p)
  /\ Saved(p)
  /\ \/ UNCHANGED <<file, cut>> /\ readable' \in {readable, FALSE}
     \/ /\ readable' = TRUE
        /\ \E through \in SUBSET OLT :
             LET part == [o \in OLT |-> IF o \in through THEN text[p][o] ELSE None] IN
             \/ file' = part /\ UNCHANGED cut
             \/ \E o \in OLT \ through : /\ text[p][o] # None
                                        /\ file' = [part EXCEPT ![o] = NoHost]
                                        /\ cut' = TRUE
  /\ text' = [text EXCEPT ![p] = Nothing]
  /\ behind' = TRUE
  /\ UNCHANGED <<registry, cfg, overlapped, mixed>>

\* mutant: CreateOLT fetches the profiles before it persists the OLT
FetchFirst == "fetch"

AfterRegister == "persist"

\* CreateOLT: RegisterOLT; a registered OLT answers a conflict.
CreateOLT(p, o, h) ==
  /\ reg[o] = None
  /\ Begin(p, o, h, AfterRegister)
  /\ reg' = [reg EXCEPT ![o] = h]
  /\ want' = [want EXCEPT ![o] = h]
  /\ UNCHANGED <<cfg, save>>

\* mutant: UpdateOLT of the handler forgets the address it was given
PersistOldHost(p) == IF cfg[about[p]] = None THEN addr[p] ELSE cfg[about[p]]

PersistedHost(p) == addr[p]

\* Config.OLTs gets the new address, the request goes on to Save.
Persist(p) ==
  /\ at[p] = "persist"
  /\ cfg' = [cfg EXCEPT ![about[p]] = PersistedHost(p)]
  /\ Goto(p, "save")
  /\ UNCHANGED <<registry, overlapped, save>>

\* FetchVLANProfiles over telnet; without credentials, or if it fails or finds
\* none, the request is done.
Fetch(p) ==
  /\ at[p] = "fetch"
  /\ Goto(p, "store") \/ Finish(p)
  /\ UNCHANGED <<registry, cfg, overlapped, save>>

\* The entry is read, given profiles and written back: an entry that is gone
\* by now comes back with an empty address.
StoreProfiles(p) ==
  /\ at[p] = "store"
  /\ LET o == about[p] IN
     cfg' = [cfg EXCEPT ![o] = IF cfg[o] = None THEN NoHost ELSE cfg[o]]
  /\ Goto(p, "saveProfiles")
  /\ UNCHANGED <<registry, overlapped, save>>

\* UpdateOLT of the handler: an OLT that is not registered answers 404.
UpdateOLT(p, o, h) ==
  /\ reg[o] # None
  /\ Begin(p, o, h, "unregister")
  /\ UNCHANGED <<registry, cfg, save>>

\* UpdateOLT of the manager: UnregisterOLT, where an OLT that is gone is no
\* error and a Close that panics ends the request (OltManager) ...
Unregister(p) ==
  /\ at[p] = "unregister"
  /\ \/ reg' = [reg EXCEPT ![about[p]] = None] /\ Goto(p, "reregister")
     \/ reg[about[p]] # None /\ UNCHANGED reg /\ Finish(p)
  /\ UNCHANGED <<cfg, overlapped, want, save>>

\* ... then RegisterOLT, which fails if somebody registered it in between.
Reregister(p) ==
  /\ at[p] = "reregister"
  /\ LET o == about[p] h == addr[p] IN
     \/ /\ reg[o] = None
        /\ reg'  = [reg EXCEPT ![o] = h]
        /\ want' = [want EXCEPT ![o] = h]
        /\ Goto(p, "persist")
     \/ /\ reg[o] # None
        /\ Finish(p)
        /\ UNCHANGED registry
  /\ UNCHANGED <<cfg, overlapped, save>>

\* DeleteOLT: UnregisterOLT (one that panics changes nothing) ...
DeleteOLT(p, o) ==
  /\ reg[o] # None
  /\ Begin(p, o, None, "forget")
  /\ reg'  = [reg EXCEPT ![o] = None]
  /\ want' = [want EXCEPT ![o] = None]
  /\ UNCHANGED <<cfg, save>>

\* mutant: DeleteOLT saves before it removes the entry
NotForgotten(o) == cfg

Forgotten(o) == [cfg EXCEPT ![o] = None]

\* ... then "Remove from config and save".
Forget(p) ==
  /\ at[p] = "forget"
  /\ cfg' = Forgotten(about[p])
  /\ Goto(p, "saveForgotten")
  /\ UNCHANGED <<registry, overlapped, save>>

\* The process dies, in the middle of a Save too, and starts again: requests
\* are lost, main registers what the file has.  It does not start if the file
\* cannot be read.
Restart ==
  /\ readable
  /\ at' = [p \in Proc |-> "idle"]
  /\ about' = [p \in Proc |-> None]
  /\ addr' = [p \in Proc |-> None]
  /\ cfg' = file
  /\ reg' = file
  /\ want' = [o \in OLT |->
                IF Busy(o) \/ behind \/ SomeWrites THEN file[o] ELSE want[o]]
  /\ text' = [p \in Proc |-> Nothing]
  /\ mixed' = FALSE /\ behind' = FALSE
  /\ UNCHANGED <<file, readable, overlapped, cut>>

Next ==
  \/ \E p \in Proc :
       \/ \E o \in OLT :
            \/ DeleteOLT(p, o)
            \/ \E h \in Host : CreateOLT(p, o, h) \/ UpdateOLT(p, o, h)
       \/ SaveOpen(p) \/ SaveFails(p) \/ SaveWrite(p) \/ SaveBreaks(p)
       \/ Persist(p) \/ Fetch(p) \/ StoreProfiles(p)
       \/ Unregister(p) \/ Reregister(p) \/ Forget(p)
  \/ Restart

Spec == Init /\ [][Next]_vars

-----------------------------------------------------------------------------
\* Two requests about one OLT are noticed.
OverlapNoticed ==
  \A p, q \in Proc : p # q /\ about[p] = about[q] /\ about[p] # None =>
    about[p] \in overlapped

RequestOK ==
  /\ \A p \in Proc : at[p] = "idle" <=> about[p] = None
  /\ \A p \in Proc : at[p] \in {"persist", "unregister", "reregister"} => addr[p] \in Host

\* A change of Config.OLTs the request has not come to save yet.
Pending(o) == \E p \in Proc : /\ about[p] = o
                              /\ at[p] \in {"save", "saveProfiles", "saveForgotten"}

\* A Save that meets no other is the only one.
SoleWriter == \A p, q \in Proc : Writing(p) /\ Writing(q) /\ p # q => mixed

UnreadableIsBehind == ~readable => behind \/ SomeWrites

\* The file, or the text that is being written to it, is behind the
\* configuration only for a request that has still to save.
FileCurrent ==
  ~SomeWrites /\ ~behind => \A o \in OLT : file[o] = cfg[o] \/ Pending(o)

TextCurrent ==
  \A p \in Proc : Writing(p) /\ ~mixed =>
    \A o \in OLT : text[p][o] = cfg[o] \/ Pending(o)

Agree(o) == reg[o] = want[o] /\ cfg[o] = want[o]

AtRest == \A o \in OLT : ~Busy(o) /\ o \notin overlapped => Agree(o)

\* How far registry and configuration are at each place of a request.
Progress(p, o) ==
  /\ at[p] \in {"save", "write", "fetch", "store", "saveProfiles", "writeProfiles",
               "unregister"} => Agree(o) /\ cfg[o] # None
  /\ at[p] \in {"saveForgotten", "writeForgotten"} => Agree(o)
  /\ at[p] = "persist" => reg[o] = addr[p] /\ want[o] = addr[p]
  /\ at[p] = "reregister" => reg[o] = None
  /\ at[p] = "forget" => reg[o] = None /\ want[o] = None

Underway ==
  \A p \in Proc : \A o \in OLT : about[p] = o /\ o \notin overlapped => Progress(p, o)

\* When no request is about an OLT, and none ever overlapped on it, registry
\* and configuration have it at the address last asked for, or not at all,
\* and so has the file, unless the last Save failed, met another, or is on its
\* way.  A restart keeps it.
Remembered ==
  \A o \in OLT : ~Busy(o) /\ o \notin overlapped =>
    /\ reg[o] = want[o]
    /\ cfg[o] = want[o]
    /\ ~behind /\ ~SomeWrites => file[o] = want[o] /\ readable

\* An entry with no address, or part of one, gets into the configuration or the
\* file only if two requests were about the same OLT at once, or a write failed
\* in the middle of an entry.
GhostOnlyByOverlap ==
  \A o \in OLT :
    NoHost \in {cfg[o], file[o], reg[o]}
               \cup {text[p][o] : p \in Proc} => o \in overlapped \/ cut

\* The inductive invariant from which the two above are proved.
IInv ==
  /\ TypeOK
  /\ OverlapNoticed
  /\ RequestOK
  /\ SoleWriter
  /\ UnreadableIsBehind
  /\ FileCurrent
  /\ TextCurrent
  /\ AtRest
  /\ Underway
  /\ GhostOnlyByOverlap
=============================================================================
