--------------------------- MODULE OltConfigProofs ---------------------------
(***************************************************************************)
(* Theorems about OltConfig, for any sets of OLTs, requests and addresses. *)
(***************************************************************************)
EXTENDS OltConfig, TLAPS

\* At the start registry, configuration and file are the same.
LEMMA InitIInv == Init => IInv
<1> USE OltConfigAssumption DEF Steps, Entries, Nothing, registry, save
<1> SUFFICES ASSUME Init PROVE IInv
  OBVIOUS
<1>1. TypeOK              BY DEF Init, TypeOK
<1>2. OverlapNoticed      BY DEF Init, OverlapNoticed
<1>3. RequestOK           BY DEF Init, RequestOK
<1>4. SoleWriter          BY DEF Init, SoleWriter, Writing
<1>5. UnreadableIsBehind  BY DEF Init, UnreadableIsBehind
<1>6. FileCurrent         BY DEF Init, FileCurrent
<1>7. TextCurrent         BY DEF Init, TextCurrent, Writing
<1>8. AtRest              BY DEF Init, AtRest, Agree
<1>9. Underway            BY DEF Init, Underway
<1>10. GhostOnlyByOverlap BY DEF Init, GhostOnlyByOverlap
<1> QED
  BY <1>1, <1>2, <1>3, <1>4, <1>5, <1>6, <1>7, <1>8, <1>9, <1>10 DEF IInv

\* A step that changes nothing keeps the invariant.
LEMMA StutterIInv == IInv /\ UNCHANGED vars => IInv'
  BY DEF IInv, vars, registry, save, TypeOK, OverlapNoticed, RequestOK,
         SoleWriter, UnreadableIsBehind, FileCurrent, TextCurrent, Writing,
         SomeWrites, Pending, AtRest, Underway, GhostOnlyByOverlap, Progress,
         Agree, Busy

\* Registering a new OLT keeps it.
LEMMA CreateOLTIInv ==
  ASSUME IInv, NEW p \in Proc, NEW o \in OLT, NEW h \in Host, CreateOLT(p, o, h)
  PROVE  IInv'
<1> USE OltConfigAssumption DEF Steps, Entries, Nothing, registry, save
<1>1. TypeOK'  BY DEF IInv, TypeOK, RequestOK, CreateOLT, Begin, AfterRegister
<1>2. OverlapNoticed'
  BY DEF IInv, TypeOK, OverlapNoticed, RequestOK, Busy, CreateOLT, Begin,
     AfterRegister
<1>3. RequestOK'
  BY DEF IInv, TypeOK, RequestOK, CreateOLT, Begin, AfterRegister
<1>4. SoleWriter'
  BY DEF IInv, TypeOK, SoleWriter, Writing, SomeWrites, CreateOLT, Begin,
     AfterRegister
<1>5. UnreadableIsBehind'
  BY DEF IInv, TypeOK, UnreadableIsBehind, SoleWriter, Writing, SomeWrites,
     CreateOLT, Begin, AfterRegister
<1>6. FileCurrent'
  BY DEF IInv, TypeOK, OverlapNoticed, RequestOK, FileCurrent, TextCurrent,
     SoleWriter, Pending, Writing, SomeWrites, CreateOLT, Begin, AfterRegister
<1>7. TextCurrent'
  BY DEF IInv, TypeOK, OverlapNoticed, RequestOK, TextCurrent, SoleWriter,
     Pending, Writing, SomeWrites, CreateOLT, Begin, AfterRegister
<1>8. AtRest'
  BY DEF IInv, TypeOK, OverlapNoticed, RequestOK, AtRest, Underway,
     Progress, Agree, Busy, CreateOLT, Begin, AfterRegister
<1>9. Underway'
  BY DEF IInv, TypeOK, OverlapNoticed, RequestOK, AtRest, Underway,
     Progress, Agree, Busy, CreateOLT, Begin, AfterRegister
<1>10. GhostOnlyByOverlap'
  BY DEF IInv, TypeOK, OverlapNoticed, RequestOK, AtRest, Underway,
     Progress, Agree, GhostOnlyByOverlap, CreateOLT, Begin, AfterRegister
<1> QED
  BY <1>1, <1>2, <1>3, <1>4, <1>5, <1>6, <1>7, <1>8, <1>9, <1>10 DEF IInv

\* So does accepting an update,
LEMMA UpdateOLTIInv ==
  ASSUME IInv, NEW p \in Proc, NEW o \in OLT, NEW h \in Host, UpdateOLT(p, o, h)
  PROVE  IInv'
<1> USE OltConfigAssumption DEF Steps, Entries, Nothing, registry, save
<1>1. TypeOK'  BY DEF IInv, TypeOK, RequestOK, UpdateOLT, Begin
<1>2. OverlapNoticed'
  BY DEF IInv, TypeOK, OverlapNoticed, RequestOK, Busy, UpdateOLT, Begin
<1>3. RequestOK'  BY DEF IInv, TypeOK, RequestOK, UpdateOLT, Begin
<1>4. SoleWriter'
  BY DEF IInv, TypeOK, SoleWriter, Writing, SomeWrites, UpdateOLT, Begin
<1>5. UnreadableIsBehind'
  BY DEF IInv, TypeOK, UnreadableIsBehind, SoleWriter, Writing, SomeWrites,
     UpdateOLT, Begin
<1>6. FileCurrent'
  BY DEF IInv, TypeOK, OverlapNoticed, RequestOK, FileCurrent, TextCurrent,
     SoleWriter, Pending, Writing, SomeWrites, UpdateOLT, Begin
<1>7. TextCurrent'
  BY DEF IInv, TypeOK, OverlapNoticed, RequestOK, TextCurrent, SoleWriter,
     Pending, Writing, SomeWrites, UpdateOLT, Begin
<1>8. AtRest'
  BY DEF IInv, TypeOK, OverlapNoticed, RequestOK, AtRest, Underway,
     Progress, Agree, Busy, UpdateOLT, Begin
<1>9. Underway'
  BY DEF IInv, TypeOK, OverlapNoticed, RequestOK, AtRest, Underway,
     Progress, Agree, Busy, UpdateOLT, Begin
<1>10. GhostOnlyByOverlap'
  BY DEF IInv, TypeOK, OverlapNoticed, RequestOK, AtRest, Underway,
     Progress, Agree, GhostOnlyByOverlap, UpdateOLT, Begin
<1> QED
  BY <1>1, <1>2, <1>3, <1>4, <1>5, <1>6, <1>7, <1>8, <1>9, <1>10 DEF IInv

\* unregistering for a delete,
LEMMA DeleteOLTIInv ==
  ASSUME IInv, NEW p \in Proc, NEW o \in OLT, DeleteOLT(p, o)
  PROVE  IInv'
<1> USE OltConfigAssumption DEF Steps, Entries, Nothing, registry, save
<1>1. TypeOK'  BY DEF IInv, TypeOK, RequestOK, DeleteOLT, Begin
<1>2. OverlapNoticed'
  BY DEF IInv, TypeOK, OverlapNoticed, RequestOK, Busy, DeleteOLT, Begin
<1>3. RequestOK'  BY DEF IInv, TypeOK, RequestOK, DeleteOLT, Begin
<1>4. SoleWriter'
  BY DEF IInv, TypeOK, SoleWriter, Writing, SomeWrites, DeleteOLT, Begin
<1>5. UnreadableIsBehind'
  BY DEF IInv, TypeOK, UnreadableIsBehind, SoleWriter, Writing, SomeWrites,
     DeleteOLT, Begin
<1>6. FileCurrent'
  BY DEF IInv, TypeOK, OverlapNoticed, RequestOK, FileCurrent, TextCurrent,
     SoleWriter, Pending, Writing, SomeWrites, DeleteOLT, Begin
<1>7. TextCurrent'
  BY DEF IInv, TypeOK, OverlapNoticed, RequestOK, TextCurrent, SoleWriter,
     Pending, Writing, SomeWrites, DeleteOLT, Begin
<1>8. AtRest'
  BY DEF IInv, TypeOK, OverlapNoticed, RequestOK, AtRest, Underway,
     Progress, Agree, Busy, DeleteOLT, Begin
<1>9. Underway'
  BY DEF IInv, TypeOK, OverlapNoticed, RequestOK, AtRest, Underway,
     Progress, Agree, Busy, DeleteOLT, Begin
<1>10. GhostOnlyByOverlap'
  BY DEF IInv, TypeOK, OverlapNoticed, RequestOK, AtRest, Underway,
     Progress, Agree, GhostOnlyByOverlap, DeleteOLT, Begin
<1> QED
  BY <1>1, <1>2, <1>3, <1>4, <1>5, <1>6, <1>7, <1>8, <1>9, <1>10 DEF IInv

\* truncating the file,
LEMMA SaveOpenIInv ==
  ASSUME IInv, NEW p \in Proc, SaveOpen(p)
  PROVE  IInv'
<1> USE OltConfigAssumption DEF Steps, Entries, Nothing, registry, save
<1>1. TypeOK'  BY DEF IInv, TypeOK, RequestOK, SaveOpen, OthersWrite, Goto
<1>2. OverlapNoticed'
  BY DEF IInv, TypeOK, OverlapNoticed, RequestOK, Busy, SaveOpen,
     OthersWrite, Goto
<1>3. RequestOK'  BY DEF IInv, TypeOK, RequestOK, SaveOpen, OthersWrite, Goto
<1>4. SoleWriter'
  BY DEF IInv, TypeOK, SoleWriter, Writing, SomeWrites, SaveOpen,
     OthersWrite, Goto
<1>5. UnreadableIsBehind'
  BY DEF IInv, TypeOK, UnreadableIsBehind, SoleWriter, Writing, SomeWrites,
     SaveOpen, OthersWrite, Goto
<1>6. FileCurrent'
  BY DEF IInv, TypeOK, OverlapNoticed, RequestOK, FileCurrent, TextCurrent,
     SoleWriter, Pending, Writing, SomeWrites, SaveOpen, OthersWrite, Goto
<1>7. TextCurrent'
  BY DEF IInv, TypeOK, OverlapNoticed, RequestOK, TextCurrent, SoleWriter,
     Pending, Writing, SomeWrites, SaveOpen, OthersWrite, Goto
<1>8. AtRest'
  BY DEF IInv, TypeOK, OverlapNoticed, RequestOK, AtRest, Underway,
     Progress, Agree, Busy, SaveOpen, OthersWrite, Goto
<1>9. Underway'
  BY DEF IInv, TypeOK, OverlapNoticed, RequestOK, AtRest, Underway,
     Progress, Agree, Busy, SaveOpen, OthersWrite, Goto
<1>10. GhostOnlyByOverlap'
  BY DEF IInv, TypeOK, OverlapNoticed, RequestOK, AtRest, Underway,
     Progress, Agree, GhostOnlyByOverlap, SaveOpen, OthersWrite, Goto
<1> QED
  BY <1>1, <1>2, <1>3, <1>4, <1>5, <1>6, <1>7, <1>8, <1>9, <1>10 DEF IInv

\* What Saved does to a request, field by field.
LEMMA SavedMoves ==
  ASSUME TypeOK, RequestOK, NEW p \in Proc, Saved(p)
  PROVE  /\ at' \in [Proc -> Steps] /\ about' \in [Proc -> OLT \cup {None}]
         /\ addr' \in [Proc -> Host \cup {None}]
         /\ about[p] \in OLT
         /\ \/ /\ at[p] \in {"save", "write"}
               /\ at'[p] = "fetch" /\ about'[p] = about[p] /\ addr'[p] = addr[p]
            \/ /\ at[p] \in {"saveProfiles", "writeProfiles", "saveForgotten", "writeForgotten"}
               /\ at'[p] = "idle" /\ about'[p] = None
         /\ \A q \in Proc \ {p} :
              at'[q] = at[q] /\ about'[q] = about[q] /\ addr'[q] = addr[q]
<1> USE OltConfigAssumption DEF TypeOK, RequestOK, Steps
<1>1. CASE at[p] \in {"save", "write"} /\ Goto(p, "fetch")
  BY <1>1 DEF Goto
<1>2. CASE /\ at[p] \in {"saveProfiles", "writeProfiles"}
           /\ Finish(p)
  BY <1>2 DEF Finish
<1>3. CASE at[p] \in {"saveForgotten", "writeForgotten"} /\ Finish(p)
  BY <1>3 DEF Finish
<1> QED
  BY <1>1, <1>2, <1>3 DEF Saved

\* a file that cannot be opened,
LEMMA SaveFailsIInv ==
  ASSUME IInv, NEW p \in Proc, SaveFails(p)
  PROVE  IInv'
<1> USE OltConfigAssumption DEF Steps, Entries, Nothing, registry, save
<1>a. /\ at' \in [Proc -> Steps] /\ about' \in [Proc -> OLT \cup {None}]
      /\ addr' \in [Proc -> Host \cup {None}]
      /\ about[p] \in OLT
      /\ \/ /\ at[p] \in {"save", "write"}
            /\ at'[p] = "fetch" /\ about'[p] = about[p] /\ addr'[p] = addr[p]
         \/ /\ at[p] \in {"saveProfiles", "writeProfiles", "saveForgotten", "writeForgotten"}
            /\ at'[p] = "idle" /\ about'[p] = None
      /\ \A q \in Proc \ {p} :
           at'[q] = at[q] /\ about'[q] = about[q] /\ addr'[q] = addr[q]
  BY SavedMoves DEF IInv, SaveFails
<1>b. /\ ~Writing(p)'
      /\ \A q \in Proc \ {p} : Writing(q)' <=> Writing(q)
      /\ \A o \in OLT : o # about[p] => (Pending(o)' <=> Pending(o))
  BY <1>a DEF Writing, Pending
<1>1. TypeOK'
  BY <1>a, <1>b DEF IInv, TypeOK, RequestOK, SaveFails, OthersWrite
<1>2. OverlapNoticed'
  BY <1>a, <1>b DEF IInv, TypeOK, OverlapNoticed, RequestOK, Busy,
     SaveFails, OthersWrite
<1>3. RequestOK'
  BY <1>a, <1>b DEF IInv, TypeOK, RequestOK, SaveFails, OthersWrite
<1>4. SoleWriter'
  BY <1>a, <1>b DEF IInv, TypeOK, SoleWriter, Writing, SomeWrites,
     SaveFails, OthersWrite
<1>5. UnreadableIsBehind'
  BY <1>a, <1>b DEF IInv, TypeOK, UnreadableIsBehind, SoleWriter, Writing,
     SomeWrites, SaveFails, OthersWrite
<1>6. FileCurrent'
  BY <1>a, <1>b DEF IInv, TypeOK, OverlapNoticed, RequestOK, FileCurrent,
     TextCurrent, SoleWriter, Pending, Writing, SomeWrites, SaveFails,
     OthersWrite
<1>7. TextCurrent'
  <2> SUFFICES ASSUME NEW q \in Proc, Writing(q)', ~mixed'
               PROVE  FALSE
    BY DEF TextCurrent
  <2> QED
    BY <1>b DEF SaveFails, OthersWrite
<1>8. AtRest'
  BY <1>a, <1>b DEF IInv, TypeOK, OverlapNoticed, RequestOK, AtRest,
     Underway, Progress, Agree, Busy, SaveFails, OthersWrite
<1>9. Underway'
  BY <1>a, <1>b DEF IInv, TypeOK, OverlapNoticed, RequestOK, AtRest,
     Underway, Progress, Agree, Busy, SaveFails, OthersWrite
<1>10. GhostOnlyByOverlap'
  BY <1>a, <1>b DEF IInv, TypeOK, OverlapNoticed, RequestOK, AtRest,
     Underway, Progress, Agree, GhostOnlyByOverlap, SaveFails, OthersWrite
<1> QED
  BY <1>1, <1>2, <1>3, <1>4, <1>5, <1>6, <1>7, <1>8, <1>9, <1>10 DEF IInv

\* writing the text,
LEMMA SaveWriteIInv ==
  ASSUME IInv, NEW p \in Proc, SaveWrite(p)
  PROVE  IInv'
<1> USE OltConfigAssumption DEF Steps, Entries, Nothing, registry, save
<1>a. /\ at' \in [Proc -> Steps] /\ about' \in [Proc -> OLT \cup {None}]
      /\ addr' \in [Proc -> Host \cup {None}]
      /\ about[p] \in OLT
      /\ \/ /\ at[p] \in {"save", "write"}
            /\ at'[p] = "fetch" /\ about'[p] = about[p] /\ addr'[p] = addr[p]
         \/ /\ at[p] \in {"saveProfiles", "writeProfiles", "saveForgotten", "writeForgotten"}
            /\ at'[p] = "idle" /\ about'[p] = None
      /\ \A q \in Proc \ {p} :
           at'[q] = at[q] /\ about'[q] = about[q] /\ addr'[q] = addr[q]
  BY SavedMoves DEF IInv, SaveWrite
<1>b. /\ ~Writing(p)'
      /\ \A q \in Proc \ {p} : Writing(q)' <=> Writing(q)
      /\ \A o \in OLT : o # about[p] => (Pending(o)' <=> Pending(o))
  BY <1>a DEF Writing, Pending
<1>1. TypeOK'  BY <1>a, <1>b DEF IInv, TypeOK, RequestOK, SaveWrite
<1>2. OverlapNoticed'
  BY <1>a, <1>b DEF IInv, TypeOK, OverlapNoticed, RequestOK, Busy, SaveWrite
<1>3. RequestOK'  BY <1>a, <1>b DEF IInv, TypeOK, RequestOK, SaveWrite
<1>4. SoleWriter'
  BY <1>a, <1>b DEF IInv, TypeOK, SoleWriter, Writing, SomeWrites, SaveWrite
<1>5. UnreadableIsBehind'
  BY <1>a, <1>b DEF IInv, TypeOK, UnreadableIsBehind, SoleWriter, Writing,
     SomeWrites, SaveWrite
<1>6. FileCurrent'
  <2> SUFFICES ASSUME ~SomeWrites', ~behind', NEW o \in OLT
               PROVE  (file[o] = cfg[o])' \/ Pending(o)'
    BY DEF FileCurrent
  <2>1. Writing(p) /\ ~mixed /\ file' = text[p] /\ cfg' = cfg
    BY DEF SaveWrite
  <2>2. text[p][o] = cfg[o] \/ Pending(o)
    BY <2>1 DEF IInv, TextCurrent
  <2>3. Pending(o) => Pending(o)'
    BY <1>a, <2>1 DEF Writing, Pending
  <2> QED
    BY <2>1, <2>2, <2>3
<1>7. TextCurrent'
  <2> SUFFICES ASSUME NEW q \in Proc, Writing(q)', ~mixed'
               PROVE  FALSE
    BY DEF TextCurrent
  <2> QED
    BY <1>b DEF SaveWrite, IInv, SoleWriter
<1>c. UNCHANGED <<reg, want, cfg, overlapped>>
  BY DEF SaveWrite
<1>8. AtRest'
  <2> SUFFICES ASSUME NEW x \in OLT, ~Busy(x)', x \notin overlapped
               PROVE  Agree(x)'
    BY <1>c DEF AtRest
  <2>1. CASE x = about[p]
    BY <1>a, <1>c, <2>1 DEF IInv, Underway, Progress, Agree
  <2>2. CASE x # about[p]
    BY <1>a, <1>c, <2>2 DEF IInv, AtRest, Agree, Busy
  <2> QED
    BY <2>1, <2>2
<1>9. Underway'
  BY <1>a, <1>c DEF IInv, Underway, Progress, Agree
<1>10. GhostOnlyByOverlap'
  BY <1>a, <1>b DEF IInv, TypeOK, OverlapNoticed, RequestOK, AtRest,
     Underway, Progress, Agree, GhostOnlyByOverlap, SaveWrite
<1> QED
  BY <1>1, <1>2, <1>3, <1>4, <1>5, <1>6, <1>7, <1>8, <1>9, <1>10 DEF IInv

\* a write that fails,
LEMMA SaveBreaksIInv ==
  ASSUME IInv, NEW p \in Proc, SaveBreaks(p)
  PROVE  IInv'
<1> USE OltConfigAssumption DEF Steps, Entries, Nothing, registry, save
<1>a. /\ at' \in [Proc -> Steps] /\ about' \in [Proc -> OLT \cup {None}]
      /\ addr' \in [Proc -> Host \cup {None}]
      /\ about[p] \in OLT
      /\ \/ /\ at[p] \in {"save", "write"}
            /\ at'[p] = "fetch" /\ about'[p] = about[p] /\ addr'[p] = addr[p]
         \/ /\ at[p] \in {"saveProfiles", "writeProfiles", "saveForgotten", "writeForgotten"}
            /\ at'[p] = "idle" /\ about'[p] = None
      /\ \A q \in Proc \ {p} :
           at'[q] = at[q] /\ about'[q] = about[q] /\ addr'[q] = addr[q]
  BY SavedMoves DEF IInv, SaveBreaks
<1>b. /\ ~Writing(p)' /\ Writing(p)
      /\ \A q \in Proc \ {p} : Writing(q)' <=> Writing(q)
  BY <1>a DEF Writing, SaveBreaks
<1>c. UNCHANGED <<reg, want, cfg, overlapped, mixed>> /\ behind' = TRUE
  BY DEF SaveBreaks
<1>d. /\ file' \in Entries /\ cut' \in BOOLEAN /\ readable' \in BOOLEAN
      /\ text' \in [Proc -> Entries]
      /\ \A q \in Proc, o \in OLT : text'[q][o] \in {text[q][o], None}
      /\ cut => cut'
      /\ ~cut' => \A o \in OLT : file'[o] \in {file[o], text[p][o], None}
  <2>1. TypeOK
    BY DEF IInv
  <2>2. text' \in [Proc -> Entries] /\ \A q \in Proc, o \in OLT : text'[q][o] \in {text[q][o], None}
    BY <2>1 DEF SaveBreaks, TypeOK
  <2>3. CASE UNCHANGED <<file, cut>> /\ readable' \in {readable, FALSE}
    <3>1. file' \in Entries /\ cut' \in BOOLEAN /\ readable' \in BOOLEAN /\ (cut => cut')
      BY <2>1, <2>3 DEF TypeOK
    <3>2. file' = file
      BY <2>3
    <3> QED
      BY <2>2, <3>1, <3>2
  <2>4. CASE ~(UNCHANGED <<file, cut>> /\ readable' \in {readable, FALSE})
    <3> DEFINE part(through) == [o \in OLT |-> IF o \in through THEN text[p][o] ELSE None]
    <3>1. PICK through \in SUBSET OLT :
            /\ readable' = TRUE
            /\ \/ file' = part(through) /\ UNCHANGED cut
               \/ /\ \E o \in OLT : file' = [part(through) EXCEPT ![o] = NoHost]
                  /\ cut' = TRUE
      BY <2>4 DEF SaveBreaks
    <3>2. part(through) \in Entries /\ \A o \in OLT : part(through)[o] \in {text[p][o], None}
      BY <2>1 DEF TypeOK
    <3>3. file' \in Entries
      BY <3>1, <3>2
    <3>4. /\ cut' \in BOOLEAN /\ readable' \in BOOLEAN /\ (cut => cut')
          /\ ~cut' => file' = part(through)
      BY <2>1, <3>1 DEF TypeOK
    <3> QED
      BY <2>2, <3>2, <3>3, <3>4
  <2> QED
    BY <2>3, <2>4
<1>1. TypeOK'
  BY <1>a, <1>c, <1>d DEF IInv, TypeOK
<1>2. OverlapNoticed'
  BY <1>a, <1>c DEF IInv, OverlapNoticed
<1>3. RequestOK'
  BY <1>a DEF IInv, RequestOK
<1>4. SoleWriter'
  BY <1>b, <1>c DEF IInv, SoleWriter
<1>5. UnreadableIsBehind' /\ FileCurrent'
  BY <1>c DEF UnreadableIsBehind, FileCurrent
<1>6. TextCurrent'
  <2> SUFFICES ASSUME NEW q \in Proc, Writing(q)', ~mixed'
               PROVE  FALSE
    BY DEF TextCurrent
  <2> QED
    BY <1>b, <1>c DEF IInv, SoleWriter
<1>7. AtRest'
  <2> SUFFICES ASSUME NEW x \in OLT, ~Busy(x)', x \notin overlapped
               PROVE  Agree(x)'
    BY <1>c DEF AtRest
  <2>1. CASE x = about[p]
    BY <1>a, <1>c, <2>1 DEF IInv, Underway, Progress, Agree
  <2>2. CASE x # about[p]
    BY <1>a, <1>c, <2>2 DEF IInv, AtRest, Agree, Busy
  <2> QED
    BY <2>1, <2>2
<1>8. Underway'
  BY <1>a, <1>c DEF IInv, Underway, Progress, Agree
<1>9. GhostOnlyByOverlap'
  BY <1>c, <1>d DEF IInv, GhostOnlyByOverlap
<1> QED
  BY <1>1, <1>2, <1>3, <1>4, <1>5, <1>6, <1>7, <1>8, <1>9 DEF IInv

\* writing the entry,
LEMMA PersistIInv ==
  ASSUME IInv, NEW p \in Proc, Persist(p)
  PROVE  IInv'
<1> USE OltConfigAssumption DEF Steps, Entries, Nothing, registry, save
<1>1. TypeOK'  BY DEF IInv, TypeOK, RequestOK, Persist, Goto, PersistedHost
<1>2. OverlapNoticed'
  BY DEF IInv, TypeOK, OverlapNoticed, RequestOK, Busy, Persist, Goto,
     PersistedHost
<1>3. RequestOK'  BY DEF IInv, TypeOK, RequestOK, Persist, Goto, PersistedHost
<1>4. SoleWriter'
  BY DEF IInv, TypeOK, SoleWriter, Writing, SomeWrites, Persist, Goto,
     PersistedHost
<1>5. UnreadableIsBehind'
  BY DEF IInv, TypeOK, UnreadableIsBehind, SoleWriter, Writing, SomeWrites,
     Persist, Goto, PersistedHost
<1>6. FileCurrent'
  BY DEF IInv, TypeOK, OverlapNoticed, RequestOK, FileCurrent, TextCurrent,
     SoleWriter, Pending, Writing, SomeWrites, Persist, Goto, PersistedHost
<1>7. TextCurrent'
  BY DEF IInv, TypeOK, OverlapNoticed, RequestOK, TextCurrent, SoleWriter,
     Pending, Writing, SomeWrites, Persist, Goto, PersistedHost
<1>8. AtRest'
  BY DEF IInv, TypeOK, OverlapNoticed, RequestOK, AtRest, Underway,
     Progress, Agree, Busy, Persist, Goto, PersistedHost
<1>9. Underway'
  BY DEF IInv, TypeOK, OverlapNoticed, RequestOK, AtRest, Underway,
     Progress, Agree, Busy, Persist, Goto, PersistedHost
<1>10. GhostOnlyByOverlap'
  BY DEF IInv, TypeOK, OverlapNoticed, RequestOK, AtRest, Underway,
     Progress, Agree, GhostOnlyByOverlap, Persist, Goto, PersistedHost
<1> QED
  BY <1>1, <1>2, <1>3, <1>4, <1>5, <1>6, <1>7, <1>8, <1>9, <1>10 DEF IInv

\* the telnet session,
LEMMA FetchIInv ==
  ASSUME IInv, NEW p \in Proc, Fetch(p)
  PROVE  IInv'
<1> USE OltConfigAssumption DEF Steps, Entries, Nothing, registry, save
<1>a. /\ at[p] = "fetch" /\ about[p] \in OLT
      /\ at' \in [Proc -> Steps] /\ about' \in [Proc -> OLT \cup {None}]
      /\ addr' \in [Proc -> Host \cup {None}]
      /\ \/ at'[p] = "store" /\ about'[p] = about[p] /\ addr'[p] = addr[p]
         \/ at'[p] = "idle" /\ about'[p] = None
      /\ \A q \in Proc \ {p} :
           at'[q] = at[q] /\ about'[q] = about[q] /\ addr'[q] = addr[q]
      /\ UNCHANGED <<cfg, overlapped, save>>
  BY DEF IInv, TypeOK, RequestOK, Fetch, Goto, Finish
<1>b. /\ \A q \in Proc : Writing(q)' <=> Writing(q)
      /\ \A o \in OLT : Pending(o)' <=> Pending(o)
  BY <1>a DEF Writing, Pending, IInv, TypeOK
<1>1. TypeOK'  BY DEF IInv, TypeOK, RequestOK, Fetch, Goto, Finish
<1>2. OverlapNoticed'  BY <1>a DEF IInv, OverlapNoticed
<1>3. RequestOK'  BY <1>a DEF IInv, RequestOK
<1>4. SoleWriter'
  BY DEF IInv, TypeOK, SoleWriter, Writing, SomeWrites, Fetch, Goto, Finish
<1>5. UnreadableIsBehind'
  BY DEF IInv, TypeOK, UnreadableIsBehind, SoleWriter, Writing, SomeWrites,
     Fetch, Goto, Finish
<1>6. FileCurrent'  BY <1>a, <1>b DEF IInv, FileCurrent, SomeWrites
<1>7. TextCurrent'  BY <1>a, <1>b DEF IInv, TextCurrent
<1>8. AtRest'
  BY DEF IInv, TypeOK, OverlapNoticed, RequestOK, AtRest, Underway,
     Progress, Agree, Busy, Fetch, Goto, Finish
<1>9. Underway'
  BY DEF IInv, TypeOK, OverlapNoticed, RequestOK, AtRest, Underway,
     Progress, Agree, Busy, Fetch, Goto, Finish
<1>10. GhostOnlyByOverlap'
  BY DEF IInv, TypeOK, OverlapNoticed, RequestOK, AtRest, Underway,
     Progress, Agree, GhostOnlyByOverlap, Fetch, Goto, Finish
<1> QED
  BY <1>1, <1>2, <1>3, <1>4, <1>5, <1>6, <1>7, <1>8, <1>9, <1>10 DEF IInv

\* writing the entry again with its profiles,
LEMMA StoreProfilesIInv ==
  ASSUME IInv, NEW p \in Proc, StoreProfiles(p)
  PROVE  IInv'
<1> USE OltConfigAssumption DEF Steps, Entries, Nothing, registry, save
<1>1. TypeOK'  BY DEF IInv, TypeOK, RequestOK, StoreProfiles, Goto
<1>2. OverlapNoticed'
  BY DEF IInv, TypeOK, OverlapNoticed, RequestOK, Busy, StoreProfiles, Goto
<1>3. RequestOK'  BY DEF IInv, TypeOK, RequestOK, StoreProfiles, Goto
<1>4. SoleWriter'
  BY DEF IInv, TypeOK, SoleWriter, Writing, SomeWrites, StoreProfiles, Goto
<1>5. UnreadableIsBehind'
  BY DEF IInv, TypeOK, UnreadableIsBehind, SoleWriter, Writing, SomeWrites,
     StoreProfiles, Goto
<1>6. FileCurrent'
  BY DEF IInv, TypeOK, OverlapNoticed, RequestOK, FileCurrent, TextCurrent,
     SoleWriter, Pending, Writing, SomeWrites, StoreProfiles, Goto
<1>7. TextCurrent'
  BY DEF IInv, TypeOK, OverlapNoticed, RequestOK, TextCurrent, SoleWriter,
     Pending, Writing, SomeWrites, StoreProfiles, Goto
<1>8. AtRest'
  BY DEF IInv, TypeOK, OverlapNoticed, RequestOK, AtRest, Underway,
     Progress, Agree, Busy, StoreProfiles, Goto
<1>9. Underway'
  BY DEF IInv, TypeOK, OverlapNoticed, RequestOK, AtRest, Underway,
     Progress, Agree, Busy, StoreProfiles, Goto
<1>10. GhostOnlyByOverlap'
  BY DEF IInv, TypeOK, OverlapNoticed, RequestOK, AtRest, Underway,
     Progress, Agree, GhostOnlyByOverlap, StoreProfiles, Goto
<1> QED
  BY <1>1, <1>2, <1>3, <1>4, <1>5, <1>6, <1>7, <1>8, <1>9, <1>10 DEF IInv

\* the first half of an update,
LEMMA UnregisterIInv ==
  ASSUME IInv, NEW p \in Proc, Unregister(p)
  PROVE  IInv'
<1> USE OltConfigAssumption DEF Steps, Entries, Nothing, registry, save
<1>a. /\ at[p] = "unregister" /\ about[p] \in OLT
      /\ at' \in [Proc -> Steps] /\ about' \in [Proc -> OLT \cup {None}]
      /\ addr' \in [Proc -> Host \cup {None}]
      /\ \/ at'[p] = "reregister" /\ about'[p] = about[p] /\ addr'[p] = addr[p]
         \/ at'[p] = "idle" /\ about'[p] = None
      /\ \A q \in Proc \ {p} :
           at'[q] = at[q] /\ about'[q] = about[q] /\ addr'[q] = addr[q]
      /\ UNCHANGED <<cfg, overlapped, save>>
  <2>1. CASE Goto(p, "reregister")
    BY <2>1 DEF IInv, TypeOK, RequestOK, Unregister, Goto
  <2>2. CASE Finish(p)
    BY <2>2 DEF IInv, TypeOK, RequestOK, Unregister, Finish
  <2> QED
    BY <2>1, <2>2 DEF Unregister
<1>b. /\ \A q \in Proc : Writing(q)' <=> Writing(q)
      /\ \A o \in OLT : Pending(o)' <=> Pending(o)
  BY <1>a DEF Writing, Pending, IInv, TypeOK
<1>1. TypeOK'  BY <1>a DEF IInv, TypeOK, Unregister
<1>2. OverlapNoticed'  BY <1>a DEF IInv, OverlapNoticed
<1>3. RequestOK'  BY <1>a DEF IInv, RequestOK
<1>4. SoleWriter'
  BY DEF IInv, TypeOK, SoleWriter, Writing, SomeWrites, Unregister, Goto,
     Finish
<1>5. UnreadableIsBehind'
  BY DEF IInv, TypeOK, UnreadableIsBehind, SoleWriter, Writing, SomeWrites,
     Unregister, Goto, Finish
<1>6. FileCurrent'  BY <1>a, <1>b DEF IInv, FileCurrent, SomeWrites
<1>7. TextCurrent'  BY <1>a, <1>b DEF IInv, TextCurrent
<1>8. AtRest'
  BY DEF IInv, TypeOK, OverlapNoticed, RequestOK, AtRest, Underway,
     Progress, Agree, Busy, Unregister, Goto, Finish
<1>9. Underway'
  BY DEF IInv, TypeOK, OverlapNoticed, RequestOK, AtRest, Underway,
     Progress, Agree, Busy, Unregister, Goto, Finish
<1>10. GhostOnlyByOverlap'
  BY DEF IInv, TypeOK, OverlapNoticed, RequestOK, AtRest, Underway,
     Progress, Agree, GhostOnlyByOverlap, Unregister, Goto, Finish
<1> QED
  BY <1>1, <1>2, <1>3, <1>4, <1>5, <1>6, <1>7, <1>8, <1>9, <1>10 DEF IInv

\* its second half,
LEMMA ReregisterIInv ==
  ASSUME IInv, NEW p \in Proc, Reregister(p)
  PROVE  IInv'
<1> USE OltConfigAssumption DEF Steps, Entries, Nothing, registry, save
<1>a. /\ at[p] = "reregister" /\ about[p] \in OLT
      /\ at' \in [Proc -> Steps] /\ about' \in [Proc -> OLT \cup {None}]
      /\ addr' \in [Proc -> Host \cup {None}]
      /\ \/ at'[p] = "persist" /\ about'[p] = about[p] /\ addr'[p] = addr[p]
         \/ at'[p] = "idle" /\ about'[p] = None
      /\ \A q \in Proc \ {p} :
           at'[q] = at[q] /\ about'[q] = about[q] /\ addr'[q] = addr[q]
      /\ UNCHANGED <<cfg, overlapped, save>>
  <2>1. CASE Goto(p, "persist")
    BY <2>1 DEF IInv, TypeOK, RequestOK, Reregister, Goto
  <2>2. CASE Finish(p)
    BY <2>2 DEF IInv, TypeOK, RequestOK, Reregister, Finish
  <2> QED
    BY <2>1, <2>2 DEF Reregister
<1>b. /\ \A q \in Proc : Writing(q)' <=> Writing(q)
      /\ \A o \in OLT : Pending(o)' <=> Pending(o)
  BY <1>a DEF Writing, Pending, IInv, TypeOK
<1>1. TypeOK'
  <2>1. addr[p] \in Host
    BY <1>a DEF IInv, RequestOK
  <2> QED
    BY <1>a, <2>1 DEF IInv, TypeOK, Reregister
<1>2. OverlapNoticed'  BY <1>a DEF IInv, OverlapNoticed
<1>3. RequestOK'  BY <1>a DEF IInv, RequestOK
<1>4. SoleWriter'
  BY DEF IInv, TypeOK, SoleWriter, Writing, SomeWrites, Reregister, Goto,
     Finish
<1>5. UnreadableIsBehind'
  BY DEF IInv, TypeOK, UnreadableIsBehind, SoleWriter, Writing, SomeWrites,
     Reregister, Goto, Finish
<1>6. FileCurrent'  BY <1>a, <1>b DEF IInv, FileCurrent, SomeWrites
<1>7. TextCurrent'  BY <1>a, <1>b DEF IInv, TextCurrent
<1>8. AtRest'
  BY DEF IInv, TypeOK, OverlapNoticed, RequestOK, AtRest, Underway,
     Progress, Agree, Busy, Reregister, Goto, Finish
<1>9. Underway'
  BY DEF IInv, TypeOK, OverlapNoticed, RequestOK, AtRest, Underway,
     Progress, Agree, Busy, Reregister, Goto, Finish
<1>10. GhostOnlyByOverlap'
  BY DEF IInv, TypeOK, OverlapNoticed, RequestOK, AtRest, Underway,
     Progress, Agree, GhostOnlyByOverlap, Reregister, Goto, Finish
<1> QED
  BY <1>1, <1>2, <1>3, <1>4, <1>5, <1>6, <1>7, <1>8, <1>9, <1>10 DEF IInv

\* removing the entry,
LEMMA ForgetIInv ==
  ASSUME IInv, NEW p \in Proc, Forget(p)
  PROVE  IInv'
<1> USE OltConfigAssumption DEF Steps, Entries, Nothing, registry, save
<1>1. TypeOK'  BY DEF IInv, TypeOK, RequestOK, Forget, Forgotten, Goto
<1>2. OverlapNoticed'
  BY DEF IInv, TypeOK, OverlapNoticed, RequestOK, Busy, Forget, Forgotten,
     Goto
<1>3. RequestOK'  BY DEF IInv, TypeOK, RequestOK, Forget, Forgotten, Goto
<1>4. SoleWriter'
  BY DEF IInv, TypeOK, SoleWriter, Writing, SomeWrites, Forget, Forgotten,
     Goto
<1>5. UnreadableIsBehind'
  BY DEF IInv, TypeOK, UnreadableIsBehind, SoleWriter, Writing, SomeWrites,
     Forget, Forgotten, Goto
<1>6. FileCurrent'
  BY DEF IInv, TypeOK, OverlapNoticed, RequestOK, FileCurrent, TextCurrent,
     SoleWriter, Pending, Writing, SomeWrites, Forget, Forgotten, Goto
<1>7. TextCurrent'
  BY DEF IInv, TypeOK, OverlapNoticed, RequestOK, TextCurrent, SoleWriter,
     Pending, Writing, SomeWrites, Forget, Forgotten, Goto
<1>8. AtRest'
  BY DEF IInv, TypeOK, OverlapNoticed, RequestOK, AtRest, Underway,
     Progress, Agree, Busy, Forget, Forgotten, Goto
<1>9. Underway'
  BY DEF IInv, TypeOK, OverlapNoticed, RequestOK, AtRest, Underway,
     Progress, Agree, Busy, Forget, Forgotten, Goto
<1>10. GhostOnlyByOverlap'
  BY DEF IInv, TypeOK, OverlapNoticed, RequestOK, AtRest, Underway,
     Progress, Agree, GhostOnlyByOverlap, Forget, Forgotten, Goto
<1> QED
  BY <1>1, <1>2, <1>3, <1>4, <1>5, <1>6, <1>7, <1>8, <1>9, <1>10 DEF IInv

\* and a restart, which makes all three equal.
LEMMA RestartIInv ==
  ASSUME IInv, Restart
  PROVE  IInv'
<1> USE OltConfigAssumption DEF Steps, Entries, Nothing, registry, save
<1>1. TypeOK'  BY DEF IInv, TypeOK, RequestOK, Restart
<1>2. OverlapNoticed'
  BY DEF IInv, TypeOK, OverlapNoticed, RequestOK, Busy, Restart
<1>3. RequestOK'  BY DEF IInv, TypeOK, RequestOK, Restart
<1>4. SoleWriter'
  BY DEF IInv, TypeOK, SoleWriter, Writing, SomeWrites, Restart
<1>5. UnreadableIsBehind'
  BY DEF IInv, TypeOK, UnreadableIsBehind, SoleWriter, Writing, SomeWrites,
     Restart
<1>6. FileCurrent'
  BY DEF IInv, TypeOK, OverlapNoticed, RequestOK, FileCurrent, TextCurrent,
     SoleWriter, Pending, Writing, SomeWrites, Restart
<1>7. TextCurrent'
  BY DEF IInv, TypeOK, OverlapNoticed, RequestOK, TextCurrent, SoleWriter,
     Pending, Writing, SomeWrites, Restart
<1>8. AtRest'
  <2> SUFFICES ASSUME NEW x \in OLT, x \notin overlapped
               PROVE  Agree(x)'
    BY DEF AtRest, Restart
  <2>1. /\ reg'[x] = file[x] /\ cfg'[x] = file[x]
        /\ want'[x] = IF Busy(x) \/ behind \/ SomeWrites THEN file[x] ELSE want[x]
    BY DEF Restart
  <2>2. CASE Busy(x) \/ behind \/ SomeWrites
    BY <2>1, <2>2 DEF Agree
  <2>3. CASE ~(Busy(x) \/ behind \/ SomeWrites)
    <3>1. file[x] = want[x]
      BY <2>3 DEF IInv, FileCurrent, AtRest, Agree, Busy, Pending
    <3> QED
      BY <2>1, <2>3, <3>1 DEF Agree
  <2> QED
    BY <2>2, <2>3
<1>9. Underway'
  BY DEF IInv, TypeOK, OverlapNoticed, RequestOK, AtRest, Underway,
     Progress, Agree, Busy, Restart
<1>10. GhostOnlyByOverlap'
  BY DEF IInv, TypeOK, OverlapNoticed, RequestOK, AtRest, Underway,
     Progress, Agree, GhostOnlyByOverlap, Restart
<1> QED
  BY <1>1, <1>2, <1>3, <1>4, <1>5, <1>6, <1>7, <1>8, <1>9, <1>10 DEF IInv

\* Every step keeps the invariant.
LEMMA NextIInv == IInv /\ [Next]_vars => IInv'
<1> SUFFICES ASSUME IInv, Next PROVE IInv'
  BY StutterIInv
<1> QED
  BY CreateOLTIInv, UpdateOLTIInv, DeleteOLTIInv, SaveOpenIInv,
     SaveFailsIInv, SaveWriteIInv, SaveBreaksIInv, PersistIInv, FetchIInv,
     StoreProfilesIInv, UnregisterIInv, ReregisterIInv, ForgetIInv,
     RestartIInv DEF Next

\* The invariant holds in every reachable state.
THEOREM Invariance == Spec => []IInv
  BY InitIInv, NextIInv, PTL DEF Spec

\* An OLT no request is about is in registry, configuration and file as the
\* last request left it, if requests about it never overlapped.
THEOREM RememberedHolds == Spec => []Remembered
<1>1. IInv => Remembered
  BY DEF IInv, TypeOK, Remembered, AtRest, Agree, UnreadableIsBehind,
         FileCurrent, Pending, Busy
<1> QED
  BY Invariance, <1>1, PTL

\* Entries without an address come only from overlapping requests, or a write
\* that failed in the middle of an entry.
THEOREM GhostOnlyByOverlapHolds == Spec => []GhostOnlyByOverlap
<1>1. IInv => GhostOnlyByOverlap
  BY DEF IInv
<1> QED
  BY Invariance, <1>1, PTL
=============================================================================
