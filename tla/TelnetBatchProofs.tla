-------------------------- MODULE TelnetBatchProofs --------------------------
(***************************************************************************)
(* Theorems about TelnetBatch, for any ids, serial numbers and requests,   *)
(* and any number of stray prompt characters but where it is said.         *)
(***************************************************************************)
EXTENDS TelnetBatch, SequenceTheorems, TLAPS

LEMMA BatchFacts ==
  /\ Len(Batch) = 3 /\ Batch \in Seq(Line) /\ Batch # <<>> /\ Head(Batch) = "onu"
  /\ \A j \in 1 .. Len(Batch) : Batch[j] \in {"onu", "interface", "set"}
BY DEF Batch, Line

\* A step of request p leaves what belongs to the others alone.
Mine(p) ==
  /\ place'    = [place EXCEPT ![p] = place'[p]]
  /\ id'       = [id EXCEPT ![p] = id'[p]]
  /\ sn'       = [sn EXCEPT ![p] = sn'[p]]
  /\ left'     = [left EXCEPT ![p] = left'[p]]
  /\ failed'   = [failed EXCEPT ![p] = failed'[p]]
  /\ answer'   = [answer EXCEPT ![p] = answer'[p]]
  /\ input'    = [input EXCEPT ![p] = input'[p]]
  /\ output'   = [output EXCEPT ![p] = output'[p]]
  /\ up'       = [up EXCEPT ![p] = up'[p]]
  /\ mode'     = [mode EXCEPT ![p] = mode'[p]]
  /\ asking'   = [asking EXCEPT ![p] = asking'[p]]
  /\ strays'   = [strays EXCEPT ![p] = strays'[p]]
  /\ verdicts' = [verdicts EXCEPT ![p] = verdicts'[p]]
  /\ declined' = [declined EXCEPT ![p] = declined'[p]]
  /\ blind'    = [blind EXCEPT ![p] = blind'[p]]

\* What p has after its step is of the right kind.
MineTyped(p) ==
  /\ place'[p] \in Places /\ id'[p] \in Id /\ sn'[p] \in SN \cup {None}
  /\ left'[p] \in 0 .. Len(Batch) /\ failed'[p] \in BOOLEAN
  /\ answer'[p] \in {"none", "success", "failure"}
  /\ input'[p] \in Seq(Line) /\ output'[p] \in Seq(Piece)
  /\ up'[p] \in BOOLEAN /\ mode'[p] \in Id \cup {None} /\ asking'[p] \in BOOLEAN
  /\ strays'[p] \in 0 .. MaxStray /\ verdicts'[p] \in Seq(BOOLEAN)
  /\ declined'[p] \in BOOLEAN /\ blind'[p] \in BOOLEAN

\* Handlers: all but the OLT's registrations and settings.
LEMMA HandlerMine ==
  ASSUME TypeOK, NEW p \in Proc,
         (\E i \in Id, s \in SN \cup {None} : Begin(p, i, s)) \/ Session(p) \/ Drop(p)
  PROVE  Mine(p) /\ UNCHANGED olt
<1> USE DEF TypeOK, Mine, olt, request, stream, device, ghost, Goto
<1>1. CASE \E i \in Id, s \in SN \cup {None} : Begin(p, i, s)
  BY <1>1 DEF Begin
<1>2. CASE Connect(p)
  BY <1>2 DEF Connect, Login
<1>3. CASE ConnectFails(p) \/ ReadFails(p)
  BY <1>3 DEF ConnectFails, ReadFails, Fail, Answer
<1>4. CASE WriteBatch(p)
  BY <1>4 DEF WriteBatch, Type
<1>5. CASE ReadPrompt(p)
  BY <1>5 DEF ReadPrompt
<1>6. CASE Validate(p)
  BY <1>6 DEF Validate, Succeed, Fail, Answer
<1>7. ASSUME NEW here, NEW line, NEW next, WriteCommand(p, here, line, next)
      PROVE  Mine(p) /\ UNCHANGED olt
  BY <1>7 DEF WriteCommand, Type
<1>8. ASSUME NEW here, NEW next, ReadCommand(p, here, next)
      PROVE  Mine(p) /\ UNCHANGED olt
  BY <1>8 DEF ReadCommand
<1>9. CASE ReadReboot(p)
  BY <1>9 DEF ReadReboot, Type, Succeed, Answer
<1>10. CASE ReadRebootFails(p)
  BY <1>10 DEF ReadRebootFails, Type, Succeed, Answer
<1>11. CASE Drop(p)
  BY <1>11 DEF Drop
<1> QED
  BY <1>1, <1>2, <1>3, <1>4, <1>5, <1>6, <1>7, <1>8, <1>9, <1>10, <1>11 DEF Session, Reboot

LEMMA ExecuteMine ==
  ASSUME TypeOK, NEW p \in Proc, Execute(p)
  PROVE  Mine(p) /\ UNCHANGED <<request, up, blind, failedOn>>
<1> USE DEF TypeOK, Mine, olt, request, Executed, Output
<1>1. ASSUME NEW line, Reject(p, line) PROVE Mine(p) /\ UNCHANGED <<request, up, blind, failedOn>>
  BY <1>1 DEF Reject
<1>2. CASE AcceptOnu(p)
  BY <1>2 DEF AcceptOnu
<1>3. CASE AcceptConfig(p)
  BY <1>3 DEF AcceptConfig
<1>4. ASSUME NEW line, AcceptSelect(p, line) PROVE Mine(p) /\ UNCHANGED <<request, up, blind, failedOn>>
  BY <1>4 DEF AcceptSelect
<1>5. CASE AcceptSet(p)
  BY <1>5 DEF AcceptSet
<1>6. CASE AskReboot(p)
  BY <1>6 DEF AskReboot
<1>7. CASE AnswerQuestion(p)
  BY <1>7 DEF AnswerQuestion
<1>8. CASE Exit(p)
  BY <1>8 DEF Exit
<1> QED
  BY <1>1, <1>2, <1>3, <1>4, <1>5, <1>6, <1>7, <1>8 DEF Execute

-----------------------------------------------------------------------------
(* The invariant, request by request. *)

Applied(p) == Succeeded(p) =>
  \A c \in 1 .. Len(Batch) - strays[p] : c \in DOMAIN verdicts[p] /\ verdicts[p][c]

NotDeclined(p) == declined[p] => strays[p] > 0 \/ blind[p]

Own(p) == /\ StageOK(p) /\ InputOK(p) /\ OutputCounted(p) /\ RegisteredStays(p)
          /\ RebootIsLast(p) /\ Lockstep(p) /\ Applied(p) /\ NotDeclined(p)

LEMMA OwnIInv == IInv <=> TypeOK /\ SettingsExplained /\ \A p \in Proc : Own(p)
BY DEF IInv, Own, Applied, NotDeclined, SuccessMeansApplied, RebootNotDeclined

\* What a request has does not change, nor does what is registered for good.
Still(q) ==
  /\ place'[q] = place[q] /\ id'[q] = id[q] /\ sn'[q] = sn[q] /\ left'[q] = left[q]
  /\ failed'[q] = failed[q] /\ answer'[q] = answer[q] /\ input'[q] = input[q]
  /\ output'[q] = output[q] /\ up'[q] = up[q] /\ mode'[q] = mode[q]
  /\ asking'[q] = asking[q] /\ strays'[q] = strays[q] /\ verdicts'[q] = verdicts[q]
  /\ declined'[q] = declined[q] /\ blind'[q] = blind[q]

Grows == /\ \A i \in Id : onus[i] # None => onus'[i] = onus[i]
         /\ failedOn \subseteq failedOn'

LEMMA StillOwn ==
  ASSUME TypeOK, NEW q \in Proc, Own(q), Still(q), Grows
  PROVE  Own(q)'
<1> USE DEF Own, Still, Grows, TypeOK
<1>1. StageOK(q)' /\ InputOK(q)'
  BY DEF StageOK, InputOK
<1>2. OutputCounted(q)'
  BY DEF OutputCounted, PromptsRead
<1>3. RegisteredStays(q)'
  BY TelnetBatchAssumption DEF RegisteredStays
<1>4. RebootIsLast(q)' /\ Lockstep(q)' /\ Applied(q)' /\ NotDeclined(q)'
  BY DEF RebootIsLast, Lockstep, Applied, Succeeded, NotDeclined
<1> QED
  BY <1>1, <1>2, <1>3, <1>4

LEMMA MineStill ==
  ASSUME TypeOK, NEW p \in Proc, Mine(p), NEW q \in Proc, q # p
  PROVE  Still(q)
BY DEF TypeOK, Mine, Still

\* A step of p keeps the invariant if it keeps what is said of p and of the OLT.
LEMMA MineIInv ==
  ASSUME IInv, NEW p \in Proc, Mine(p), MineTyped(p), Own(p)', Grows,
         onus' \in [Id -> SN \cup {None}], settings' \in [Id -> SN \cup {None}],
         failedOn' \subseteq Id, \A i \in Id : onus'[i] = None => settings'[i] = None,
         SettingsExplained'
  PROVE  IInv'
<1>1. TypeOK'
  <2> USE DEF IInv, TypeOK, Mine, MineTyped
  <2>1. /\ place' \in [Proc -> Places] /\ id' \in [Proc -> Id]
        /\ sn' \in [Proc -> SN \cup {None}] /\ left' \in [Proc -> 0 .. Len(Batch)]
        /\ failed' \in [Proc -> BOOLEAN] /\ answer' \in [Proc -> {"none", "success", "failure"}]
    OBVIOUS
  <2>2. /\ input' \in [Proc -> Seq(Line)] /\ output' \in [Proc -> Seq(Piece)]
        /\ up' \in [Proc -> BOOLEAN] /\ mode' \in [Proc -> Id \cup {None}]
        /\ asking' \in [Proc -> BOOLEAN]
    OBVIOUS
  <2>3. /\ strays' \in [Proc -> 0 .. MaxStray] /\ verdicts' \in [Proc -> Seq(BOOLEAN)]
        /\ declined' \in [Proc -> BOOLEAN] /\ blind' \in [Proc -> BOOLEAN]
    OBVIOUS
  <2> QED
    BY <2>1, <2>2, <2>3
<1>2. \A q \in Proc : q # p => Own(q)'
  BY MineStill, StillOwn, OwnIInv
<1> QED
  BY <1>1, <1>2 DEF IInv, Own, Applied, NotDeclined, SuccessMeansApplied, RebootNotDeclined

\* If the OLT stays as it is: what p answers for is explained.
LEMMA HandlerIInv ==
  ASSUME IInv, NEW p \in Proc, Mine(p), MineTyped(p), Own(p)', UNCHANGED olt,
         failedOn \subseteq failedOn', failedOn' \subseteq Id,
         \/ place[p] = "idle"
         \/ place'[p] # "idle" /\ id'[p] = id[p] /\ sn'[p] = sn[p]
         \/ MaxStray < Len(Batch) => sn[p] \in {None, onus[id[p]]} \/ id[p] \in failedOn'
  PROVE  IInv'
<1>1. Grows
  BY DEF Grows, olt
<1>2. SettingsExplained'
  <2> SUFFICES ASSUME MaxStray < Len(Batch), NEW i \in Id,
                      settings[i] \notin {None, onus[i]}, i \notin failedOn'
               PROVE  \E q \in Proc : place'[q] # "idle" /\ id'[q] = i /\ sn'[q] = settings[i]
    BY DEF SettingsExplained, olt
  <2>1. PICK q \in Proc : place[q] # "idle" /\ id[q] = i /\ sn[q] = settings[i]
    BY DEF SettingsExplained, IInv
  <2>2. CASE q = p
    BY <2>1, <2>2
  <2>3. CASE q # p
    BY <2>1, <2>3, MineStill DEF Still, IInv
  <2> QED
    BY <2>2, <2>3
<1>3. /\ onus' \in [Id -> SN \cup {None}] /\ settings' \in [Id -> SN \cup {None}]
      /\ \A i \in Id : onus'[i] = None => settings'[i] = None
  BY DEF IInv, TypeOK, olt
<1> QED
  BY <1>1, <1>2, <1>3, MineIInv

-----------------------------------------------------------------------------
(* Sequences. *)

LEMMA TailFacts ==
  ASSUME NEW S, NEW s \in Seq(S), s # <<>>
  PROVE  /\ Len(s) \in Nat /\ Len(s) > 0 /\ Head(s) = s[1] /\ Head(s) \in S
         /\ Tail(s) \in Seq(S) /\ Len(Tail(s)) = Len(s) - 1
         /\ \A j \in 1 .. Len(s) - 1 : Tail(s)[j] = s[j + 1]
BY HeadTailProperties, LenProperties, EmptySeq

LEMMA EmptyFacts ==
  /\ <<>> \in Seq(Line) /\ <<>> \in Seq(Piece) /\ <<>> \in Seq(BOOLEAN) /\ Len(<<>>) = 0
  /\ \A s \in Seq(Line) : Len(s) \in Nat /\ (Len(s) = 0 <=> s = <<>>)
  /\ \A s \in Seq(Piece) : Len(s) \in Nat /\ (Len(s) = 0 <=> s = <<>>)
  /\ \A s \in Seq(BOOLEAN) : Len(s) \in Nat /\ (Len(s) = 0 <=> s = <<>>)
BY EmptySeq, LenProperties

\* What a request has when it starts or ends.
LEMMA ZeroFacts ==
  /\ <<>> \in Seq(Line) /\ <<>> \in Seq(Piece) /\ <<>> \in Seq(BOOLEAN)
  /\ 0 \in 0 .. Len(Batch) /\ 3 \in 0 .. Len(Batch) /\ 0 \in 0 .. MaxStray
BY EmptyFacts, BatchFacts, TelnetBatchAssumption

\* Both kinds of stream and the verdicts, as the steps below need them.
LEMMA LenFacts ==
  ASSUME TypeOK, NEW p \in Proc
  PROVE  /\ input[p] \in Seq(Line) /\ output[p] \in Seq(Piece) /\ verdicts[p] \in Seq(BOOLEAN)
         /\ Len(input[p]) \in Nat /\ Len(output[p]) \in Nat /\ Len(verdicts[p]) \in Nat
         /\ Len(input[p]) = 0 <=> input[p] = <<>>
         /\ Len(output[p]) = 0 <=> output[p] = <<>>
         /\ Len(verdicts[p]) = 0 <=> verdicts[p] = <<>>
         /\ left[p] \in 0 .. 3 /\ strays[p] \in Nat
BY EmptyFacts, BatchFacts, TelnetBatchAssumption DEF TypeOK

-----------------------------------------------------------------------------
(* The handlers. *)

LEMMA BeginIInv ==
  ASSUME IInv, NEW p \in Proc, NEW i \in Id, NEW s \in SN \cup {None}, Begin(p, i, s)
  PROVE  IInv'
<1>1. Own(p) /\ TypeOK
  BY OwnIInv
<1>2. Mine(p) /\ UNCHANGED olt
  BY <1>1, HandlerMine
<1>3. /\ place[p] = "idle" /\ place'[p] = "connect" /\ id'[p] = i /\ sn'[p] = s
      /\ left'[p] = left[p] /\ failed'[p] = failed[p] /\ answer'[p] = "none"
      /\ input'[p] = <<>> /\ output'[p] = output[p] /\ up'[p] = FALSE
      /\ mode'[p] = None /\ asking'[p] = FALSE /\ strays'[p] = 0
      /\ verdicts'[p] = <<>> /\ declined'[p] = FALSE /\ blind'[p] = FALSE
      /\ failedOn' = failedOn
  BY <1>1 DEF Begin, Goto, TypeOK
<1>4. output[p] = <<>> /\ left[p] = 0
  BY <1>1, <1>3, LenFacts DEF Own, StageOK
<1>5. MineTyped(p)
  BY <1>1, <1>3, <1>4, ZeroFacts DEF MineTyped, TypeOK, Places
<1>6. Own(p)'
  BY <1>3, <1>4, EmptyFacts DEF Own, StageOK, InputOK, OutputCounted, RegisteredStays, RebootIsLast,
     Lockstep, Applied, Succeeded, NotDeclined
<1> QED
  BY <1>1, <1>2, <1>3, <1>5, <1>6, HandlerIInv DEF TypeOK

LEMMA ConnectIInv ==
  ASSUME IInv, NEW p \in Proc, Connect(p)
  PROVE  IInv'
<1>1. Own(p) /\ TypeOK
  BY OwnIInv
<1>2. Mine(p) /\ UNCHANGED olt
  BY <1>1, HandlerMine DEF Session
<1>3. PICK k \in 0 .. MaxStray :
        /\ strays' = [strays EXCEPT ![p] = k]
        /\ output' = [output EXCEPT ![p] = [j \in 1 .. k |-> [bad |-> FALSE, ask |-> FALSE]]]
  BY DEF Connect, Login
<1>4. output'[p] \in Seq(Piece) /\ Len(output'[p]) = k
  <2> DEFINE piece == [bad |-> FALSE, ask |-> FALSE]
  <2>1. piece \in Piece
    BY DEF Piece
  <2>2. [j \in 1 .. k |-> piece] \in Seq(Piece) /\ Len([j \in 1 .. k |-> piece]) = k
    BY <2>1
  <2> QED
    BY <1>1, <1>3, <2>2 DEF TypeOK
<1>5. /\ place[p] = "connect" /\ place'[p] = (IF sn[p] = None THEN "config" ELSE "batch")
      /\ id'[p] = id[p] /\ sn'[p] = sn[p] /\ left'[p] = left[p] /\ failed'[p] = failed[p]
      /\ answer'[p] = answer[p] /\ input'[p] = input[p] /\ up'[p] = TRUE
      /\ mode'[p] = mode[p] /\ asking'[p] = asking[p] /\ strays'[p] = k
      /\ verdicts'[p] = verdicts[p] /\ declined'[p] = declined[p] /\ blind'[p] = blind[p]
      /\ failedOn' = failedOn /\ onus' = onus
  BY <1>1, <1>3 DEF Connect, Goto, TypeOK, olt
<1>6. MineTyped(p)
  BY <1>1, <1>4, <1>5 DEF MineTyped, TypeOK, Places
<1>7. input[p] = <<>> /\ verdicts[p] = <<>> /\ answer[p] = "none" /\ ~(left[p] > 0)
  BY <1>1, <1>5 DEF Own, StageOK
<1>8. StageOK(p)' /\ InputOK(p)' /\ RegisteredStays(p)' /\ RebootIsLast(p)'
  BY <1>1, <1>5, <1>7, EmptyFacts DEF Own, StageOK, InputOK, RegisteredStays, RebootIsLast
<1>9. OutputCounted(p)' /\ Lockstep(p)'
  BY <1>1, <1>4, <1>5, <1>7, EmptyFacts DEF Own, OutputCounted, PromptsRead, RebootIsLast, Lockstep
<1>10. Applied(p)' /\ NotDeclined(p)'
  BY <1>1, <1>5, <1>7 DEF Own, RebootIsLast, Applied, Succeeded, NotDeclined
<1> QED
  BY <1>1, <1>2, <1>5, <1>6, <1>8, <1>9, <1>10, HandlerIInv DEF Own, TypeOK

\* What is typed: a line of a reboot, or the batch.
LEMMA TypeFacts ==
  ASSUME TypeOK, NEW p \in Proc, NEW lines \in Seq(Line), Type(p, lines)
  PROVE  /\ input'[p] = (IF up[p] THEN input[p] \o lines ELSE input[p])
         /\ input'[p] \in Seq(Line)
         /\ input[p] = <<>> /\ up[p] => input'[p] = lines
BY ConcatProperties, ConcatEmptySeq DEF TypeOK, Type

LEMMA WriteBatchIInv ==
  ASSUME IInv, NEW p \in Proc, WriteBatch(p)
  PROVE  IInv'
<1>1. Own(p) /\ TypeOK
  BY OwnIInv
<1>2. Mine(p) /\ UNCHANGED olt
  BY <1>1, HandlerMine DEF Session
<1>3. /\ place[p] = "batch" /\ place'[p] = "prompts" /\ left'[p] = 3
      /\ id'[p] = id[p] /\ sn'[p] = sn[p] /\ failed'[p] = failed[p]
      /\ answer'[p] = answer[p] /\ output'[p] = output[p] /\ up'[p] = up[p]
      /\ mode'[p] = mode[p] /\ asking'[p] = asking[p] /\ strays'[p] = strays[p]
      /\ verdicts'[p] = verdicts[p] /\ declined'[p] = declined[p] /\ blind'[p] = blind[p]
      /\ failedOn' = failedOn /\ onus' = onus
  BY <1>1, BatchFacts DEF WriteBatch, Goto, TypeOK, olt, device, ghost
<1>4. input[p] = <<>> /\ verdicts[p] = <<>> /\ answer[p] = "none" /\ sn[p] # None
  BY <1>1, <1>3 DEF Own, StageOK
<1>5. /\ input'[p] = (IF up[p] THEN Batch ELSE <<>>)
      /\ input'[p] \in Seq(Line)
      /\ \A j \in 1 .. Len(input'[p]) : input'[p][j] \in {"onu", "interface", "set"}
      /\ input'[p] # <<>> => Head(input'[p]) = "onu" /\ up[p]
  <2>1. input'[p] = (IF up[p] THEN Batch ELSE <<>>)
    BY <1>1, <1>4, BatchFacts, TypeFacts DEF WriteBatch
  <2>2. CASE up[p]
    BY <2>1, <2>2, BatchFacts
  <2>3. CASE ~up[p]
    BY <2>1, <2>3, EmptyFacts
  <2> QED
    BY <2>1, <2>2, <2>3
<1>6. MineTyped(p)
  BY <1>1, <1>3, <1>5, ZeroFacts DEF MineTyped, TypeOK, Places
<1>7. StageOK(p)' /\ InputOK(p)' /\ RegisteredStays(p)'
  BY <1>1, <1>3, <1>4, <1>5 DEF Own, StageOK, InputOK, RegisteredStays
<1>8. RebootIsLast(p)' /\ Lockstep(p)'
  BY <1>1, <1>3, <1>4, <1>5 DEF Own, RebootIsLast, Lockstep
<1>9. OutputCounted(p)' /\ Applied(p)' /\ NotDeclined(p)'
  BY <1>1, <1>3, <1>4, BatchFacts, EmptyFacts DEF Own, OutputCounted, PromptsRead, Applied, Succeeded, NotDeclined
<1> QED
  BY <1>1, <1>2, <1>3, <1>6, <1>7, <1>8, <1>9, HandlerIInv DEF Own, TypeOK

\* One piece is read: its rejection is noted, and all others come one nearer.
LEMMA ReadPromptIInv ==
  ASSUME IInv, NEW p \in Proc, ReadPrompt(p)
  PROVE  IInv'
<1>1. Own(p) /\ TypeOK
  BY OwnIInv
<1>2. Mine(p) /\ UNCHANGED olt
  BY <1>1, HandlerMine DEF Session
<1>3. /\ place[p] = "prompts" /\ place'[p] = (IF left[p] > 1 THEN "prompts" ELSE "validate")
      /\ output[p] # <<>> /\ output'[p] = Tail(output[p])
      /\ failed'[p] = (failed[p] \/ Head(output[p]).bad) /\ left'[p] = left[p] - 1
      /\ id'[p] = id[p] /\ sn'[p] = sn[p]
      /\ answer'[p] = answer[p] /\ input'[p] = input[p] /\ up'[p] = up[p]
      /\ mode'[p] = mode[p] /\ asking'[p] = asking[p] /\ strays'[p] = strays[p]
      /\ verdicts'[p] = verdicts[p] /\ declined'[p] = declined[p] /\ blind'[p] = blind[p]
      /\ failedOn' = failedOn /\ onus' = onus
  BY <1>1 DEF ReadPrompt, ReadsOn, Goto, TypeOK, olt, device, ghost
<1>4. left[p] \in 1 .. 3 /\ sn[p] # None /\ answer[p] = "none"
  BY <1>1, <1>3, LenFacts DEF Own, StageOK
<1>5. /\ output[p] \in Seq(Piece) /\ Len(output[p]) \in Nat /\ Len(output[p]) > 0
      /\ output'[p] \in Seq(Piece) /\ Len(output'[p]) = Len(output[p]) - 1
      /\ Head(output[p]) = output[p][1] /\ Head(output[p]).bad \in BOOLEAN
      /\ \A j \in 1 .. Len(output[p]) - 1 : output'[p][j] = output[p][j + 1]
  <2>1. output[p] \in Seq(Piece) /\ \A piece \in Piece : piece.bad \in BOOLEAN
    BY <1>1 DEF TypeOK, Piece
  <2> QED
    BY <1>3, <2>1, TailFacts
<1>6. MineTyped(p)
  BY <1>1, <1>3, <1>4, <1>5, ZeroFacts DEF MineTyped, TypeOK, Places
<1>7. StageOK(p)' /\ InputOK(p)' /\ RegisteredStays(p)'
  BY <1>1, <1>3, <1>4 DEF Own, StageOK, InputOK, RegisteredStays
<1>8. RebootIsLast(p)' /\ Lockstep(p)' /\ Applied(p)' /\ NotDeclined(p)'
  BY <1>1, <1>3, <1>4 DEF Own, RebootIsLast, Lockstep, Applied, Succeeded, NotDeclined
<1>9. OutputCounted(p)'
  <2>1. PromptsRead(p) = 3 - left[p] /\ PromptsRead(p)' = PromptsRead(p) + 1
    BY <1>3, <1>4, BatchFacts DEF PromptsRead
  <2>2. Len(output[p]) + PromptsRead(p) = strays[p] + Len(verdicts[p])
    BY <1>1, <1>3 DEF Own, OutputCounted
  <2>3. Len(output'[p]) + PromptsRead(p)' = strays'[p] + Len(verdicts'[p])
    BY <1>3, <1>4, <1>5, <2>1, <2>2
  <2>4. ASSUME NEW c \in 1 .. Len(verdicts'[p]), ~verdicts'[p][c], ~failed'[p]
        PROVE  \E j \in 1 .. Len(output'[p]) :
                 output'[p][j].bad /\ j + PromptsRead(p)' <= c + strays'[p]
    <3>1. PICK j \in 1 .. Len(output[p]) :
            output[p][j].bad /\ j + PromptsRead(p) <= c + strays[p]
      BY <1>1, <1>3, <2>4 DEF Own, OutputCounted
    <3>2. j # 1
      BY <1>3, <1>5, <2>4, <3>1
    <3>3. j - 1 \in 1 .. Len(output'[p]) /\ output'[p][j - 1] = output[p][j]
      BY <1>5, <3>2
    <3>4. (j - 1) + PromptsRead(p)' <= c + strays'[p]
      BY <1>3, <1>4, <2>1, <3>1
    <3> QED
      BY <3>1, <3>3, <3>4
  <2> QED
    BY <2>3, <2>4 DEF OutputCounted
<1> QED
  BY <1>1, <1>2, <1>3, <1>4, <1>6, <1>7, <1>8, <1>9, HandlerIInv DEF Own, TypeOK

\* A handler fails: before "reboot", there is nothing to confirm.
LEMMA FailIInv ==
  ASSUME IInv, NEW p \in Proc, Mine(p), place[p] \notin {"idle", "rebootPrompt"},
         Fail(p), UNCHANGED <<olt, id, sn, input, device, declined, blind>>
  PROVE  IInv'
<1>1. Own(p) /\ TypeOK
  BY OwnIInv
<1>2. /\ place'[p] = "idle" /\ answer'[p] = "failure" /\ output'[p] = <<>>
      /\ left'[p] = 0 /\ failed'[p] = FALSE /\ strays'[p] = 0 /\ verdicts'[p] = <<>>
      /\ id'[p] = id[p] /\ sn'[p] = sn[p] /\ input'[p] = input[p] /\ up'[p] = up[p]
      /\ mode'[p] = mode[p] /\ asking'[p] = asking[p] /\ declined'[p] = declined[p]
      /\ blind'[p] = blind[p] /\ onus' = onus
      /\ failedOn' = (IF sn[p] = None THEN failedOn ELSE failedOn \cup {id[p]})
  BY <1>1 DEF Fail, Answer, Goto, TypeOK, olt, device
<1>3. MineTyped(p)
  BY <1>1, <1>2, ZeroFacts DEF MineTyped, TypeOK, Places
<1>4. failedOn \subseteq failedOn' /\ failedOn' \subseteq Id
  BY <1>1, <1>2 DEF TypeOK
<1>5. Own(p)'
  BY <1>1, <1>2 DEF Own, StageOK, InputOK, OutputCounted, RegisteredStays, RebootIsLast,
     Lockstep, Applied, Succeeded, NotDeclined
<1> QED
  BY <1>2, <1>3, <1>4, <1>5, HandlerIInv

\* A handler succeeds, which has read all the prompts it was to read.
LEMMA SucceedFacts ==
  ASSUME IInv, NEW p \in Proc, Succeed(p), UNCHANGED <<olt, id, sn, device, declined>>
  PROVE  /\ Own(p) /\ TypeOK
         /\ place'[p] = "idle" /\ answer'[p] = "success" /\ output'[p] = <<>>
         /\ left'[p] = 0 /\ failed'[p] = FALSE /\ strays'[p] = strays[p]
         /\ verdicts'[p] = verdicts[p] /\ id'[p] = id[p] /\ sn'[p] = sn[p]
         /\ up'[p] = up[p] /\ mode'[p] = mode[p] /\ asking'[p] = asking[p]
         /\ declined'[p] = declined[p] /\ onus' = onus /\ failedOn' = failedOn
         /\ input'[p] \in Seq(Line) /\ blind'[p] \in BOOLEAN => MineTyped(p)
<1>1. Own(p) /\ TypeOK
  BY OwnIInv
<1>2. /\ place'[p] = "idle" /\ answer'[p] = "success" /\ output'[p] = <<>>
      /\ left'[p] = 0 /\ failed'[p] = FALSE /\ strays'[p] = strays[p]
      /\ verdicts'[p] = verdicts[p] /\ id'[p] = id[p] /\ sn'[p] = sn[p]
      /\ up'[p] = up[p] /\ mode'[p] = mode[p] /\ asking'[p] = asking[p]
      /\ declined'[p] = declined[p] /\ onus' = onus /\ failedOn' = failedOn
  BY <1>1 DEF Succeed, Answer, Goto, TypeOK, olt, device
<1> QED
  BY <1>1, <1>2, ZeroFacts DEF MineTyped, TypeOK, Places

\* A command that was rejected in spite of success is one of the last.
LEMMA ValidateIInv ==
  ASSUME IInv, NEW p \in Proc, Validate(p)
  PROVE  IInv'
<1>1. Own(p) /\ TypeOK
  BY OwnIInv
<1>2. Mine(p) /\ UNCHANGED olt
  BY <1>1, HandlerMine DEF Session
<1>3. CASE Fail(p)
  BY <1>2, <1>3, FailIInv DEF Validate
<1>4. CASE ~failed[p] /\ Succeed(p)
  <2>1. /\ place'[p] = "idle" /\ answer'[p] = "success" /\ output'[p] = <<>>
        /\ left'[p] = 0 /\ strays'[p] = strays[p]
        /\ verdicts'[p] = verdicts[p] /\ id'[p] = id[p] /\ sn'[p] = sn[p]
        /\ up'[p] = up[p] /\ mode'[p] = mode[p] /\ asking'[p] = asking[p]
        /\ declined'[p] = declined[p] /\ onus' = onus /\ failedOn' = failedOn
        /\ input'[p] = input[p] /\ blind'[p] = blind[p] /\ MineTyped(p)
    BY <1>1, <1>4, SucceedFacts DEF Validate, TypeOK
  <2>2. place[p] = "validate" /\ sn[p] # None /\ left[p] = 0 /\ PromptsRead(p) = 3
    BY <1>1, LenFacts, BatchFacts DEF Validate, Own, StageOK, PromptsRead
  <2>3. Applied(p)'
    <3> SUFFICES ASSUME NEW c \in 1 .. 3 - strays[p]
                 PROVE  c \in DOMAIN verdicts[p] /\ verdicts[p][c]
      BY <2>1, BatchFacts DEF Applied
    <3>1. verdicts[p] \in Seq(BOOLEAN) /\ strays[p] \in Nat /\ Len(output[p]) \in Nat
      BY <1>1, LenFacts
    <3>2. Len(output[p]) + 3 = strays[p] + Len(verdicts[p])
      BY <1>1, <2>2 DEF Own, OutputCounted
    <3>3. c \in 1 .. Len(verdicts[p])
      BY <3>1, <3>2, LenProperties
    <3>4. ASSUME ~verdicts[p][c] PROVE FALSE
      <4>1. PICK j \in 1 .. Len(output[p]) : j + 3 <= c + strays[p]
        BY <1>1, <1>4, <2>2, <3>3, <3>4 DEF Own, OutputCounted
      <4> QED
        BY <3>1, <4>1
    <3> QED
      BY <3>1, <3>3, <3>4, LenProperties
  <2>4. StageOK(p)' /\ InputOK(p)' /\ OutputCounted(p)' /\ RegisteredStays(p)'
    BY <1>1, <2>1 DEF Own, StageOK, InputOK, OutputCounted, RegisteredStays
  <2>5. RebootIsLast(p)' /\ Lockstep(p)' /\ NotDeclined(p)'
    BY <1>1, <2>1, <2>2 DEF Own, RebootIsLast, Lockstep, NotDeclined
  <2>6. MaxStray < Len(Batch) => onus[id[p]] = sn[p]
    <3> SUFFICES ASSUME MaxStray < 3 PROVE onus[id[p]] = sn[p]
      BY BatchFacts
    <3>1. strays[p] \in 0 .. MaxStray
      BY <1>1 DEF TypeOK
    <3>2. 1 \in 1 .. 3 - strays[p]
      BY <3>1, TelnetBatchAssumption
    <3>3. 1 \in DOMAIN verdicts[p] /\ verdicts[p][1]
      BY <2>1, <2>2, <2>3, <3>2, BatchFacts DEF Applied, Succeeded
    <3>4. verdicts[p] # <<>>
      BY <3>3
    <3> QED
      BY <1>1, <2>2, <3>3, <3>4 DEF Own, RegisteredStays
  <2>7. failedOn \subseteq failedOn' /\ failedOn' \subseteq Id
    BY <1>1, <2>1 DEF TypeOK
  <2> QED
    BY <1>2, <2>1, <2>3, <2>4, <2>5, <2>6, <2>7, HandlerIInv DEF Own
<1> QED
  BY <1>3, <1>4 DEF Validate, OutputValid

LEMMA FailsIInv ==
  ASSUME IInv, NEW p \in Proc, ConnectFails(p) \/ ReadFails(p)
  PROVE  IInv'
<1>1. Mine(p) /\ UNCHANGED olt
  BY HandlerMine, OwnIInv DEF Session
<1>2. place[p] \notin {"idle", "rebootPrompt"}
  BY DEF ConnectFails, ReadFails
<1> QED
  BY <1>1, <1>2, FailIInv DEF ConnectFails, ReadFails

\* A line of a reboot is typed, "reboot" the last.
LEMMA WriteCommandIInv ==
  ASSUME IInv, NEW p \in Proc, NEW line \in {"config", "select", "reboot"},
         NEW next \in {"configPrompt", "selectPrompt", "rebootPrompt"},
         line = "reboot" <=> next = "rebootPrompt",
         WriteCommand(p, line, line, next), Mine(p)
  PROVE  IInv'
<1>1. Own(p) /\ TypeOK
  BY OwnIInv
<1>2. /\ place[p] = line /\ place'[p] = next
      /\ id'[p] = id[p] /\ sn'[p] = sn[p] /\ left'[p] = left[p] /\ failed'[p] = failed[p]
      /\ answer'[p] = answer[p] /\ output'[p] = output[p] /\ up'[p] = up[p]
      /\ mode'[p] = mode[p] /\ asking'[p] = asking[p] /\ strays'[p] = strays[p]
      /\ verdicts'[p] = verdicts[p] /\ declined'[p] = declined[p] /\ blind'[p] = blind[p]
      /\ failedOn' = failedOn /\ onus' = onus /\ UNCHANGED olt
  BY <1>1 DEF WriteCommand, Goto, TypeOK, olt, device, ghost
<1>3. sn[p] = None /\ answer[p] = "none" /\ ~(left[p] > 0)
  BY <1>1, <1>2 DEF Own, StageOK
<1>4. /\ input'[p] \in Seq(Line)
      /\ Len(input'[p]) <= Len(input[p]) + 1
      /\ input'[p] # <<>> => up[p] \/ input[p] # <<>>
      /\ line # "reboot" /\ (\A j \in 1 .. Len(input[p]) : input[p][j] # "reboot") =>
           \A j \in 1 .. Len(input'[p]) : input'[p][j] # "reboot"
  <2>1. <<line>> \in Seq(Line) /\ Len(<<line>>) = 1 /\ <<line>>[1] = line
    BY DEF Line
  <2>2. Type(p, <<line>>) /\ input[p] \in Seq(Line)
    BY <1>1 DEF WriteCommand, TypeOK
  <2>3. CASE ~up[p]
    <3>1. input'[p] = input[p] /\ Len(input[p]) \in Nat
      BY <1>1, <2>1, <2>2, <2>3, LenFacts, TypeFacts
    <3> QED
      BY <2>2, <3>1
  <2>4. CASE up[p]
    <3>1. input'[p] = input[p] \o <<line>>
      BY <1>1, <2>1, <2>2, <2>4, TypeFacts
    <3>2. /\ Len(input[p] \o <<line>>) = Len(input[p]) + 1
          /\ input[p] \o <<line>> \in Seq(Line)
          /\ \A j \in 1 .. Len(input[p]) + 1 :
               (input[p] \o <<line>>)[j] = IF j <= Len(input[p]) THEN input[p][j]
                                           ELSE <<line>>[j - Len(input[p])]
      BY <2>1, <2>2, ConcatProperties
    <3>3. Len(input[p]) \in Nat
      BY <1>1, LenFacts
    <3> QED
      BY <2>1, <2>4, <3>1, <3>2, <3>3
  <2> QED
    BY <2>3, <2>4
<1>5. MineTyped(p)
  BY <1>1, <1>2, <1>4 DEF MineTyped, TypeOK, Places
<1>6. StageOK(p)' /\ InputOK(p)' /\ OutputCounted(p)' /\ RegisteredStays(p)'
  BY <1>1, <1>2, <1>3 DEF Own, StageOK, InputOK, OutputCounted, RegisteredStays
<1>7. RebootIsLast(p)' /\ Applied(p)' /\ NotDeclined(p)'
  BY <1>1, <1>2, <1>3, <1>4 DEF Own, RebootIsLast, Applied, Succeeded, NotDeclined
<1>8. Lockstep(p)'
  <2> SUFFICES ASSUME strays[p] = 0, ~blind[p]
               PROVE  Len(input'[p]) + Len(output[p]) <= 1 /\ ~asking[p]
    BY <1>2 DEF Lockstep
  <2>1. input[p] = <<>> /\ output[p] = <<>>
    BY <1>1, <1>2, <1>3 DEF Own, Lockstep
  <2>2. ~asking[p]
    BY <1>1, <1>2 DEF Own, RebootIsLast
  <2>3. Len(input[p]) = 0 /\ Len(output[p]) = 0 /\ Len(input'[p]) \in Nat
    BY <1>4, <2>1, EmptyFacts
  <2> QED
    BY <1>4, <2>2, <2>3
<1> QED
  BY <1>1, <1>2, <1>5, <1>6, <1>7, <1>8, HandlerIInv DEF Own, TypeOK

\* The piece a reboot reads is, without a stray character, the only one.
LEMMA ReadCommandIInv ==
  ASSUME IInv, NEW p \in Proc, NEW here \in {"configPrompt", "selectPrompt"},
         NEW next \in {"select", "reboot"}, ReadCommand(p, here, next), Mine(p)
  PROVE  IInv'
<1>1. Own(p) /\ TypeOK
  BY OwnIInv
<1>2. /\ place[p] = here /\ place'[p] = next /\ output[p] # <<>> /\ output'[p] = Tail(output[p])
      /\ id'[p] = id[p] /\ sn'[p] = sn[p] /\ left'[p] = left[p] /\ failed'[p] = failed[p]
      /\ answer'[p] = answer[p] /\ input'[p] = input[p] /\ up'[p] = up[p]
      /\ mode'[p] = mode[p] /\ asking'[p] = asking[p] /\ strays'[p] = strays[p]
      /\ verdicts'[p] = verdicts[p] /\ declined'[p] = declined[p] /\ blind'[p] = blind[p]
      /\ failedOn' = failedOn /\ onus' = onus /\ UNCHANGED olt
  BY <1>1 DEF ReadCommand, Goto, TypeOK, olt, device, ghost
<1>3. sn[p] = None /\ answer[p] = "none" /\ ~(left[p] > 0)
  BY <1>1, <1>2 DEF Own, StageOK
<1>4. /\ output'[p] \in Seq(Piece) /\ Len(output'[p]) = Len(output[p]) - 1
      /\ Len(output[p]) \in Nat /\ Len(output[p]) > 0
  <2>1. output[p] \in Seq(Piece)
    BY <1>1, LenFacts
  <2> QED
    BY <1>2, <2>1, TailFacts
<1>5. MineTyped(p)
  BY <1>1, <1>2, <1>4 DEF MineTyped, TypeOK, Places
<1>6. StageOK(p)' /\ InputOK(p)' /\ OutputCounted(p)' /\ RegisteredStays(p)'
  BY <1>1, <1>2, <1>3 DEF Own, StageOK, InputOK, OutputCounted, RegisteredStays
<1>7. RebootIsLast(p)' /\ Applied(p)' /\ NotDeclined(p)'
  BY <1>1, <1>2, <1>3 DEF Own, RebootIsLast, Applied, Succeeded, NotDeclined
<1>8. Lockstep(p)'
  <2> SUFFICES ASSUME strays[p] = 0, ~blind[p]
               PROVE  /\ input[p] = <<>> /\ output'[p] = <<>> /\ ~asking[p]
                      /\ Len(input[p]) + Len(output'[p]) <= 1
    BY <1>2 DEF Lockstep
  <2>1. Len(input[p]) + Len(output[p]) <= 1 /\ ~asking[p]
    BY <1>1, <1>2, <1>3 DEF Own, Lockstep, RebootIsLast
  <2>2. Len(input[p]) \in Nat /\ (Len(input[p]) = 0 <=> input[p] = <<>>)
    BY <1>1, LenFacts
  <2>3. Len(output'[p]) = 0 <=> output'[p] = <<>>
    BY <1>4, EmptyFacts
  <2>4. \A a, b \in Nat : b > 0 /\ a + b <= 1 => a = 0 /\ b = 1
    OBVIOUS
  <2>5. Len(input[p]) = 0 /\ Len(output[p]) = 1
    BY <1>4, <2>1, <2>2, <2>4
  <2>6. Len(output'[p]) = 0
    BY <1>4, <2>5
  <2> QED
    BY <2>1, <2>2, <2>3, <2>5, <2>6
<1> QED
  BY <1>1, <1>2, <1>5, <1>6, <1>7, <1>8, HandlerIInv DEF Own, TypeOK

\* The answer to the question is typed before the first "exit", if the piece
\* that was read is the question.
LEMMA ReadRebootIInv ==
  ASSUME IInv, NEW p \in Proc, ReadReboot(p)
  PROVE  IInv'
<1> DEFINE lines == Confirm(Head(output[p])) \o <<"exit", "exit">>
<1>1. Mine(p) /\ UNCHANGED olt
  BY HandlerMine, OwnIInv DEF Session, Reboot
<1>2. input'[p] \in Seq(Line) /\ blind'[p] \in BOOLEAN => MineTyped(p)
  BY SucceedFacts DEF ReadReboot
<1>3. /\ Own(p) /\ TypeOK
      /\ place'[p] = "idle" /\ answer'[p] = "success" /\ output'[p] = <<>>
      /\ left'[p] = 0 /\ strays'[p] = strays[p]
      /\ verdicts'[p] = verdicts[p] /\ id'[p] = id[p] /\ sn'[p] = sn[p]
      /\ up'[p] = up[p] /\ mode'[p] = mode[p] /\ asking'[p] = asking[p]
      /\ declined'[p] = declined[p] /\ onus' = onus /\ failedOn' = failedOn
      /\ blind'[p] = blind[p]
  BY SucceedFacts DEF ReadReboot
<1>4. place[p] = "rebootPrompt" /\ output[p] # <<>> /\ Type(p, lines) /\ sn[p] = None
  BY <1>3 DEF ReadReboot, Own, StageOK
<1>5. /\ lines \in Seq(Line) /\ lines # <<>>
      /\ \A j \in 1 .. Len(lines) : lines[j] # "reboot"
      /\ Head(output[p]).ask => Head(lines) = "y"
  <2>1. CASE Head(output[p]).ask
    <3>1. lines = <<"y">> \o <<"exit", "exit">>
      BY <2>1 DEF Confirm
    <3> HIDE DEF lines
    <3>2. /\ <<"y">> \in Seq(Line) /\ Len(<<"y">>) = 1 /\ <<"y">>[1] = "y"
          /\ <<"exit", "exit">> \in Seq(Line) /\ Len(<<"exit", "exit">>) = 2
          /\ \A j \in 1 .. 2 : <<"exit", "exit">>[j] = "exit"
      BY DEF Line
    <3>3. /\ lines \in Seq(Line) /\ Len(lines) = 3 /\ lines[1] = "y"
          /\ \A j \in 2 .. 3 : lines[j] = "exit"
      BY <3>1, <3>2, ConcatProperties
    <3>4. lines # <<>>
      BY <3>3, EmptyFacts
    <3>5. Head(lines) = "y"
      BY <3>3, <3>4, TailFacts
    <3> QED
      BY <3>3, <3>4, <3>5
  <2>2. CASE ~Head(output[p]).ask
    <3>1. lines = <<"exit", "exit">>
      BY <2>2 DEF Confirm
    <3> HIDE DEF lines
    <3> QED
      BY <2>2, <3>1 DEF Line
  <2> QED
    BY <2>1, <2>2
<1> HIDE DEF lines
<1>6. /\ input'[p] \in Seq(Line)
      /\ input'[p] = (IF up[p] THEN input[p] \o lines ELSE input[p])
      /\ input[p] = <<>> /\ up[p] => input'[p] = lines
  BY <1>3, <1>4, <1>5, TypeFacts
<1>7. MineTyped(p)
  BY <1>2, <1>3, <1>6 DEF TypeOK
<1>8. StageOK(p)' /\ InputOK(p)' /\ OutputCounted(p)' /\ RegisteredStays(p)'
  BY <1>3, <1>4 DEF Own, StageOK, InputOK, OutputCounted, RegisteredStays
<1>9. RebootIsLast(p)' /\ Applied(p)' /\ NotDeclined(p)'
  BY <1>3, <1>4, <1>6 DEF Own, RebootIsLast, Applied, Succeeded, NotDeclined
<1>10. Lockstep(p)'
  <2> SUFFICES ASSUME strays[p] = 0, ~blind[p]
               PROVE  /\ \A j \in 1 .. Len(input'[p]) : input'[p][j] # "reboot"
                      /\ asking[p] => input'[p] = <<>> \/ Head(input'[p]) = "y"
    BY <1>3 DEF Lockstep
  <2>1. /\ Len(input[p]) + Len(output[p]) <= 1
        /\ asking[p] => Head(output[p]).ask
    BY <1>3, <1>4 DEF Own, Lockstep
  <2>2. input[p] = <<>>
    <3>1. /\ Len(input[p]) \in Nat /\ Len(output[p]) \in Nat /\ Len(output[p]) # 0
          /\ Len(input[p]) = 0 <=> input[p] = <<>>
      BY <1>3, <1>4, LenFacts
    <3>2. \A a, b \in Nat : b # 0 /\ a + b <= 1 => a = 0
      OBVIOUS
    <3> QED
      BY <2>1, <3>1, <3>2
  <2>3. input'[p] \in {<<>>, lines}
    BY <1>6, <2>2
  <2> QED
    BY <1>5, <2>1, <2>3, EmptyFacts
<1> QED
  BY <1>1, <1>3, <1>4, <1>7, <1>8, <1>9, <1>10, HandlerIInv DEF Own, TypeOK

\* Without that piece nothing is known of the question.
LEMMA ReadRebootFailsIInv ==
  ASSUME IInv, NEW p \in Proc, ReadRebootFails(p)
  PROVE  IInv'
<1>1. Mine(p) /\ UNCHANGED olt
  BY HandlerMine, OwnIInv DEF Session, Reboot
<1>2. input'[p] \in Seq(Line) /\ blind'[p] \in BOOLEAN => MineTyped(p)
  BY SucceedFacts DEF ReadRebootFails
<1>3. /\ Own(p) /\ TypeOK
      /\ place'[p] = "idle" /\ answer'[p] = "success" /\ output'[p] = <<>>
      /\ left'[p] = 0 /\ strays'[p] = strays[p]
      /\ verdicts'[p] = verdicts[p] /\ id'[p] = id[p] /\ sn'[p] = sn[p]
      /\ up'[p] = up[p] /\ mode'[p] = mode[p] /\ asking'[p] = asking[p]
      /\ declined'[p] = declined[p] /\ onus' = onus /\ failedOn' = failedOn
  BY SucceedFacts DEF ReadRebootFails
<1>4. place[p] = "rebootPrompt" /\ sn[p] = None /\ blind'[p] = TRUE
  BY <1>3 DEF ReadRebootFails, Own, StageOK, TypeOK
<1>5. /\ input'[p] \in Seq(Line)
      /\ input'[p] # <<>> => up[p] \/ input[p] # <<>>
  <2>1. <<"exit", "exit">> \in Seq(Line)
    BY DEF Line
  <2> QED
    BY <1>3, <2>1, TypeFacts DEF ReadRebootFails
<1>6. MineTyped(p)
  BY <1>2, <1>4, <1>5
<1>7. Own(p)'
  BY <1>3, <1>4, <1>5 DEF Own, StageOK, InputOK, OutputCounted, RegisteredStays, RebootIsLast,
     Lockstep, Applied, Succeeded, NotDeclined
<1> QED
  BY <1>1, <1>3, <1>4, <1>6, <1>7, HandlerIInv DEF TypeOK

LEMMA DropIInv ==
  ASSUME IInv, NEW p \in Proc, Drop(p)
  PROVE  IInv'
<1>1. Own(p) /\ TypeOK
  BY OwnIInv
<1>2. Mine(p) /\ UNCHANGED olt
  BY <1>1, HandlerMine
<1>3. /\ input'[p] = <<>> /\ up'[p] = FALSE /\ mode'[p] = None /\ asking'[p] = FALSE
      /\ place'[p] = place[p] /\ id'[p] = id[p] /\ sn'[p] = sn[p] /\ left'[p] = left[p]
      /\ failed'[p] = failed[p] /\ answer'[p] = answer[p] /\ output'[p] = output[p]
      /\ strays'[p] = strays[p] /\ verdicts'[p] = verdicts[p]
      /\ declined'[p] = declined[p] /\ blind'[p] = blind[p]
      /\ failedOn' = failedOn /\ onus' = onus
  BY <1>1 DEF Drop, TypeOK, olt, request
<1>4. MineTyped(p)
  BY <1>1, <1>3, ZeroFacts DEF MineTyped, TypeOK
<1>5. StageOK(p)' /\ InputOK(p)' /\ RegisteredStays(p)' /\ RebootIsLast(p)'
  BY <1>1, <1>3, EmptyFacts DEF Own, StageOK, InputOK, RegisteredStays, RebootIsLast
<1>6. OutputCounted(p)'
  BY <1>1, <1>3 DEF Own, OutputCounted, PromptsRead
<1>7. Lockstep(p)'
  <2>1. Len(output[p]) \in Nat /\ Len(input[p]) \in Nat
    BY <1>1, LenFacts
  <2>2. \A a, b \in Nat : a + b <= 1 => 0 + b <= 1
    OBVIOUS
  <2>3. \A j \in 1 .. Len(input'[p]) : input'[p][j] # "reboot"
    BY <1>3, EmptyFacts
  <2> SUFFICES ASSUME strays[p] = 0, ~blind[p], place[p] # "idle", sn[p] = None
               PROVE  /\ Len(input'[p]) + Len(output[p]) <= 1
                      /\ place[p] \in {"config", "select", "reboot"} => output[p] = <<>>
    BY <1>3, <2>3 DEF Lockstep
  <2>4. /\ Len(input[p]) + Len(output[p]) <= 1
        /\ place[p] \in {"config", "select", "reboot"} => output[p] = <<>>
    BY <1>1 DEF Own, Lockstep
  <2> QED
    BY <1>3, <2>1, <2>2, <2>4, EmptyFacts
<1>8. Applied(p)' /\ NotDeclined(p)'
  BY <1>1, <1>3 DEF Own, Applied, Succeeded, NotDeclined
<1> QED
  BY <1>1, <1>2, <1>3, <1>4, <1>5, <1>6, <1>7, <1>8, HandlerIInv DEF Own, TypeOK

-----------------------------------------------------------------------------
(* The OLT executes a line. *)

Silent(p) == output'[p] = output[p] /\ strays'[p] = strays[p]

Printed(p, accepted, ask) ==
  \E k \in 0 .. MaxStray - strays[p], new \in Seq(Piece) :
    /\ Len(new) = k + 1 /\ strays'[p] = strays[p] + k /\ output'[p] = output[p] \o new
    /\ sn[p] # None /\ ~accepted => \E j \in 1 .. k + 1 : new[j].bad
    /\ ask => new[k + 1].ask

LEMMA OutputPrints ==
  ASSUME TypeOK, NEW p \in Proc, NEW accepted \in BOOLEAN, NEW ask \in BOOLEAN,
         Output(p, accepted, ask)
  PROVE  IF place[p] = "idle" THEN Silent(p) ELSE Printed(p, accepted, ask)
<1>1. CASE place[p] = "idle"
  BY <1>1 DEF Output, Silent
<1>2. CASE place[p] # "idle"
  <2>0. PICK k \in 0 .. MaxStray - strays[p] :
          \E bad \in [1 .. k + 1 -> IF sn[p] = None THEN {FALSE} ELSE BOOLEAN] :
            /\ sn[p] # None /\ ~accepted => \E j \in 1 .. k + 1 : bad[j]
            /\ strays' = [strays EXCEPT ![p] = @ + k]
            /\ output' = [output EXCEPT ![p] = @ \o [j \in 1 .. k + 1 |->
                           [bad |-> bad[j], ask |-> ask /\ j = k + 1]]]
    BY <1>2 DEF Output
  <2>1. PICK bad \in [1 .. k + 1 -> IF sn[p] = None THEN {FALSE} ELSE BOOLEAN] :
          /\ sn[p] # None /\ ~accepted => \E j \in 1 .. k + 1 : bad[j]
          /\ strays' = [strays EXCEPT ![p] = @ + k]
          /\ output' = [output EXCEPT ![p] = @ \o [j \in 1 .. k + 1 |->
                         [bad |-> bad[j], ask |-> ask /\ j = k + 1]]]
    BY <2>0
  <2> DEFINE new == [j \in 1 .. k + 1 |-> [bad |-> bad[j], ask |-> ask /\ j = k + 1]]
  <2>2. k \in Nat /\ \A j \in 1 .. k + 1 : bad[j] \in BOOLEAN
    <3>1. strays[p] \in Nat /\ MaxStray \in Nat
      BY LenFacts, TelnetBatchAssumption
    <3>2. k \in Nat
      BY <2>0, <3>1
    <3>3. ASSUME NEW j \in 1 .. k + 1 PROVE bad[j] \in BOOLEAN
      <4>1. CASE sn[p] = None
        BY <2>1, <4>1
      <4>2. CASE sn[p] # None
        BY <2>1, <4>2
      <4> QED
        BY <4>1, <4>2
    <3> QED
      BY <3>2, <3>3
  <2>3. \A j \in 1 .. k + 1 : [bad |-> bad[j], ask |-> ask /\ j = k + 1] \in Piece
    BY <2>2 DEF Piece
  <2>4. new \in Seq(Piece) /\ Len(new) = k + 1
    BY <2>2, <2>3
  <2>5. \A j \in 1 .. k + 1 : new[j].bad = bad[j] /\ new[j].ask = (ask /\ j = k + 1)
    OBVIOUS
  <2>6. k + 1 \in 1 .. k + 1
    BY <2>2
  <2>7. strays'[p] = strays[p] + k /\ output'[p] = output[p] \o new
    BY <2>1 DEF TypeOK
  <2> HIDE DEF new
  <2>8. sn[p] # None /\ ~accepted => \E j \in 1 .. k + 1 : new[j].bad
    BY <2>1, <2>5
  <2>9. ask => new[k + 1].ask
    BY <2>5, <2>6
  <2> QED
    BY <1>2, <2>4, <2>7, <2>8, <2>9 DEF Printed
<1> QED
  BY <1>1, <1>2

\* What a line does, accepted or not, to the session it is of.
LineDone(p, line, accepted) ==
  /\ input[p] # <<>> /\ Head(input[p]) = line /\ input'[p] = Tail(input[p])
  /\ verdicts'[p] = (IF Recording(p) THEN Append(verdicts[p], accepted) ELSE verdicts[p])
  /\ IF place[p] = "idle" \/ line \in {"y", "exit"} THEN Silent(p)
     ELSE Printed(p, accepted, accepted /\ line = "reboot")
  /\ asking'[p] => (asking[p] /\ line \notin {"y", "exit"}) \/ (line = "reboot" /\ accepted)
  /\ declined'[p] => declined[p] \/ (asking[p] /\ line = "exit")
  /\ accepted /\ line = "onu" => onus'[id[p]] = sn[p]
  /\ mode'[p] \in {None, mode[p], id[p]}
  /\ mode'[p] # None => mode'[p] = id[p] /\ onus'[id[p]] # None
  /\ asking'[p] \in BOOLEAN /\ declined'[p] \in BOOLEAN

LEMMA ExecuteLine ==
  ASSUME TypeOK, NEW p \in Proc, RegisteredStays(p), Execute(p)
  PROVE  \E line \in Line, accepted \in BOOLEAN : LineDone(p, line, accepted)
<1>0. \A line, accepted : Executed(p, line, accepted) =>
        /\ input[p] # <<>> /\ Head(input[p]) = line /\ input'[p] = Tail(input[p])
        /\ verdicts'[p] = (IF Recording(p) THEN Append(verdicts[p], accepted) ELSE verdicts[p])
  BY DEF TypeOK, Executed
<1>1. ASSUME NEW line \in Line, Reject(p, line) PROVE LineDone(p, line, FALSE)
  <2>1. Executed(p, line, FALSE) /\ Output(p, FALSE, FALSE) /\ line \notin {"y", "exit"} /\ ~asking[p]
    BY <1>1 DEF Reject
  <2>2. mode' = mode /\ asking' = asking /\ declined' = declined /\ onus' = onus
    BY <1>1 DEF Reject, olt
  <2>3. IF place[p] = "idle" THEN Silent(p) ELSE Printed(p, FALSE, FALSE)
    BY <2>1, OutputPrints
  <2>4. FALSE /\ line = "reboot" <=> FALSE
    OBVIOUS
  <2> QED
    BY <1>0, <2>1, <2>2, <2>3, <2>4 DEF LineDone, TypeOK, RegisteredStays
<1>2. ASSUME AcceptOnu(p) PROVE LineDone(p, "onu", TRUE)
  <2>1. Executed(p, "onu", TRUE) /\ Output(p, TRUE, FALSE) /\ onus[id[p]] = None
    BY <1>2 DEF AcceptOnu
  <2>2. mode' = mode /\ asking' = asking /\ declined' = declined /\ onus'[id[p]] = sn[p]
    BY <1>2 DEF AcceptOnu, TypeOK
  <2>3. IF place[p] = "idle" THEN Silent(p) ELSE Printed(p, TRUE, FALSE)
    BY <2>1, OutputPrints
  <2> QED
    BY <1>0, <2>1, <2>2, <2>3 DEF LineDone, TypeOK, RegisteredStays
<1>3. ASSUME AcceptConfig(p) PROVE LineDone(p, "config", TRUE)
  <2>1. Executed(p, "config", TRUE) /\ Output(p, TRUE, FALSE)
    BY <1>3 DEF AcceptConfig
  <2>2. mode' = mode /\ asking' = asking /\ declined' = declined /\ onus' = onus
    BY <1>3 DEF AcceptConfig, olt
  <2>3. IF place[p] = "idle" THEN Silent(p) ELSE Printed(p, TRUE, FALSE)
    BY <2>1, OutputPrints
  <2> QED
    BY <1>0, <2>1, <2>2, <2>3 DEF LineDone, TypeOK, RegisteredStays
<1>4. ASSUME NEW line \in {"interface", "select"}, AcceptSelect(p, line)
      PROVE  LineDone(p, line, TRUE)
  <2>1. Executed(p, line, TRUE) /\ Output(p, TRUE, FALSE) /\ onus[id[p]] # None
    BY <1>4 DEF AcceptSelect
  <2>2. mode'[p] = id[p] /\ asking' = asking /\ declined' = declined /\ onus' = onus
    BY <1>4 DEF AcceptSelect, olt, TypeOK
  <2>3. IF place[p] = "idle" THEN Silent(p) ELSE Printed(p, TRUE, FALSE)
    BY <2>1, OutputPrints
  <2> QED
    BY <1>0, <2>1, <2>2, <2>3 DEF LineDone, TypeOK
<1>5. ASSUME AcceptSet(p) PROVE LineDone(p, "set", TRUE)
  <2>1. Executed(p, "set", TRUE) /\ Output(p, TRUE, FALSE)
    BY <1>5 DEF AcceptSet
  <2>2. mode' = mode /\ asking' = asking /\ declined' = declined /\ onus' = onus
    BY <1>5 DEF AcceptSet
  <2>3. IF place[p] = "idle" THEN Silent(p) ELSE Printed(p, TRUE, FALSE)
    BY <2>1, OutputPrints
  <2> QED
    BY <1>0, <2>1, <2>2, <2>3 DEF LineDone, TypeOK, RegisteredStays
<1>6. ASSUME AskReboot(p) PROVE LineDone(p, "reboot", TRUE)
  <2>1. Executed(p, "reboot", TRUE) /\ Output(p, TRUE, TRUE)
    BY <1>6 DEF AskReboot
  <2>2. mode' = mode /\ asking'[p] = TRUE /\ declined' = declined /\ onus' = onus
    BY <1>6 DEF AskReboot, olt, TypeOK
  <2>3. IF place[p] = "idle" THEN Silent(p) ELSE Printed(p, TRUE, TRUE)
    BY <2>1, OutputPrints
  <2> QED
    BY <1>0, <2>1, <2>2, <2>3 DEF LineDone, TypeOK, RegisteredStays
<1>7. ASSUME AnswerQuestion(p) PROVE \E line \in {"y", "exit"} : LineDone(p, line, TRUE)
  <2>1. PICK line \in {"y", "exit"} :
          Executed(p, line, TRUE) /\ declined' = [declined EXCEPT ![p] = line # "y"]
    BY <1>7 DEF AnswerQuestion
  <2>2. /\ mode' = mode /\ asking'[p] = FALSE /\ onus' = onus /\ Silent(p) /\ asking[p]
        /\ declined'[p] = (line # "y")
    BY <1>7, <2>1 DEF AnswerQuestion, olt, TypeOK, Silent
  <2>3. LineDone(p, line, TRUE)
    BY <1>0, <2>1, <2>2 DEF LineDone, TypeOK, RegisteredStays
  <2> QED
    BY <2>3
<1>8. ASSUME Exit(p) PROVE LineDone(p, "exit", TRUE)
  <2>1. Executed(p, "exit", TRUE) /\ ~asking[p]
    BY <1>8 DEF Exit
  <2>2. mode'[p] = None /\ asking' = asking /\ declined' = declined /\ onus' = onus /\ Silent(p)
    BY <1>8 DEF Exit, olt, TypeOK, Silent
  <2> QED
    BY <1>0, <2>1, <2>2 DEF LineDone, TypeOK
<1>9. {"onu", "config", "interface", "select", "set", "reboot", "y", "exit"} \subseteq Line
  BY DEF Line
<1> QED
  BY <1>1, <1>2, <1>3, <1>4, <1>5, <1>6, <1>7, <1>8, <1>9 DEF Execute

\* What a line does to what the OLT has registered, and to the settings.
LEMMA ExecuteOlt ==
  ASSUME IInv, NEW p \in Proc, Execute(p)
  PROVE  /\ Grows /\ failedOn' = failedOn
         /\ onus' \in [Id -> SN \cup {None}] /\ settings' \in [Id -> SN \cup {None}]
         /\ \A i \in Id : onus'[i] = None => settings'[i] = None
         /\ SettingsExplained'
<1>1. TypeOK /\ Own(p)
  BY OwnIInv
<1>2. place' = place /\ id' = id /\ sn' = sn /\ failedOn' = failedOn
  BY <1>1, ExecuteMine DEF request
<1>3. CASE UNCHANGED olt
  BY <1>1, <1>2, <1>3 DEF olt, Grows, TypeOK, SettingsExplained, IInv
<1>4. CASE AcceptOnu(p)
  <2>1. onus[id[p]] = None /\ onus' = [onus EXCEPT ![id[p]] = sn[p]] /\ settings' = settings
    BY <1>4 DEF AcceptOnu
  <2>2. Grows
    BY <1>1, <1>2, <2>1 DEF Grows, TypeOK
  <2>3. settings[id[p]] = None
    BY <1>1, <2>1 DEF TypeOK
  <2>4. SettingsExplained'
    BY <1>1, <1>2, <2>1, <2>3 DEF SettingsExplained, IInv, TypeOK
  <2> QED
    BY <1>1, <1>2, <2>1, <2>2, <2>3, <2>4 DEF TypeOK
<1>5. CASE AcceptSet(p)
  <2>1. /\ mode[p] # None /\ settings' = [settings EXCEPT ![mode[p]] = sn[p]] /\ onus' = onus
    BY <1>5 DEF AcceptSet
  <2>2. mode[p] = id[p] /\ onus[id[p]] # None
    BY <1>1, <2>1 DEF Own, RegisteredStays
  <2>3. Grows
    BY <1>1, <1>2, <2>1 DEF Grows, TypeOK
  <2>4. SettingsExplained'
    <3> SUFFICES ASSUME MaxStray < Len(Batch), NEW i \in Id
                 PROVE  settings'[i] \in {None, onus[i]} \/ i \in failedOn
                          \/ \E q \in Proc : place[q] # "idle" /\ id[q] = i /\ sn[q] = settings'[i]
      BY <1>2, <2>1 DEF SettingsExplained
    <3>1. CASE i # id[p]
      BY <1>1, <2>1, <2>2, <3>1 DEF SettingsExplained, IInv, TypeOK
    <3>2. CASE i = id[p]
      <4>1. settings'[i] = sn[p]
        BY <1>1, <2>1, <2>2, <3>2 DEF TypeOK
      <4>2. CASE place[p] # "idle"
        BY <3>2, <4>1, <4>2
      <4>3. CASE place[p] = "idle" /\ sn[p] # None /\ answer[p] = "success"
        <5>1. strays[p] \in 0 .. MaxStray /\ MaxStray < 3
          BY <1>1, BatchFacts DEF TypeOK
        <5>2. 1 \in 1 .. 3 - strays[p]
          BY <5>1, TelnetBatchAssumption
        <5>3. 1 \in DOMAIN verdicts[p] /\ verdicts[p][1]
          BY <1>1, <4>3, <5>2, BatchFacts DEF Own, Applied, Succeeded
        <5>4. verdicts[p] # <<>>
          BY <5>3
        <5> QED
          BY <1>1, <3>2, <4>1, <4>3, <5>3, <5>4 DEF Own, RegisteredStays
      <4> QED
        BY <1>1, <3>2, <4>1, <4>2, <4>3 DEF Own, StageOK
    <3> QED
      BY <3>1, <3>2
  <2> QED
    BY <1>1, <1>2, <2>1, <2>2, <2>3, <2>4 DEF TypeOK
<1> QED
  BY <1>2, <1>3, <1>4, <1>5 DEF Execute, Reject, AcceptConfig, AcceptSelect, AskReboot, AnswerQuestion, Exit, olt

\* A command more, and the pieces that answer it, keep the count.
LEMMA Counting ==
  ASSUME NEW a \in Nat, NEW b \in Nat, NEW s \in Nat, NEW v \in Nat, NEW n \in Nat, a + b = s + v
  PROVE  (a + n + 1) + b = (s + n) + (v + 1)
OBVIOUS

\* None of these pieces is further on than the count.
LEMMA CountingOn ==
  ASSUME NEW a \in Nat, NEW b \in Nat, NEW s \in Nat, NEW v \in Nat, NEW k \in Nat, NEW j \in Nat,
         a + b = s + v, j <= k + 1
  PROVE  a + j + b <= v + 1 + (s + k)
OBVIOUS

LEMMA ConcatFacts ==
  ASSUME NEW s \in Seq(Piece), NEW k \in Nat, NEW new \in Seq(Piece), Len(new) = k + 1
  PROVE  /\ Len(s \o new) = Len(s) + k + 1
         /\ \A j \in 1 .. Len(s) : (s \o new)[j] = s[j]
         /\ \A j \in 1 .. k + 1 : /\ Len(s) + j \in 1 .. Len(s \o new)
                                  /\ (s \o new)[Len(s) + j] = new[j]
<1>1. Len(s) \in Nat
  BY LenProperties
<1>2. /\ Len(s \o new) = Len(s) + Len(new)
      /\ \A j \in 1 .. Len(s) + Len(new) :
           (s \o new)[j] = IF j <= Len(s) THEN s[j] ELSE new[j - Len(s)]
  BY ConcatProperties
<1>3. ASSUME NEW j \in 1 .. Len(s) PROVE (s \o new)[j] = s[j]
  BY <1>1, <1>2
<1>4. ASSUME NEW j \in 1 .. k + 1
      PROVE  Len(s) + j \in 1 .. Len(s \o new) /\ (s \o new)[Len(s) + j] = new[j]
  <2>1. /\ Len(s) + j \in 1 .. Len(s) + Len(new) /\ ~(Len(s) + j <= Len(s))
        /\ (Len(s) + j) - Len(s) = j
    BY <1>1
  <2> QED
    BY <1>2, <2>1
<1> QED
  BY <1>1, <1>2, <1>3, <1>4

\* Of one line and what it prints, all that is said of the request stays so.
LEMMA ExecuteIInv ==
  ASSUME IInv, NEW p \in Proc, Execute(p)
  PROVE  IInv'
<1>1. TypeOK /\ Own(p)
  BY OwnIInv
<1>2. PICK line \in Line, accepted \in BOOLEAN : LineDone(p, line, accepted)
  BY <1>1, ExecuteLine DEF Own
<1>3. /\ Mine(p) /\ place'[p] = place[p] /\ id'[p] = id[p] /\ sn'[p] = sn[p]
      /\ left'[p] = left[p] /\ failed'[p] = failed[p] /\ answer'[p] = answer[p]
      /\ up'[p] = up[p] /\ blind'[p] = blind[p] /\ Grows
  BY <1>1, ExecuteMine, ExecuteOlt DEF request
<1>4. /\ input[p] \in Seq(Line) /\ input'[p] \in Seq(Line) /\ Len(input[p]) \in Nat
      /\ Len(input[p]) > 0 /\ Len(input'[p]) = Len(input[p]) - 1 /\ line = input[p][1]
      /\ \A j \in 1 .. Len(input'[p]) : j + 1 \in 1 .. Len(input[p]) /\ input'[p][j] = input[p][j + 1]
  <2>1. input[p] \in Seq(Line) /\ input[p] # <<>> /\ input'[p] = Tail(input[p]) /\ Head(input[p]) = line
    BY <1>1, <1>2, LenFacts DEF LineDone
  <2> QED
    BY <2>1, TailFacts
<1>5. place[p] \notin {"connect", "batch"}
  BY <1>1, <1>2 DEF Own, StageOK, LineDone
<1>6. \/ Silent(p) /\ (place[p] = "idle" \/ line \in {"y", "exit"})
      \/ Printed(p, accepted, accepted /\ line = "reboot") /\ place[p] # "idle" /\ line \notin {"y", "exit"}
  BY <1>2 DEF LineDone
<1>7. PICK k \in Nat, new \in Seq(Piece) :
        /\ strays'[p] = strays[p] + k /\ strays[p] + k <= MaxStray
        /\ place[p] = "idle" \/ line \in {"y", "exit"} => k = 0 /\ output'[p] = output[p]
        /\ place[p] # "idle" /\ line \notin {"y", "exit"} =>
             /\ Len(new) = k + 1 /\ output'[p] = output[p] \o new
             /\ sn[p] # None /\ ~accepted => \E j \in 1 .. k + 1 : new[j].bad
             /\ accepted /\ line = "reboot" => new[k + 1].ask
  <2>1. strays[p] \in 0 .. MaxStray /\ MaxStray \in Nat
    BY <1>1, TelnetBatchAssumption DEF TypeOK
  <2>2. CASE Silent(p) /\ (place[p] = "idle" \/ line \in {"y", "exit"})
    <3>1. strays'[p] = strays[p] + 0 /\ strays[p] + 0 <= MaxStray /\ output'[p] = output[p]
      BY <2>1, <2>2 DEF Silent
    <3>2. <<>> \in Seq(Piece) /\ 0 \in Nat
      BY EmptyFacts
    <3> QED
      BY <2>2, <3>1, <3>2
  <2>3. CASE /\ Printed(p, accepted, accepted /\ line = "reboot")
             /\ place[p] # "idle" /\ line \notin {"y", "exit"}
    <3>1. PICK k \in 0 .. MaxStray - strays[p], new \in Seq(Piece) :
            /\ Len(new) = k + 1 /\ strays'[p] = strays[p] + k /\ output'[p] = output[p] \o new
            /\ sn[p] # None /\ ~accepted => \E j \in 1 .. k + 1 : new[j].bad
            /\ accepted /\ line = "reboot" => new[k + 1].ask
      BY <2>3 DEF Printed
    <3>2. k \in Nat /\ strays[p] + k <= MaxStray
      BY <2>1, <3>1
    <3> QED
      BY <2>3, <3>1, <3>2
  <2> QED
    BY <1>6, <2>2, <2>3
<1>8. output'[p] \in Seq(Piece) /\ strays'[p] \in 0 .. MaxStray
  <2>1. strays[p] \in Nat /\ MaxStray \in Nat /\ output[p] \in Seq(Piece)
    BY <1>1, LenFacts, TelnetBatchAssumption
  <2>2. output[p] \o new \in Seq(Piece)
    BY <2>1, ConcatProperties
  <2>3. strays'[p] \in 0 .. MaxStray
    <3>1. strays'[p] = strays[p] + k /\ strays[p] + k <= MaxStray
      BY <1>7
    <3> QED
      BY <2>1, <3>1
  <2> QED
    BY <1>7, <2>1, <2>2, <2>3
<1>9. /\ verdicts'[p] \in Seq(BOOLEAN)
      /\ Recording(p) => /\ Len(verdicts'[p]) = Len(verdicts[p]) + 1 /\ verdicts'[p] # <<>>
                         /\ verdicts'[p][Len(verdicts[p]) + 1] = accepted
                         /\ \A c \in 1 .. Len(verdicts[p]) : verdicts'[p][c] = verdicts[p][c]
      /\ ~Recording(p) => verdicts'[p] = verdicts[p]
  <2>1. verdicts[p] \in Seq(BOOLEAN) /\ Len(verdicts[p]) \in Nat
    BY <1>1, LenFacts
  <2>2. verdicts'[p] = (IF Recording(p) THEN Append(verdicts[p], accepted) ELSE verdicts[p])
    BY <1>2 DEF LineDone
  <2>3. CASE Recording(p)
    <3>1. verdicts'[p] = Append(verdicts[p], accepted)
      BY <2>2, <2>3
    <3>2. /\ verdicts'[p] \in Seq(BOOLEAN) /\ Len(verdicts'[p]) = Len(verdicts[p]) + 1
          /\ verdicts'[p][Len(verdicts[p]) + 1] = accepted
          /\ \A c \in 1 .. Len(verdicts[p]) : verdicts'[p][c] = verdicts[p][c]
      BY <2>1, <3>1, AppendProperties
    <3>3. verdicts'[p] # <<>>
      BY <2>1, <3>2, EmptyFacts
    <3> QED
      BY <2>3, <3>2, <3>3
  <2>4. CASE ~Recording(p)
    BY <2>1, <2>2, <2>4
  <2> QED
    BY <2>3, <2>4
<1>10. MineTyped(p)
  BY <1>1, <1>2, <1>3, <1>4, <1>8, <1>9 DEF MineTyped, TypeOK, LineDone
<1>11. ASSUME place[p] # "idle", line \notin {"y", "exit"}
       PROVE  /\ Len(output'[p]) = Len(output[p]) + k + 1
              /\ \A j \in 1 .. Len(output[p]) : output'[p][j] = output[p][j]
              /\ \A j \in 1 .. k + 1 : /\ Len(output[p]) + j \in 1 .. Len(output'[p])
                                       /\ output'[p][Len(output[p]) + j] = new[j]
  <2>1. output[p] \in Seq(Piece) /\ Len(output[p]) \in Nat
    BY <1>1, LenFacts
  <2>2. Len(new) = k + 1 /\ output'[p] = output[p] \o new
    BY <1>7, <1>11
  <2> QED
    <3>1. k \in Nat /\ new \in Seq(Piece)
      BY <1>7
    <3>2. /\ Len(output[p] \o new) = Len(output[p]) + k + 1
          /\ \A j \in 1 .. Len(output[p]) : (output[p] \o new)[j] = output[p][j]
          /\ \A j \in 1 .. k + 1 : /\ Len(output[p]) + j \in 1 .. Len(output[p] \o new)
                                   /\ (output[p] \o new)[Len(output[p]) + j] = new[j]
      BY <2>1, <2>2, <3>1, ConcatFacts
    <3> QED
      BY <2>2, <3>2
<1>12. StageOK(p)'
  <2>1. place[p] = "idle" => output'[p] = output[p]
    BY <1>7
  <2>2. StageOK(p)
    BY <1>1 DEF Own
  <2> QED
    BY <1>3, <1>5, <2>1, <2>2 DEF StageOK, Grows
<1>13. InputOK(p)'
  <2> SUFFICES ASSUME sn[p] # None
               PROVE  /\ \A j \in 1 .. Len(input'[p]) : input'[p][j] \in {"onu", "interface", "set"}
                      /\ place[p] # "idle" => verdicts'[p] # <<>>
    BY <1>3 DEF InputOK
  <2>1. \A j \in 1 .. Len(input'[p]) : input'[p][j] \in {"onu", "interface", "set"}
    BY <1>1, <1>4 DEF Own, InputOK
  <2> QED
    BY <1>9, <2>1 DEF Recording
<1>14. OutputCounted(p)'
  <2> SUFFICES ASSUME place[p] \in {"prompts", "validate"}
               PROVE  /\ Len(output'[p]) + PromptsRead(p) = strays'[p] + Len(verdicts'[p])
                      /\ \A c \in 1 .. Len(verdicts'[p]) : verdicts'[p][c] \/ failed[p] \/
                           \E j \in 1 .. Len(output'[p]) :
                             output'[p][j].bad /\ j + PromptsRead(p) <= c + strays'[p]
    BY <1>3, <1>5 DEF OutputCounted, PromptsRead
  <2>1. sn[p] # None /\ Recording(p)
    BY <1>1 DEF Own, StageOK, Recording
  <2>2. line \in {"onu", "interface", "set"} /\ line \notin {"y", "exit"}
    BY <1>1, <1>4, <2>1 DEF Own, InputOK
  <2>3. /\ Len(output[p]) \in Nat /\ Len(verdicts[p]) \in Nat /\ strays[p] \in Nat
        /\ PromptsRead(p) \in Nat /\ Len(output[p]) + PromptsRead(p) = strays[p] + Len(verdicts[p])
    <3>1. left[p] \in 0 .. 3 /\ PromptsRead(p) = 3 - left[p]
      BY <1>1, LenFacts, BatchFacts DEF PromptsRead
    <3>2. Len(output[p]) + PromptsRead(p) = strays[p] + Len(verdicts[p])
      BY <1>1 DEF Own, OutputCounted
    <3> QED
      BY <1>1, <3>1, <3>2, LenFacts
  <2>4. Len(output'[p]) + PromptsRead(p) = strays'[p] + Len(verdicts'[p])
    <3>1. /\ Len(output'[p]) = Len(output[p]) + k + 1 /\ strays'[p] = strays[p] + k
          /\ Len(verdicts'[p]) = Len(verdicts[p]) + 1
      BY <1>7, <1>9, <1>11, <2>1, <2>2
    <3>2. /\ Len(output[p]) \in Nat /\ PromptsRead(p) \in Nat
          /\ strays[p] \in Nat /\ Len(verdicts[p]) \in Nat
      BY <2>3
    <3>3. k \in Nat
      BY <1>7
    <3>4. PICK a \in Nat, b \in Nat, s \in Nat, v \in Nat :
            a = Len(output[p]) /\ b = PromptsRead(p) /\ s = strays[p] /\ v = Len(verdicts[p])
      BY <3>2
    <3>5. a + b = s + v
      BY <2>3, <3>4
    <3>6. (a + k + 1) + b = (s + k) + (v + 1)
      BY <3>3, <3>5, Counting
    <3> QED
      BY <3>1, <3>4, <3>6
  <2>5. ASSUME NEW c \in 1 .. Len(verdicts[p]), ~verdicts'[p][c], ~failed[p]
        PROVE  \E j \in 1 .. Len(output'[p]) :
                 output'[p][j].bad /\ j + PromptsRead(p) <= c + strays'[p]
    <3>1. PICK j \in 1 .. Len(output[p]) :
            output[p][j].bad /\ j + PromptsRead(p) <= c + strays[p]
      BY <1>1, <1>9, <2>1, <2>5 DEF Own, OutputCounted
    <3>2. j \in 1 .. Len(output'[p]) /\ output'[p][j] = output[p][j]
      BY <1>11, <2>2, <2>3
    <3>3. j + PromptsRead(p) <= c + strays'[p]
      <4>1. strays'[p] = strays[p] + k /\ k \in Nat
        BY <1>7
      <4>2. PICK b \in Nat, s \in Nat : b = PromptsRead(p) /\ s = strays[p]
        BY <2>3
      <4>3. j + b <= c + s /\ j \in Nat /\ c \in Nat
        BY <2>3, <3>1, <4>2
      <4>4. j + b <= c + (s + k)
        BY <4>1, <4>2, <4>3
      <4> QED
        BY <4>1, <4>2, <4>4
    <3> QED
      BY <3>1, <3>2, <3>3
  <2>6. ASSUME ~accepted
        PROVE  \E j \in 1 .. Len(output'[p]) :
                 output'[p][j].bad /\ j + PromptsRead(p) <= Len(verdicts[p]) + 1 + strays'[p]
    <3>1. PICK j \in 1 .. k + 1 : new[j].bad
      BY <1>7, <2>1, <2>2, <2>6
    <3>2. /\ Len(output[p]) + j \in 1 .. Len(output'[p])
          /\ output'[p][Len(output[p]) + j] = new[j]
      BY <1>11, <2>2
    <3>3. Len(output[p]) + j + PromptsRead(p) <= Len(verdicts[p]) + 1 + strays'[p]
      <4>1. strays'[p] = strays[p] + k /\ k \in Nat /\ j \in Nat /\ j <= k + 1
        BY <1>7
      <4>2. PICK a \in Nat, b \in Nat, s \in Nat, v \in Nat :
              a = Len(output[p]) /\ b = PromptsRead(p) /\ s = strays[p] /\ v = Len(verdicts[p])
        BY <2>3
      <4>3. a + b = s + v
        BY <2>3, <4>2
      <4>4. a + j + b <= v + 1 + (s + k)
        <5>1. j <= k + 1 /\ j \in Nat /\ k \in Nat
          BY <4>1
        <5> QED
          BY <4>3, <5>1, CountingOn
      <4> QED
        BY <4>1, <4>2, <4>4
    <3> QED
      BY <3>1, <3>2, <3>3
  <2>7. \A c \in 1 .. Len(verdicts'[p]) : c \in 1 .. Len(verdicts[p]) \/ c = Len(verdicts[p]) + 1
    BY <1>9, <2>1, <2>3
  <2> QED
    BY <1>9, <2>1, <2>4, <2>5, <2>6, <2>7
<1>15. RegisteredStays(p)'
  <2>1. mode'[p] # None => mode'[p] = id[p] /\ onus'[id[p]] # None
    BY <1>2 DEF LineDone
  <2>2. ASSUME sn[p] # None, verdicts[p] # <<>>, verdicts[p][1] PROVE onus'[id[p]] = sn[p]
    <3>1. onus[id[p]] = sn[p] /\ id[p] \in Id
      BY <1>1, <2>2 DEF Own, RegisteredStays, TypeOK
    <3> QED
      BY <1>3, <2>2, <3>1 DEF Grows
  <2>3. ASSUME Recording(p), verdicts[p] = <<>>, accepted PROVE onus'[id[p]] = sn[p]
    BY <1>1, <1>2, <2>3 DEF Own, InputOK, Recording, LineDone
  <2>4. ASSUME sn[p] # None, verdicts'[p] # <<>>, verdicts'[p][1] PROVE onus'[id[p]] = sn[p]
    <3>1. Len(verdicts[p]) \in Nat /\ (Len(verdicts[p]) = 0 <=> verdicts[p] = <<>>)
      BY <1>1, LenFacts
    <3>2. CASE ~Recording(p)
      BY <1>9, <2>2, <2>4, <3>2
    <3>3. CASE Recording(p) /\ verdicts[p] # <<>>
      <4>1. 1 \in 1 .. Len(verdicts[p])
        BY <3>1, <3>3
      <4> QED
        BY <1>9, <2>2, <2>4, <3>3, <4>1
    <3>4. CASE Recording(p) /\ verdicts[p] = <<>>
      BY <1>9, <2>3, <2>4, <3>1, <3>4
    <3> QED
      BY <3>2, <3>3, <3>4
  <2> QED
    BY <1>3, <2>1, <2>4 DEF RegisteredStays
<1>16. RebootIsLast(p)'
  <2>1. up[p]
    BY <1>1, <1>2 DEF Own, RebootIsLast, LineDone
  <2>2. ASSUME place[p] \notin {"rebootPrompt", "idle"}
        PROVE  /\ ~asking'[p] /\ ~declined'[p]
               /\ \A j \in 1 .. Len(input'[p]) : input'[p][j] # "reboot"
    <3>1. ~asking[p] /\ ~declined[p] /\ \A j \in 1 .. Len(input[p]) : input[p][j] # "reboot"
      BY <1>1, <2>2 DEF Own, RebootIsLast
    <3>2. line # "reboot"
      BY <1>4, <3>1
    <3> QED
      BY <1>2, <1>4, <3>1, <3>2 DEF LineDone
  <2> QED
    BY <1>3, <2>1, <2>2 DEF RebootIsLast
\* What Lockstep says while there is a line to execute.
<1>17. ASSUME strays'[p] = 0, ~blind[p]
       PROVE  /\ k = 0 /\ strays[p] = 0
              /\ place[p] = "idle" => /\ \A j \in 1 .. Len(input[p]) : input[p][j] # "reboot"
                                      /\ asking[p] => line = "y"
              /\ place[p] # "idle" /\ sn[p] = None =>
                   /\ input'[p] = <<>> /\ output[p] = <<>> /\ ~asking[p]
                   /\ place[p] \notin {"config", "select", "reboot"}
  <2>1. k = 0 /\ strays[p] = 0
    BY <1>1, <1>7, <1>17, LenFacts
  <2>2. input[p] # <<>> /\ Head(input[p]) = line
    BY <1>2 DEF LineDone
  <2>3. ASSUME place[p] # "idle", sn[p] = None
        PROVE  /\ input'[p] = <<>> /\ output[p] = <<>> /\ ~asking[p]
               /\ place[p] \notin {"config", "select", "reboot"}
    <3>1. /\ Len(input[p]) + Len(output[p]) <= 1
          /\ asking[p] => output[p] # <<>>
          /\ place[p] \notin {"config", "select", "reboot"}
      BY <1>1, <1>17, <2>1, <2>2, <2>3 DEF Own, Lockstep
    <3>2. \A a, b \in Nat : a > 0 /\ a + b <= 1 => a = 1 /\ b = 0
      OBVIOUS
    <3>3. Len(output[p]) \in Nat /\ (Len(output[p]) = 0 <=> output[p] = <<>>)
      BY <1>1, LenFacts
    <3>4. Len(input[p]) = 1 /\ output[p] = <<>>
      BY <1>4, <3>1, <3>2, <3>3
    <3>5. Len(input'[p]) = 0
      BY <1>4, <3>4
    <3>6. input'[p] = <<>>
      BY <1>4, <3>5, EmptyFacts
    <3> QED
      BY <3>1, <3>4, <3>6
  <2> QED
    BY <1>1, <1>17, <2>1, <2>2, <2>3 DEF Own, Lockstep
<1>18. Lockstep(p)'
  <2> SUFFICES ASSUME strays'[p] = 0, ~blind[p]
               PROVE  /\ place[p] = "idle" =>
                           /\ \A j \in 1 .. Len(input'[p]) : input'[p][j] # "reboot"
                           /\ ~asking'[p]
                      /\ place[p] # "idle" /\ sn[p] = None =>
                           /\ Len(input'[p]) + Len(output'[p]) <= 1
                           /\ place[p] \notin {"config", "select", "reboot"}
                           /\ asking'[p] => output'[p] # <<>> /\ Head(output'[p]).ask
    BY <1>3 DEF Lockstep
  <2>1. ASSUME place[p] = "idle"
        PROVE  ~asking'[p] /\ \A j \in 1 .. Len(input'[p]) : input'[p][j] # "reboot"
    <3>1. line # "reboot"
      BY <1>4, <1>17, <2>1
    <3> QED
      BY <1>2, <1>4, <1>17, <2>1, <3>1 DEF LineDone
  <2>2. ASSUME place[p] # "idle", sn[p] = None
        PROVE  /\ Len(input'[p]) + Len(output'[p]) <= 1
               /\ asking'[p] => output'[p] # <<>> /\ Head(output'[p]).ask
    <3>1. k = 0 /\ Len(input'[p]) = 0 /\ Len(output[p]) = 0 /\ ~asking[p]
      BY <1>17, <2>2, EmptyFacts
    <3>2. CASE line \in {"y", "exit"}
      <4>1. output'[p] = output[p]
        BY <1>7, <3>2
      <4>2. ~asking'[p]
        BY <1>2, <3>1, <3>2 DEF LineDone
      <4> QED
        BY <3>1, <4>1, <4>2
    <3>3. CASE line \notin {"y", "exit"}
      <4>1. Len(output'[p]) = 1 /\ output'[p][1] = new[1]
        BY <1>11, <2>2, <3>1, <3>3
      <4>2. output'[p] # <<>>
        BY <4>1, EmptyFacts
      <4>3. Head(output'[p]) = output'[p][1]
        BY <1>8, <4>2, TailFacts
      <4>4. asking'[p] => line = "reboot" /\ accepted
        BY <1>2, <3>1 DEF LineDone
      <4>5. asking'[p] => new[1].ask
        BY <1>7, <2>2, <3>1, <3>3, <4>4
      <4> QED
        BY <3>1, <4>1, <4>2, <4>3, <4>5
    <3> QED
      BY <3>2, <3>3
  <2> QED
    BY <1>17, <2>1, <2>2
<1>19. Applied(p)'
  <2>1. ASSUME answer[p] = "success"
        PROVE  place[p] = "idle" /\ k = 0 /\ strays'[p] = strays[p] /\ verdicts'[p] = verdicts[p]
    <3>1. place[p] = "idle"
      BY <1>1, <2>1 DEF Own, StageOK
    <3> QED
      BY <1>1, <1>7, <1>9, <3>1, LenFacts DEF Recording
  <2> QED
    BY <1>1, <1>3, <2>1 DEF Own, Applied, Succeeded
<1>20. NotDeclined(p)'
  <2>1. strays[p] \in Nat /\ strays'[p] = strays[p] + k
    BY <1>1, <1>7, LenFacts
  <2>2. CASE declined[p]
    BY <1>1, <1>3, <2>1, <2>2 DEF Own, NotDeclined
  <2>3. CASE asking[p] /\ line = "exit"
    <3>1. place[p] \in {"rebootPrompt", "idle"}
      BY <1>1, <2>3 DEF Own, RebootIsLast
    <3>2. place[p] = "rebootPrompt" => sn[p] = None
      BY <1>1 DEF Own, StageOK
    <3>3. strays'[p] # 0 \/ blind[p]
      BY <1>17, <2>3, <3>1, <3>2
    <3> QED
      BY <1>3, <1>8, <3>3 DEF NotDeclined
  <2> QED
    BY <1>2, <2>2, <2>3 DEF LineDone, NotDeclined
<1>21. Own(p)'
  BY <1>12, <1>13, <1>14, <1>15, <1>16, <1>18, <1>19, <1>20 DEF Own
<1>22. failedOn' \subseteq Id
  BY <1>1, ExecuteOlt DEF TypeOK
<1> QED
  BY <1>3, <1>10, <1>21, <1>22, ExecuteOlt, MineIInv

-----------------------------------------------------------------------------
(* The invariant. *)

LEMMA InitIInv == Init => IInv
<1> SUFFICES ASSUME Init PROVE IInv
  OBVIOUS
<1>1. TypeOK
  <2>1. (CHOOSE i \in Id : TRUE) \in Id
    BY TelnetBatchAssumption
  <2> QED
    BY <2>1, ZeroFacts DEF Init, TypeOK, Places
<1>2. ASSUME NEW p \in Proc PROVE Own(p)
  BY EmptyFacts DEF Init, Own, StageOK, InputOK, OutputCounted, RegisteredStays, RebootIsLast,
     Lockstep, Applied, Succeeded, NotDeclined
<1>3. SettingsExplained
  BY DEF Init, SettingsExplained
<1> QED
  BY <1>1, <1>2, <1>3, OwnIInv

LEMMA StutterIInv ==
  ASSUME IInv, UNCHANGED vars
  PROVE  IInv'
<1>1. /\ TypeOK /\ SettingsExplained /\ \A p \in Proc : Own(p)
  BY OwnIInv
<1>2. /\ UNCHANGED <<onus, settings, place, id, sn, left, failed, answer, input, output>>
      /\ UNCHANGED <<up, mode, asking, strays, verdicts, declined, blind, failedOn>>
  BY DEF vars, olt, request, stream, device, ghost
<1>3. TypeOK' /\ SettingsExplained'
  BY <1>1, <1>2 DEF TypeOK, SettingsExplained
<1>4. ASSUME NEW p \in Proc PROVE Own(p)'
  <2>1. Still(p) /\ Grows
    BY <1>2 DEF Still, Grows
  <2> QED
    BY <1>1, <2>1, StillOwn
<1> QED
  BY <1>3, <1>4 DEF IInv, Own, Applied, NotDeclined, SuccessMeansApplied, RebootNotDeclined

LEMMA SessionIInv ==
  ASSUME IInv, NEW p \in Proc, Session(p)
  PROVE  IInv'
<1>1. Mine(p)
  BY HandlerMine, OwnIInv
<1>2. CASE Connect(p)
  BY <1>2, ConnectIInv
<1>3. CASE ConnectFails(p) \/ ReadFails(p)
  BY <1>3, FailsIInv
<1>4. CASE WriteBatch(p)
  BY <1>4, WriteBatchIInv
<1>5. CASE ReadPrompt(p)
  BY <1>5, ReadPromptIInv
<1>6. CASE Validate(p)
  BY <1>6, ValidateIInv
<1>7. CASE WriteCommand(p, "config", "config", "configPrompt")
  BY <1>1, <1>7, WriteCommandIInv
<1>8. CASE ReadCommand(p, "configPrompt", "select")
  BY <1>1, <1>8, ReadCommandIInv
<1>9. CASE WriteCommand(p, "select", "select", "selectPrompt")
  BY <1>1, <1>9, WriteCommandIInv
<1>10. CASE ReadCommand(p, "selectPrompt", "reboot")
  BY <1>1, <1>10, ReadCommandIInv
<1>11. CASE WriteCommand(p, "reboot", "reboot", "rebootPrompt")
  BY <1>1, <1>11, WriteCommandIInv
<1>12. CASE ReadReboot(p)
  BY <1>12, ReadRebootIInv
<1>13. CASE ReadRebootFails(p)
  BY <1>13, ReadRebootFailsIInv
<1> QED
  BY <1>2, <1>3, <1>4, <1>5, <1>6, <1>7, <1>8, <1>9, <1>10, <1>11, <1>12, <1>13 DEF Session, Reboot

LEMMA NextIInv == IInv /\ [Next]_vars => IInv'
<1>1. ASSUME IInv, NEW p \in Proc, NEW i \in Id, RebootONU(p, i) PROVE IInv'
  BY <1>1, BeginIInv DEF RebootONU
<1>2. ASSUME IInv, NEW p \in Proc, NEW i \in Id, NEW s \in SN, ProvisionONU(p, i, s) PROVE IInv'
  BY <1>2, BeginIInv DEF ProvisionONU
<1>3. ASSUME IInv, NEW p \in Proc, Session(p) \/ Execute(p) \/ Drop(p) PROVE IInv'
  BY <1>3, SessionIInv, ExecuteIInv, DropIInv
<1> QED
  BY <1>1, <1>2, <1>3, StutterIInv DEF Next

\* TypeOK and what the properties rest on hold in every reachable state: how
\* far SendCommands and RebootONU are behind what the OLT has executed, and
\* what of it they have not read yet.
THEOREM Invariance == Spec => []IInv
BY InitIInv, NextIInv, PTL DEF Spec

\* A provisioning that answers success had all commands accepted but for the
\* last ones, one for each stray prompt character of its session: what counting
\* prompts in SendCommands guarantees, whatever the number of those.
THEOREM SuccessMeansAppliedHolds == Spec => []SuccessMeansApplied
<1>1. IInv => SuccessMeansApplied
  BY DEF IInv
<1> QED
  BY <1>1, Invariance, PTL

\* A provisioning that answers success has its serial number under its id for
\* good, among any number of requests, unless the session has printed as many
\* stray prompt characters as it has commands.
THEOREM ProvisionedIsMineHolds == Spec => []ProvisionedIsMine
<1>1. IInv => ProvisionedIsMine
  <2> SUFFICES ASSUME IInv, NEW p \in Proc, Succeeded(p), strays[p] < Len(Batch)
               PROVE  onus[id[p]] = sn[p]
    BY DEF ProvisionedIsMine
  <2>1. Own(p) /\ TypeOK
    BY OwnIInv
  <2>2. 1 \in 1 .. 3 - strays[p]
    BY <2>1, LenFacts, BatchFacts
  <2>3. 1 \in DOMAIN verdicts[p] /\ verdicts[p][1]
    BY <2>1, <2>2, BatchFacts DEF Own, Applied
  <2>4. verdicts[p] # <<>>
    BY <2>3
  <2> QED
    BY <2>1, <2>3, <2>4 DEF Own, RegisteredStays, Succeeded
<1> QED
  BY <1>1, Invariance, PTL

\* Settings made for another serial number are answered for, if a session has
\* fewer stray prompt characters than a template has commands.
THEOREM ForeignSettingsReportedHolds ==
  ASSUME MaxStray < Len(Batch)
  PROVE  Spec => []ForeignSettingsReported
<1>1. IInv => ForeignSettingsReported
  BY DEF IInv, SettingsExplained, ForeignSettingsReported
<1> QED
  BY <1>1, Invariance, PTL

\* RebootONU reads its question, and confirms it, unless a stray character was
\* read for it or the read has failed.
THEOREM RebootNotDeclinedHolds == Spec => []RebootNotDeclined
<1>1. IInv => RebootNotDeclined
  BY DEF IInv
<1> QED
  BY <1>1, Invariance, PTL
=============================================================================
