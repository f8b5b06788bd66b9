----------------------------- MODULE TelnetBatch -----------------------------
(***************************************************************************)
(* Requests that type at an OLT over telnet: ProvisionONU of               *)
(* provisioning_service.go and RebootONU of telnet_service.go, on one PON. *)
(* What goes either way is a stream without framing.  A provisioning types *)
(* all its commands at once and then reads up to as many prompts; a prompt *)
(* is any '#', '>' or "Confirm", also one in a banner or in the echo of a  *)
(* name.  A template (provisioning_templates.go) is a command that gives   *)
(* the ONU its id, one that selects the ONU, and one that stands for all   *)
(* its settings.                                                           *)
(*                                                                         *)
(* The OLT is external and known from what the code expects of it: it      *)
(* executes the typed lines in order, goes on after one it rejects, says   *)
(* "error" or "invalid" when it rejects one, and ends each with a prompt.  *)
(* No ONU is removed from it.  The invalidation after a success is in      *)
(* OnuCache.                                                               *)
(***************************************************************************)
EXTENDS Naturals, Sequences

CONSTANTS
  Id,       \* ONU ids of the PON
  SN,       \* serial numbers
  Proc,     \* concurrent requests
  None,     \* no ONU, or no serial number: a reboot
  MaxStray  \* bound: prompt characters in a session that end no output

ASSUME TelnetBatchAssumption ==
  None \notin SN \cup Id /\ Id # {} /\ MaxStray \in Nat

VARIABLES
  onus,      \* OLT: the serial number registered under each id
  settings,  \* OLT: the serial number whose request set the ONU up
  place,     \* each request in its handler
  id,        \* the ONU id in its body
  sn,        \* the serial number in its body, None for a reboot
  left,      \* prompts SendCommands still reads
  failed,    \* "error" or "invalid" was in the output read so far
  answer,    \* its answer: success, failure, or none yet
  input,     \* typed lines the OLT has not executed
  output,    \* pieces of output, each up to a prompt, not yet read
  up,        \* the connection is up
  mode,      \* OLT: the ONU the session has selected
  asking,    \* OLT: the session's next line answers "Confirm to reboot?"
  strays,    \* ghost: pieces that end before the output they are of does
  verdicts,  \* ghost: whether each command of a batch was accepted
  declined,  \* ghost: a reboot was asked about and not confirmed
  blind,     \* ghost: the output of "reboot" was not read
  failedOn   \* ghost: ids some provisioning answered failure about

olt     == <<onus, settings>>
request == <<place, id, sn, left, failed, answer>>
stream  == <<input, output>>
device  == <<up, mode, asking>>
ghost   == <<strays, verdicts, declined, blind, failedOn>>
vars    == <<olt, request, stream, device, ghost>>

-----------------------------------------------------------------------------
\* What a template is rendered to.
Batch == <<"onu", "interface", "set">>

Line   == {"onu", "interface", "set", "config", "select", "reboot", "y", "exit"}
Piece  == [bad : BOOLEAN, ask : BOOLEAN]
Places == {"idle", "connect", "batch", "prompts", "validate", "config",
           "configPrompt", "select", "selectPrompt", "reboot", "rebootPrompt"}

TypeOK ==
  /\ onus     \in [Id -> SN \cup {None}]
  /\ settings \in [Id -> SN \cup {None}]
  /\ place    \in [Proc -> Places]
  /\ id       \in [Proc -> Id]
  /\ sn       \in [Proc -> SN \cup {None}]
  /\ left     \in [Proc -> 0 .. Len(Batch)]
  /\ failed   \in [Proc -> BOOLEAN]
  /\ answer   \in [Proc -> {"none", "success", "failure"}]
  /\ input    \in [Proc -> Seq(Line)]
  /\ output   \in [Proc -> Seq(Piece)]
  /\ up       \in [Proc -> BOOLEAN]
  /\ mode     \in [Proc -> Id \cup {None}]
  /\ asking   \in [Proc -> BOOLEAN]
  /\ strays   \in [Proc -> 0 .. MaxStray]
  /\ verdicts \in [Proc -> Seq(BOOLEAN)]
  /\ declined \in [Proc -> BOOLEAN]
  /\ blind    \in [Proc -> BOOLEAN]
  /\ failedOn \subseteq Id
  /\ \A i \in Id : onus[i] = None => settings[i] = None

Init ==
  /\ onus \in [Id -> SN \cup {None}]
  /\ settings = onus
  /\ place = [p \in Proc |-> "idle"]
  /\ id \in [Proc -> {CHOOSE i \in Id : TRUE}]
  /\ sn = [p \in Proc |-> None]
  /\ left = [p \in Proc |-> 0]
  /\ failed = [p \in Proc |-> FALSE]
  /\ answer = [p \in Proc |-> "none"]
  /\ input = [p \in Proc |-> <<>>]
  /\ output = [p \in Proc |-> <<>>]
  /\ up = [p \in Proc |-> FALSE]
  /\ mode = [p \in Proc |-> None]
  /\ asking = [p \in Proc |-> FALSE]
  /\ strays = [p \in Proc |-> 0]
  /\ verdicts = [p \in Proc |-> <<>>]
  /\ declined = [p \in Proc |-> FALSE]
  /\ blind = [p \in Proc |-> FALSE]
  /\ failedOn = {}

-----------------------------------------------------------------------------
(* The handlers. *)

Goto(p, next) == place' = [place EXCEPT ![p] = next]

\* The handler answers and its deferred Close ends the session: nobody reads
\* on, and what was typed the OLT may still execute, or lose (Drop).
Answer(p, result) ==
  /\ answer' = [answer EXCEPT ![p] = result]
  /\ Goto(p, "idle")
  /\ left' = [left EXCEPT ![p] = 0]
  /\ failed' = [failed EXCEPT ![p] = FALSE]
  /\ output' = [output EXCEPT ![p] = <<>>]

Succeed(p) == Answer(p, "success") /\ UNCHANGED <<strays, verdicts, failedOn>>

\* The ghosts of the session have served.
Fail(p) ==
  /\ Answer(p, "failure")
  /\ strays' = [strays EXCEPT ![p] = 0]
  /\ verdicts' = [verdicts EXCEPT ![p] = <<>>]
  /\ failedOn' = IF sn[p] = None THEN failedOn ELSE failedOn \cup {id[p]}

\* A body that passes validation, about an OLT that is registered; s = None is
\* a reboot.  A connection of an earlier request of p is over.
Begin(p, i, s) ==
  /\ place[p] = "idle"
  /\ Goto(p, "connect")
  /\ id' = [id EXCEPT ![p] = i]
  /\ sn' = [sn EXCEPT ![p] = s]
  /\ answer' = [answer EXCEPT ![p] = "none"]
  /\ input' = [input EXCEPT ![p] = <<>>]
  /\ up' = [up EXCEPT ![p] = FALSE]
  /\ mode' = [mode EXCEPT ![p] = None]
  /\ asking' = [asking EXCEPT ![p] = FALSE]
  /\ strays' = [strays EXCEPT ![p] = 0]
  /\ verdicts' = [verdicts EXCEPT ![p] = <<>>]
  /\ declined' = [declined EXCEPT ![p] = FALSE]
  /\ blind' = [blind EXCEPT ![p] = FALSE]
  /\ UNCHANGED <<olt, left, failed, output, failedOn>>

ProvisionONU(p, i, s) == Begin(p, i, s)
RebootONU(p, i)       == Begin(p, i, None)

\* login reads up to the first prompt character after the password: the
\* shell's, or one of a banner, and then the shell's prompt is still unread.
Login(p) ==
  \E k \in 0 .. MaxStray :
    /\ strays' = [strays EXCEPT ![p] = k]
    /\ output' = [output EXCEPT ![p] = [j \in 1 .. k |-> [bad |-> FALSE, ask |-> FALSE]]]

Connect(p) ==
  /\ place[p] = "connect"
  /\ Goto(p, IF sn[p] = None THEN "config" ELSE "batch")
  /\ up' = [up EXCEPT ![p] = TRUE]
  /\ Login(p)
  /\ UNCHANGED <<olt, id, sn, left, failed, answer, input, mode, asking, verdicts, declined, blind, failedOn>>

\* No connection, or no prompt in time.
ConnectFails(p) ==
  /\ place[p] = "connect"
  /\ Fail(p)
  /\ UNCHANGED <<olt, id, sn, input, device, declined, blind>>

\* What the connection takes of lines that are written to it.
Type(p, lines) ==
  input' = [input EXCEPT ![p] = IF up[p] THEN @ \o lines ELSE @]

\* SendCommands, first half: all the commands in one write.
WriteBatch(p) ==
  /\ place[p] = "batch"
  /\ Goto(p, "prompts")
  /\ Type(p, Batch)
  /\ left' = [left EXCEPT ![p] = Len(Batch)]
  /\ UNCHANGED <<olt, id, sn, failed, answer, output, device, ghost>>

\* mutant: one prompt too few is read.
ReadsOneLess(p) == left[p] > 2

\* mutant: one prompt too many is read.
ReadsOneMore(p) == left[p] > 0

\* SendCommands goes on reading until it has read a prompt per command.
ReadsOn(p) == left[p] > 1

\* SendCommands, second half: one ReadUntil.
ReadPrompt(p) ==
  /\ place[p] = "prompts"
  /\ output[p] # <<>>
  /\ output' = [output EXCEPT ![p] = Tail(@)]
  /\ failed' = [failed EXCEPT ![p] = @ \/ Head(output[p]).bad]
  /\ left' = [left EXCEPT ![p] = @ - 1]
  /\ Goto(p, IF ReadsOn(p) THEN "prompts" ELSE "validate")
  /\ UNCHANGED <<olt, id, sn, answer, input, device, ghost>>

\* mutant: the output is not looked at.
OutputUnchecked(p) == TRUE

\* validateProvisioningOutput finds nothing in the whole output.
OutputValid(p) == ~failed[p]

Validate(p) ==
  /\ place[p] = "validate"
  /\ IF OutputValid(p) THEN Succeed(p) ELSE Fail(p)
  /\ UNCHANGED <<olt, id, sn, input, device, declined, blind>>

\* SendCommand, first half.
WriteCommand(p, here, line, next) ==
  /\ place[p] = here
  /\ Goto(p, next)
  /\ Type(p, <<line>>)
  /\ UNCHANGED <<olt, id, sn, left, failed, answer, output, device, ghost>>

\* SendCommand, second half: the output is read and not looked at.
ReadCommand(p, here, next) ==
  /\ place[p] = here
  /\ output[p] # <<>>
  /\ output' = [output EXCEPT ![p] = Tail(@)]
  /\ Goto(p, next)
  /\ UNCHANGED <<olt, id, sn, left, failed, answer, input, device, ghost>>

\* mutant: the question is not answered.
NoConfirm(piece) == <<>>

\* What RebootONU types when it has read the output of "reboot".
Confirm(piece) == IF piece.ask THEN <<"y">> ELSE <<>>

\* The output of "reboot", the answer to its question, and two exits.
ReadReboot(p) ==
  /\ place[p] = "rebootPrompt"
  /\ output[p] # <<>>
  /\ Type(p, Confirm(Head(output[p])) \o <<"exit", "exit">>)
  /\ Succeed(p)
  /\ UNCHANGED <<olt, id, sn, device, declined, blind>>

\* The deadline of the connection, or its loss, ends a read.
ReadFails(p) ==
  /\ place[p] \in {"prompts", "configPrompt", "selectPrompt"}
  /\ Fail(p)
  /\ UNCHANGED <<olt, id, sn, input, device, declined, blind>>

\* The same for the output of "reboot", where the error is ignored.
ReadRebootFails(p) ==
  /\ place[p] = "rebootPrompt"
  /\ Type(p, <<"exit", "exit">>)
  /\ Succeed(p)
  /\ blind' = [blind EXCEPT ![p] = TRUE]
  /\ UNCHANGED <<olt, id, sn, device, declined>>

-----------------------------------------------------------------------------
(* The OLT and the connection. *)

\* Output for the line just executed, if the session is not closed: one piece,
\* or more if it has prompt characters inside.  A rejection may be spelled out
\* before or after those, and an accepted line may echo a name with "error" in
\* it.  What a reboot prints is not looked at, and is left out.
Output(p, accepted, ask) ==
  IF place[p] = "idle" THEN UNCHANGED <<output, strays>> ELSE
  \E k \in 0 .. MaxStray - strays[p] :
  \E bad \in [1 .. k + 1 -> IF sn[p] = None THEN {FALSE} ELSE BOOLEAN] :
    /\ sn[p] # None /\ ~accepted => \E j \in 1 .. k + 1 : bad[j]
    /\ strays' = [strays EXCEPT ![p] = @ + k]
    /\ output' = [output EXCEPT ![p] = @ \o [j \in 1 .. k + 1 |->
                    [bad |-> bad[j], ask |-> ask /\ j = k + 1]]]

Recording(p) == place[p] # "idle" /\ sn[p] # None

\* The first line in the input is executed and was accepted or not.
Executed(p, line, accepted) ==
  /\ input[p] # <<>>
  /\ Head(input[p]) = line
  /\ input' = [input EXCEPT ![p] = Tail(@)]
  /\ verdicts' = [verdicts EXCEPT ![p] =
                    IF Recording(p) THEN Append(@, accepted) ELSE @]

Reject(p, line) ==
  /\ ~asking[p]
  /\ line \notin {"y", "exit"}
  /\ Executed(p, line, FALSE)
  /\ Output(p, FALSE, FALSE)
  /\ UNCHANGED <<olt, request, up, mode, asking, declined, blind, failedOn>>

\* "onu <id> type <type> sn <sn>"
AcceptOnu(p) ==
  /\ onus[id[p]] = None
  /\ Executed(p, "onu", TRUE)
  /\ onus' = [onus EXCEPT ![id[p]] = sn[p]]
  /\ Output(p, TRUE, FALSE)
  /\ UNCHANGED <<settings, request, up, mode, asking, declined, blind, failedOn>>

\* "config t"
AcceptConfig(p) ==
  /\ Executed(p, "config", TRUE)
  /\ Output(p, TRUE, FALSE)
  /\ UNCHANGED <<olt, request, up, mode, asking, declined, blind, failedOn>>

\* "interface gpon-onu_...", "pon-onu-mng gpon-onu_..."
AcceptSelect(p, line) ==
  /\ onus[id[p]] # None
  /\ Executed(p, line, TRUE)
  /\ mode' = [mode EXCEPT ![p] = id[p]]
  /\ Output(p, TRUE, FALSE)
  /\ UNCHANGED <<olt, request, up, asking, declined, blind, failedOn>>

\* The settings, from "tcont" to "security-mgmt".
AcceptSet(p) ==
  /\ mode[p] # None
  /\ Executed(p, "set", TRUE)
  /\ settings' = [settings EXCEPT ![mode[p]] = sn[p]]
  /\ Output(p, TRUE, FALSE)
  /\ UNCHANGED <<onus, request, up, mode, asking, declined, blind, failedOn>>

AskReboot(p) ==
  /\ mode[p] # None
  /\ Executed(p, "reboot", TRUE)
  /\ asking' = [asking EXCEPT ![p] = TRUE]
  /\ Output(p, TRUE, TRUE)
  /\ UNCHANGED <<olt, request, up, mode, declined, blind, failedOn>>

\* The line after the question is its answer, whatever it is.
AnswerQuestion(p) ==
  /\ asking[p]
  /\ \E line \in {"y", "exit"} :
       /\ Executed(p, line, TRUE)
       /\ declined' = [declined EXCEPT ![p] = line # "y"]
  /\ asking' = [asking EXCEPT ![p] = FALSE]
  /\ UNCHANGED <<olt, request, output, up, mode, strays, blind, failedOn>>

Exit(p) ==
  /\ ~asking[p]
  /\ Executed(p, "exit", TRUE)
  /\ mode' = [mode EXCEPT ![p] = None]
  /\ UNCHANGED <<olt, request, output, up, asking, strays, declined, blind, failedOn>>

\* The connection is lost with what is typed and not executed.
Drop(p) ==
  /\ up[p]
  /\ up' = [up EXCEPT ![p] = FALSE]
  /\ input' = [input EXCEPT ![p] = <<>>]
  /\ mode' = [mode EXCEPT ![p] = None]
  /\ asking' = [asking EXCEPT ![p] = FALSE]
  /\ UNCHANGED <<olt, request, output, strays, verdicts, declined, blind, failedOn>>

-----------------------------------------------------------------------------
Reboot(p) ==
  \/ WriteCommand(p, "config", "config", "configPrompt")
  \/ ReadCommand(p, "configPrompt", "select")
  \/ WriteCommand(p, "select", "select", "selectPrompt")
  \/ ReadCommand(p, "selectPrompt", "reboot")
  \/ WriteCommand(p, "reboot", "reboot", "rebootPrompt")
  \/ ReadReboot(p)
  \/ ReadRebootFails(p)

Session(p) ==
  \/ Connect(p)
  \/ ConnectFails(p)
  \/ WriteBatch(p)
  \/ ReadPrompt(p)
  \/ Validate(p)
  \/ Reboot(p)
  \/ ReadFails(p)

Execute(p) ==
  \/ \E line \in Line : Reject(p, line)
  \/ AcceptOnu(p)
  \/ AcceptConfig(p)
  \/ \E line \in {"interface", "select"} : AcceptSelect(p, line)
  \/ AcceptSet(p)
  \/ AskReboot(p)
  \/ AnswerQuestion(p)
  \/ Exit(p)

Next == \E p \in Proc :
  \/ \E i \in Id : RebootONU(p, i) \/ \E s \in SN : ProvisionONU(p, i, s)
  \/ Session(p)
  \/ Execute(p)
  \/ Drop(p)

Spec == Init /\ [][Next]_vars

-----------------------------------------------------------------------------
(* Properties. *)

Succeeded(p) == answer[p] = "success" /\ sn[p] # None

\* A provisioning that answers success had every command accepted but for the
\* last ones, one for each stray prompt character the session has printed: the
\* pipeline of SendCommands matches prompts with commands only by counting.
SuccessMeansApplied == \A p \in Proc : Succeeded(p) =>
  \A c \in 1 .. Len(Batch) - strays[p] :
    c \in DOMAIN verdicts[p] /\ verdicts[p][c]

\* A provisioning that answers success has its serial number under its id, and
\* keeps it, whatever other requests for the id do meanwhile: of two, the one
\* whose "onu" command the OLT rejects must not answer success.  Only with as
\* many stray prompt characters as commands is nothing known of that command.
ProvisionedIsMine == \A p \in Proc :
  Succeeded(p) /\ strays[p] < Len(Batch) => onus[id[p]] = sn[p]

\* An ONU has settings made for another serial number only if some request
\* about its id is under way or has answered failure: a batch runs on after a
\* rejected "onu" command and sets up whatever ONU has the id, and its answer
\* is all that tells.
ForeignSettingsReported == \A i \in Id :
  settings[i] \in {None, onus[i]} \/ i \in failedOn
    \/ \E p \in Proc : place[p] # "idle" /\ id[p] = i

\* RebootONU never takes its own question for an ordinary prompt, so that the
\* first "exit" declines the reboot it goes on to answer success to, unless a
\* stray character was read for the question, or the read ended without it.
RebootNotDeclined == \A p \in Proc :
  declined[p] => strays[p] > 0 \/ blind[p]

-----------------------------------------------------------------------------
(* What the properties rest on. *)

\* Where a request is with its ONU, its streams and its answer.
StageOK(p) ==
  /\ place[p] \in {"batch", "prompts", "validate"} => sn[p] # None
  /\ place[p] \notin {"idle", "connect", "batch", "prompts", "validate"} => sn[p] = None
  /\ place[p] = "prompts" <=> left[p] > 0
  /\ place[p] # "idle" => answer[p] = "none"
  /\ place[p] = "idle" /\ sn[p] # None => answer[p] = "success" \/ id[p] \in failedOn
  /\ place[p] \in {"idle", "connect"} => output[p] = <<>>
  /\ place[p] \in {"connect", "batch"} => input[p] = <<>> /\ verdicts[p] = <<>>
  /\ place[p] = "connect" => strays[p] = 0

\* A provisioning types its batch and nothing else, and the "onu" command is
\* the first one executed.
InputOK(p) == sn[p] # None =>
  /\ \A j \in 1 .. Len(input[p]) : input[p][j] \in {"onu", "interface", "set"}
  /\ place[p] # "idle" /\ verdicts[p] = <<>> /\ input[p] # <<>> => Head(input[p]) = "onu"

\* Prompts a provisioning has read.
PromptsRead(p) == IF place[p] = "batch" THEN 0 ELSE Len(Batch) - left[p]

\* Pieces, read or not, are one for each command executed and one for each
\* stray prompt character; a rejection not read yet is bad output no further
\* on than these two count.
OutputCounted(p) == place[p] \in {"batch", "prompts", "validate"} =>
  /\ Len(output[p]) + PromptsRead(p) = strays[p] + Len(verdicts[p])
  /\ \A c \in 1 .. Len(verdicts[p]) : verdicts[p][c] \/ failed[p] \/
       \E j \in 1 .. Len(output[p]) :
         output[p][j].bad /\ j + PromptsRead(p) <= c + strays[p]

\* An accepted "onu" command has registered the serial number for good, and a
\* session selects no ONU but its own.
RegisteredStays(p) ==
  /\ sn[p] # None /\ verdicts[p] # <<>> /\ verdicts[p][1] => onus[id[p]] = sn[p]
  /\ mode[p] # None => mode[p] = id[p] /\ onus[id[p]] # None

\* "reboot" is the last command; only a connection that is up has input, or a
\* question.
RebootIsLast(p) ==
  /\ place[p] \notin {"rebootPrompt", "idle"} =>
       /\ ~asking[p] /\ ~declined[p]
       /\ \A j \in 1 .. Len(input[p]) : input[p][j] # "reboot"
  /\ asking[p] \/ input[p] # <<>> => up[p]

\* Without a stray character a reboot has one line or one piece on its way, and
\* its question is the piece it reads.
Lockstep(p) == strays[p] = 0 /\ ~blind[p] =>
  /\ place[p] = "idle" =>
       /\ \A j \in 1 .. Len(input[p]) : input[p][j] # "reboot"
       /\ asking[p] => input[p] = <<>> \/ Head(input[p]) = "y"
  /\ place[p] # "idle" /\ sn[p] = None =>
       /\ Len(input[p]) + Len(output[p]) <= 1
       /\ place[p] \in {"config", "select", "reboot"} => input[p] = <<>> /\ output[p] = <<>>
       /\ asking[p] => output[p] # <<>> /\ Head(output[p]).ask

\* Foreign settings have a request under way that made them, or a failure that
\* was reported.
SettingsExplained == MaxStray < Len(Batch) => \A i \in Id :
  settings[i] \in {None, onus[i]} \/ i \in failedOn
    \/ \E p \in Proc : place[p] # "idle" /\ id[p] = i /\ sn[p] = settings[i]

\* The inductive invariant.
IInv ==
  /\ TypeOK
  /\ \A p \in Proc : /\ StageOK(p) /\ InputOK(p) /\ OutputCounted(p)
                     /\ RegisteredStays(p) /\ RebootIsLast(p) /\ Lockstep(p)
  /\ SettingsExplained /\ SuccessMeansApplied /\ RebootNotDeclined
=============================================================================
