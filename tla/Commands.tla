------------------------------ MODULE Commands ------------------------------
(***************************************************************************)
(* How a command reaches a device: MultiManager.send_commands tries the    *)
(* accounts of the hub in turn, then again with the filters reversed, then *)
(* under each alias of the code, and a lock tries two cloud projects and   *)
(* three mechanisms, the last of which is send_commands again.             *)
(*                                                                         *)
(* A command is a code; its value does not matter here.  What is tried for *)
(* one command is a sequence of attempts, of which the first that answers  *)
(* well is the last.  The cloud may take a command and its answer be lost. *)
(***************************************************************************)
EXTENDS Naturals, Sequences, FiniteSets, SequencesExt

CONSTANTS
    Accounts,   \* the accounts of the hub, in order: "iot" and "sharing"
    Codes,      \* the codes of the device
    Code,       \* Code[c]: what local_strategy and the descriptors say of code c
    ManualCodes,\* LOCK_MANUAL_UNLOCK_COMMAND of the device
    MaxCommands,\* bound: commands of one call
    MaxCalls    \* bound: calls

CodeInfo == [found : BOOLEAN, openApi : BOOLEAN, property : BOOLEAN, virtual : BOOLEAN,
             aliases : Seq(Codes)]

ASSUME CommandsAssumption ==
    /\ Accounts \in Seq({"iot", "sharing"})
    /\ \A c \in Codes : Code[c] \in CodeInfo
    /\ ManualCodes \in Seq(Codes)
    /\ MaxCommands \in Nat /\ MaxCalls \in Nat

VARIABLES
    custom,     \* the IoT account is of a custom project, not of the smart home one
    known,      \* the device is in the device map
    sending,    \* the send_commands call under way
    locking,    \* the lock or unlock call under way
    cmdResult,  \* what the last call returned
    noted,      \* commands noted in the quota during this send_commands
    taken,      \* history: taken[n], how often the cloud took command n of this call
    lost,       \* history: how many of those answers were lost
    answered,   \* history: commands of this call that were answered well
    misread,    \* history: commands of this call whose refusal passed for a good answer
    doorTaken,  \* history: operations of the door the cloud took during this lock call
    doorLost,   \* history: how many of their answers were lost
    calls       \* calls so far

frameVars == <<sending, locking, cmdResult>>
takenVars == <<noted, taken, lost, answered, misread>>
doorVars == <<doorTaken, doorLost>>
cmdVars == <<custom, known, frameVars, takenVars, doorVars, calls>>

-----------------------------------------------------------------------------
(* What is tried for one command. *)

NoFrame == [pc |-> "none"]

\* The filters of the two send_command: an account passes on what is for the other one,
\* unless they are reversed.  The sharing account also sends a code it does not know.
Passes(account, c, reverse) ==
    IF account = "iot" THEN Code[c].found /\ Code[c].openApi # reverse
                       ELSE ~Code[c].found \/ Code[c].openApi = reverse

\* Requests of one account: the IoT account has two endpoints, in an order of the code.
Requests(account, c) ==
    IF account = "sharing" THEN <<"sharing">>
    ELSE IF Code[c].property THEN <<"property", "regular">> ELSE <<"regular", "property">>

Offers(account, c, reverse) ==
    [i \in 1..(IF Passes(account, c, reverse) THEN Len(Requests(account, c)) ELSE 0) |->
       [code |-> c, request |-> Requests(account, c)[i]]]

\* One loop over the accounts.
Round(c, reverse) == FlattenSeq([i \in 1..Len(Accounts) |-> Offers(Accounts[i], c, reverse)])

Rounds(c) == Round(c, FALSE) \o Round(c, TRUE)

\* Everything send_commands tries for a command until one attempt succeeds.
Attempts(c) ==
    Rounds(c) \o FlattenSeq([i \in 1..Len(Code[c].aliases) |-> Rounds(Code[c].aliases[i])])

Current == Attempts(sending.cmds[sending.n])

-----------------------------------------------------------------------------
CmdInit ==
    /\ custom \in BOOLEAN
    /\ known = TRUE /\ sending = NoFrame /\ locking = NoFrame /\ cmdResult = FALSE
    /\ noted = 0 /\ taken = [n \in 1..MaxCommands |-> 0] /\ lost = taken
    /\ answered = {} /\ misread = {}
    /\ doorTaken = 0 /\ doorLost = 0 /\ calls = 0

\* send_commands begins: virtual functions are processed here and nothing else is sent.
Begin(cmds) ==
    /\ noted' = 0 /\ answered' = {} /\ misread' = {}
    /\ taken' = [n \in 1..MaxCommands |-> 0] /\ lost' = [n \in 1..MaxCommands |-> 0]
    /\ sending' = [pc |-> IF known /\ \A i \in 1..Len(cmds) : ~Code[cmds[i]].virtual
                            THEN "try" ELSE "return",
                   cmds |-> cmds, n |-> 1, k |-> 1,
                   last |-> known /\ \E i \in 1..Len(cmds) : Code[cmds[i]].virtual]

SendCommands ==
    /\ sending = NoFrame /\ locking = NoFrame /\ calls < MaxCalls
    /\ \E cmds \in BoundedSeq(Codes, MaxCommands) : Begin(cmds)
    /\ calls' = calls + 1 /\ doorTaken' = 0 /\ doorLost' = 0
    /\ UNCHANGED <<custom, known, locking, cmdResult>>

\* Mutant: the remaining attempts are made even after a good answer.
NextAttemptAlways(good) ==
    sending' = [sending EXCEPT !.k = @ + 1, !.last = good]

\* A good answer ends the attempts for this command, another one calls for the next.
NextAttempt(good) ==
    sending' = IF good THEN [sending EXCEPT !.n = @ + 1, !.k = 1, !.last = TRUE]
                       ELSE [sending EXCEPT !.k = @ + 1, !.last = FALSE]

Trying == sending.pc = "try" /\ sending.n <= Len(sending.cmds)

\* One request to a cloud: taken and answered, taken with the answer lost (the client
\* raises), or refused.  A device that left the map is not sent for.  The regular request
\* of a custom project does not raise when the cloud refuses it (IndustrySolution-
\* DeviceManage.send_commands), so that the refusal passes for a good answer.
Attempt(outcome) ==
    /\ Trying /\ sending.k <= Len(Current)
    /\ known \/ outcome = "refused"
    /\ outcome = "misread" => custom /\ Current[sending.k].request = "regular"
    /\ NextAttempt(outcome \in {"answered", "misread"})
    /\ taken' = IF outcome \in {"answered", "lost"} THEN [taken EXCEPT ![sending.n] = @ + 1] ELSE taken
    /\ lost' = IF outcome = "lost" THEN [lost EXCEPT ![sending.n] = @ + 1] ELSE lost
    /\ noted' = IF outcome \in {"answered", "misread"} THEN noted + 1 ELSE noted
    /\ answered' = IF outcome = "answered" THEN answered \cup {sending.n} ELSE answered
    /\ misread' = IF outcome = "misread" THEN misread \cup {sending.n} ELSE misread
    /\ UNCHANGED <<custom, known, locking, cmdResult, doorVars, calls>>

\* Nothing is left to try for this command.
Exhausted ==
    /\ Trying /\ sending.k > Len(Current)
    /\ sending' = [sending EXCEPT !.n = @ + 1, !.k = 1, !.last = FALSE]
    /\ UNCHANGED <<custom, known, locking, cmdResult, takenVars, doorVars, calls>>

\* send_commands returns the result of its last command, to the lock or to its caller.
Return ==
    /\ sending # NoFrame /\ ~Trying
    /\ sending' = NoFrame
    /\ IF locking = NoFrame
         THEN cmdResult' = sending.last /\ UNCHANGED locking
         ELSE locking' = (IF sending.last THEN [locking EXCEPT !.pc = "done", !.result = TRUE]
                                          ELSE [locking EXCEPT !.pc = "next"])
              /\ UNCHANGED cmdResult
    /\ UNCHANGED <<custom, known, takenVars, doorVars, calls>>

\* Another thread takes the device out of the map.
Forget ==
    /\ known /\ sending # NoFrame
    /\ known' = FALSE
    /\ UNCHANGED <<custom, frameVars, takenVars, doorVars, calls>>

-----------------------------------------------------------------------------
(* The lock. *)

Mechanisms == {"auto", "door_operate", "door_open", "dpcode_command"}

\* The mechanisms tried with one project, in order.
MechanismsOf(mechanism) ==
    IF mechanism = "auto" THEN <<"door_operate", "door_open", "dpcode_command">>
                          ELSE <<mechanism>>

\* send_lock_unlock_command_multi_api: the project without user first, then the other.
Ways(mechanism) == MechanismsOf(mechanism) \o MechanismsOf(mechanism)

LockUnlock ==
    /\ sending = NoFrame /\ locking = NoFrame /\ calls < MaxCalls
    /\ \E mechanism \in Mechanisms, lock \in BOOLEAN :
         locking' = [pc |-> "types", lock |-> lock, ways |-> Ways(mechanism),
                     half |-> Len(MechanismsOf(mechanism)), i |-> 1, remote |-> FALSE,
                     result |-> FALSE]
    /\ calls' = calls + 1 /\ doorTaken' = 0 /\ doorLost' = 0
    /\ UNCHANGED <<custom, known, sending, cmdResult, takenVars>>

Way == locking.ways[locking.i]
Locks(pc) == locking.pc = pc
LockGoes(pc) == locking' = [locking EXCEPT !.pc = pc]

\* get_supported_unlock_types, asked once of each project.
LockTypes ==
    /\ Locks("types")
    /\ \E remote \in BOOLEAN : locking' = [locking EXCEPT !.pc = "way", !.remote = remote]
    /\ UNCHANGED <<custom, known, sending, cmdResult, takenVars, doorVars, calls>>

\* A door is operated only where the cloud allows it, and opened only to unlock.
DoorAllowed == Way # "dpcode_command" /\ locking.remote /\ (Way = "door_open" => ~locking.lock)

\* call_door_operate and call_door_open: a ticket, then the operation.
LockTicket ==
    /\ Locks("way") /\ DoorAllowed
    /\ LockGoes("door") \/ LockGoes("next")
    /\ UNCHANGED <<custom, known, sending, cmdResult, takenVars, doorVars, calls>>

LockNotAllowed ==
    /\ Locks("way") /\ ~DoorAllowed
    /\ Way = "dpcode_command" => ManualCodes = <<>>
    /\ LockGoes("next")
    /\ UNCHANGED <<custom, known, sending, cmdResult, takenVars, doorVars, calls>>

DoorAnswer(good) ==
    locking' = [locking EXCEPT !.pc = IF good THEN "done" ELSE "next", !.result = good]

LockOperate(outcome) ==
    /\ Locks("door")
    /\ DoorAnswer(outcome = "answered")
    /\ doorTaken' = IF outcome = "refused" THEN doorTaken ELSE doorTaken + 1
    /\ doorLost' = IF outcome = "lost" THEN doorLost + 1 ELSE doorLost
    /\ UNCHANGED <<custom, known, sending, cmdResult, takenVars, calls>>

\* _lock_unlock_command_dpcode_command: the manual codes of the device.
LockCodes ==
    /\ Locks("way") /\ Way = "dpcode_command" /\ ManualCodes # <<>>
    /\ Begin(ManualCodes)
    /\ LockGoes("codes")
    /\ UNCHANGED <<custom, known, cmdResult, doorVars, calls>>

\* The next mechanism, or the other project, or none is left.
LockNext ==
    /\ Locks("next")
    /\ locking' = IF locking.i = Len(locking.ways) THEN [locking EXCEPT !.pc = "done"]
                  ELSE [locking EXCEPT !.i = @ + 1,
                                       !.pc = IF locking.i = locking.half THEN "types" ELSE "way"]
    /\ UNCHANGED <<custom, known, sending, cmdResult, takenVars, doorVars, calls>>

LockReturn ==
    /\ Locks("done")
    /\ locking' = NoFrame /\ cmdResult' = locking.result
    /\ UNCHANGED <<custom, known, sending, takenVars, doorVars, calls>>

-----------------------------------------------------------------------------
Outcomes == {"answered", "lost", "refused"}

CmdNext ==
    \/ SendCommands \/ (\E o \in Outcomes \cup {"misread"} : Attempt(o)) \/ Exhausted \/ Return \/ Forget
    \/ LockUnlock \/ LockTypes \/ LockTicket \/ LockNotAllowed
    \/ (\E o \in Outcomes : LockOperate(o)) \/ LockCodes \/ LockNext \/ LockReturn

CmdSpec == CmdInit /\ [][CmdNext]_cmdVars

-----------------------------------------------------------------------------
(* Properties. *)

CmdTypeOK ==
    /\ custom \in BOOLEAN /\ known \in BOOLEAN /\ cmdResult \in BOOLEAN /\ noted \in 0..MaxCommands
    /\ taken \in [1..MaxCommands -> Nat] /\ lost \in [1..MaxCommands -> Nat]
    /\ answered \subseteq 1..MaxCommands /\ misread \subseteq 1..MaxCommands
    /\ doorTaken \in Nat /\ doorLost \in 0..doorTaken /\ calls \in 0..MaxCalls
    /\ sending = NoFrame \/ (sending.pc \in {"try", "return"} /\ sending.last \in BOOLEAN)
    /\ locking = NoFrame \/ (locking.i \in 1..Len(locking.ways) /\ locking.result \in BOOLEAN)

\* A command is sent again only when the answer to the last try was lost, whatever
\* accounts, endpoints and aliases are left to try, and so is the operation of a
\* door whatever mechanisms and projects are left.
TakenOnce ==
    /\ \A n \in 1..MaxCommands : taken[n] <= 1 + lost[n]
    /\ doorTaken <= 1 + doorLost

\* send_commands says of its last command what the cloud said, and notes in the
\* quota each command that was answered well and no other, whatever the fall-backs did.
\* Only with a custom project may it be wrong, and only for the better: about a command
\* whose regular request was refused.
Believed == IF custom THEN answered \cup misread ELSE answered
AnswerHonest ==
    /\ sending # NoFrame /\ ~Trying /\ sending.pc = "try" /\ sending.cmds # <<>> =>
         sending.last = (Len(sending.cmds) \in Believed)
    /\ noted = Cardinality(Believed)
    /\ answered \cap misread = {}

\* The fall-backs neither repeat a command that was taken nor hide what became of it,
\* but for the refusals a custom project does not raise.
FallBacksSafe == TakenOnce /\ AnswerHonest
=============================================================================
