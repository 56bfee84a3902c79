------------------------------ MODULE IrRemotes ------------------------------
(***************************************************************************)
(* Infrared remotes under an IR hub: the dialog that adds a remote to the  *)
(* hub, the learning of keys, their deletion, and the refresh that deletes *)
(* all the entities of the hub and builds them again from the cloud.       *)
(*                                                                         *)
(* The data of a dialog belong to the button that opens it, not to the     *)
(* dialog, until the button is built again.  Learning polls the cloud in   *)
(* an executor thread, so learnings overlap; a deletion is a job nobody    *)
(* waits for.  A key is named by the learning session it came from.        *)
(***************************************************************************)
EXTENDS Naturals, FiniteSets, Sequences

CONSTANTS
    Learners,       \* threads that learn a key
    Refreshers,     \* refreshes that may be under way
    MaxDialogs,     \* bound: presses of the button that adds a remote
    MaxSessions     \* bound: learning sessions

ASSUME IrAssumption ==
    /\ IsFiniteSet(Learners) /\ IsFiniteSet(Refreshers)
    /\ MaxDialogs \in Nat /\ MaxSessions \in Nat

VARIABLES
    data,       \* flow_data of each build of the button, the last one in use: step,
                \* flow_id, and which dialog entered what
    asked,      \* dialogs opened so far
    forms,      \* dialogs with a form on the screen
    creating,   \* remotes being created: the dialog and its data
    remotes,    \* what the remotes of the cloud were made from
    learning,   \* learning state of the hub
    sessions,   \* learning sessions begun so far
    captured,   \* sessions in which the hub received a code
    learner,    \* learner[l]: what thread l is doing
    keys,       \* keys of the cloud: [name, code], both the number of a session
    deleting,   \* names of the keys whose deletion is queued
    refreshing, \* refreshing[r]: what a refresh is doing
    due,        \* a discovery signal waits for its refresh
    shown,      \* names of the keys that have a button
    irFailed,   \* history: a request failed where the code goes on without it
    irCrossed   \* history: refreshes overlapped, or one overtook a deletion

dataVars == <<data, asked, forms, creating, remotes>>
learnVars == <<learning, sessions, captured, learner>>
keyVars == <<keys, deleting>>
shownVars == <<refreshing, due, shown>>
irVars == <<dataVars, learnVars, keyVars, shownVars, irFailed, irCrossed>>

NoData == [step |-> 1, flow |-> 0, name |-> 0, category |-> 0, brand |-> 0]
Resting == [pc |-> "rest"]

IrInit ==
    /\ data = <<NoData>> /\ asked = 0 /\ forms = {} /\ creating = {} /\ remotes = {}
    /\ learning = FALSE /\ sessions = 0 /\ captured = {}
    /\ learner = [l \in Learners |-> Resting]
    /\ keys = {} /\ deleting = {}
    /\ refreshing = [r \in Refreshers |-> Resting] /\ due = FALSE /\ shown = {}
    /\ irFailed = FALSE /\ irCrossed = FALSE

-----------------------------------------------------------------------------
(* The dialog that adds a remote. *)

Button == Len(data)
Creates(f, i) == creating' = creating \cup {[dialog |-> f, object |-> i]}

\* A press opens a dialog on the data of the button.  Only the first dialog of these
\* data is registered, and the dialog goes on where the data are: with nothing left to
\* ask, it creates the remote.
Press ==
    /\ asked < MaxDialogs
    /\ asked' = asked + 1
    /\ data' = [data EXCEPT ![Button].flow = IF @ = 0 THEN asked' ELSE @]
    /\ IF data[Button].step = 4
         THEN Creates(asked', Button) /\ UNCHANGED forms
         ELSE forms' = forms \cup {asked'} /\ UNCHANGED creating
    /\ UNCHANGED <<remotes, learnVars, keyVars, shownVars, irFailed, irCrossed>>

\* Mutant: the answer is taken from whichever dialog it comes.
AnyDialog(f, i) == TRUE

\* generic_data_entry finds the data by the id of the dialog.
OwnDialog(f, i) == data[i].flow = f

SubmitUnknown(f) ==
    /\ f \in forms /\ \A i \in DOMAIN data : ~OwnDialog(f, i)
    /\ forms' = forms \ {f}
    /\ UNCHANGED <<data, asked, creating, remotes, learnVars, keyVars, shownVars, irFailed, irCrossed>>

\* user_interaction_callback with an answer.  A category without brands goes straight on.
Submit(f) ==
    /\ f \in forms
    /\ \E i \in DOMAIN data :
         /\ OwnDialog(f, i)
         /\ \/ /\ data[i].step = 1 /\ data' = [data EXCEPT ![i].step = 2, ![i].name = f]
               /\ UNCHANGED <<forms, creating>>
            \/ /\ data[i].step = 2 /\ data' = [data EXCEPT ![i].step = 3, ![i].category = f]
               /\ UNCHANGED <<forms, creating>>
            \/ /\ data[i].step = 2
               /\ data' = [data EXCEPT ![i].step = 4, ![i].category = f, ![i].brand = f]
               /\ Creates(f, i) /\ forms' = forms \ {f}
            \/ /\ data[i].step \in {3, 4}
               /\ data' = [data EXCEPT ![i].step = 4,
                                       ![i].brand = IF data[i].step = 3 THEN f ELSE @]
               /\ Creates(f, i) /\ forms' = forms \ {f}
    /\ UNCHANGED <<asked, remotes, learnVars, keyVars, shownVars, irFailed, irCrossed>>

\* The form is left, or its first answer is empty.
Leave(f) ==
    /\ f \in forms
    /\ forms' = forms \ {f}
    /\ UNCHANGED <<data, asked, creating, remotes, learnVars, keyVars, shownVars, irFailed, irCrossed>>

\* create_ir_device; success asks for a refresh, failure leaves the data as they are.
Create ==
    /\ \E c \in creating :
         /\ creating' = creating \ {c}
         /\ \/ remotes' = remotes \cup {data[c.object]} /\ due' = TRUE /\ UNCHANGED irFailed
            \/ irFailed' = TRUE /\ UNCHANGED <<remotes, due>>
    /\ UNCHANGED <<data, asked, forms, learnVars, keyVars, refreshing, shown, irCrossed>>

-----------------------------------------------------------------------------
(* Learning a key. *)

LearnerGoes(l, pc) == learner' = [learner EXCEPT ![l].pc = pc]

\* learn_ir_key puts the hub in its learning state; the time of the answer is the session.
LearnBegin(l) ==
    /\ learner[l] = Resting /\ sessions < MaxSessions
    /\ learning' = TRUE /\ sessions' = sessions + 1
    /\ learner' = [learner EXCEPT ![l] = [pc |-> "poll", session |-> sessions', code |-> 0]]
    /\ UNCHANGED <<dataVars, captured, keyVars, shownVars, irFailed, irCrossed>>

\* The hub hears a code in the last session begun.
Hear ==
    /\ learning /\ sessions \notin captured
    /\ captured' = captured \cup {sessions}
    /\ UNCHANGED <<dataVars, learning, sessions, learner, keyVars, shownVars, irFailed, irCrossed>>

\* The poll finds the code of its session, or gives up.
LearnPoll(l) ==
    /\ learner[l].pc = "poll"
    /\ \/ /\ learner[l].session \in captured
          /\ learner' = [learner EXCEPT ![l].pc = "stop", ![l].code = learner[l].session]
       \/ learner[l].session \notin captured /\ LearnerGoes(l, "stop")
    /\ UNCHANGED <<dataVars, learning, sessions, captured, keyVars, shownVars, irFailed, irCrossed>>

\* Mutant: the learning state is left only when a code was learned.
StopsLearning(l) == learning /\ learner[l].code = 0

\* The learning state is left in any case.
LeavesLearning(l) == FALSE

LearnStop(l) ==
    /\ learner[l].pc = "stop"
    /\ learning' = LeavesLearning(l)
    /\ IF learner[l].code = 0 THEN learner' = [learner EXCEPT ![l] = Resting]
                              ELSE LearnerGoes(l, "save")
    /\ UNCHANGED <<dataVars, sessions, captured, keyVars, shownVars, irFailed, irCrossed>>

\* A request raises: the learning ends where it is.
LearnRaises(l) ==
    /\ learner[l].pc \in {"poll", "stop"}
    /\ learner' = [learner EXCEPT ![l] = Resting] /\ irFailed' = TRUE
    /\ UNCHANGED <<dataVars, learning, sessions, captured, keyVars, shownVars, irCrossed>>

\* The key is saved, and the entities are discovered again.
LearnSave(l) ==
    /\ learner[l].pc = "save"
    /\ \/ /\ keys' = keys \cup {[name |-> learner[l].session, code |-> learner[l].code]}
          /\ due' = TRUE /\ UNCHANGED irFailed
       \/ irFailed' = TRUE /\ UNCHANGED <<keys, due>>
    /\ learner' = [learner EXCEPT ![l] = Resting]
    /\ UNCHANGED <<dataVars, learning, sessions, captured, deleting, refreshing, shown, irCrossed>>

-----------------------------------------------------------------------------
(* Deletion and refresh. *)

\* async_delete_command queues the deletion and signals the discovery at once.
DeleteKey ==
    /\ \E name \in shown \ deleting :
         /\ \E k \in keys : k.name = name
         /\ deleting' = deleting \cup {name}
    /\ due' = TRUE
    /\ UNCHANGED <<dataVars, learnVars, keys, refreshing, shown, irFailed, irCrossed>>

Deleted ==
    /\ \E name \in deleting :
         /\ deleting' = deleting \ {name}
         /\ \/ keys' = {k \in keys : k.name # name} /\ UNCHANGED irFailed
            \/ irFailed' = TRUE /\ UNCHANGED keys
    /\ UNCHANGED <<dataVars, learnVars, shownVars, irCrossed>>

\* async_add_IR_entities asks the cloud for the remotes and their keys ...
RefreshFetch(r) ==
    /\ refreshing[r] = Resting /\ due
    /\ due' = FALSE
    /\ \/ /\ refreshing' = [refreshing EXCEPT ![r] = [pc |-> "build", names |-> {k.name : k \in keys}]]
          /\ irCrossed' = (irCrossed \/ deleting # {} \/ \E q \in Refreshers : refreshing[q] # Resting)
          /\ UNCHANGED irFailed
       \/ irFailed' = TRUE /\ UNCHANGED <<refreshing, irCrossed>>
    /\ UNCHANGED <<dataVars, learnVars, keyVars, shown>>

\* ... and then deletes all the entities and builds them, the button and its data too.
RefreshBuild(r) ==
    /\ refreshing[r].pc = "build"
    /\ shown' = refreshing[r].names
    /\ refreshing' = [refreshing EXCEPT ![r] = Resting]
    /\ data' = IF data[Button] = NoData THEN data ELSE Append(data, NoData)
    /\ UNCHANGED <<asked, forms, creating, remotes, learnVars, keyVars, due, irFailed, irCrossed>>

-----------------------------------------------------------------------------
IrNext ==
    \/ Press \/ Create
    \/ (\E f \in 1..MaxDialogs : SubmitUnknown(f) \/ Submit(f) \/ Leave(f))
    \/ Hear \/ DeleteKey \/ Deleted
    \/ \E l \in Learners :
         LearnBegin(l) \/ LearnPoll(l) \/ LearnStop(l) \/ LearnRaises(l) \/ LearnSave(l)
    \/ \E r \in Refreshers : RefreshFetch(r) \/ RefreshBuild(r)

IrSpec == IrInit /\ [][IrNext]_irVars

-----------------------------------------------------------------------------
(* Properties. *)

IrTypeOK ==
    /\ data \in Seq([step : 1..4, flow : 0..MaxDialogs, name : 0..MaxDialogs,
                    category : 0..MaxDialogs, brand : 0..MaxDialogs])
    /\ asked \in 0..MaxDialogs /\ forms \subseteq 1..asked
    /\ creating \subseteq [dialog : 1..MaxDialogs, object : DOMAIN data]
    /\ learning \in BOOLEAN /\ sessions \in 0..MaxSessions /\ captured \subseteq 1..sessions
    /\ learner \in [Learners -> {Resting} \cup [pc : {"poll", "stop", "save"},
                                               session : 1..MaxSessions, code : 0..MaxSessions]]
    /\ keys \subseteq [name : 1..sessions, code : 1..sessions]
    /\ deleting \subseteq 1..sessions /\ shown \subseteq 1..sessions
    /\ due \in BOOLEAN /\ irFailed \in BOOLEAN /\ irCrossed \in BOOLEAN

\* However often the button is pressed, dialogs are left and creations fail, a remote
\* is made of answers that were all given in one dialog, the registered one.
OneDialog == \A r \in remotes : r.name = r.flow /\ r.category = r.flow /\ r.brand = r.flow

\* Learnings of several threads overlap on one hub; at rest a key holds the code heard
\* in its own session, the hub is out of its learning state, and each key has
\* its button and no other, unless a request failed or refreshes and deletions crossed.
KeysTrue ==
    /\ \A k \in keys : k.code = k.name
    /\ ~irFailed /\ (\A l \in Learners : learner[l] = Resting) => ~learning
    /\ ~irFailed /\ ~irCrossed /\ ~due /\ deleting = {} /\ (\A r \in Refreshers : refreshing[r] = Resting)
         => shown = {k.name : k \in keys}
=============================================================================
