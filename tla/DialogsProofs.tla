---------------------------- MODULE DialogsProofs ----------------------------
(***************************************************************************)
(* Proofs about what a user is shown and talks to: the forms of the        *)
(* integration (ConfigFlow), the infrared remotes (IrRemotes), the stream  *)
(* of a camera (WebRtc) and the entities that a platform finds for a       *)
(* device (Discovery).                                                     *)
(***************************************************************************)
EXTENDS ConfigFlow, IrRemotes, WebRtc, Discovery, FiniteSetTheorems, SequenceTheorems,
        WellFoundedInduction, TLAPS

-----------------------------------------------------------------------------
(* The forms, for any dialogs, values and logins.                          *)

Api == [id : Nat, app : {AppTypes[i] : i \in 1..3} \cup {"none"}]
Entries == [exists : BOOLEAN, token : Nat, api : Api, hub : Nat, loaded : BOOLEAN]
Forms == {NoDialog} \cup [step : {"api", "hub"} \cup Kinds, api : Api, hub : Nat]

FlowTypes ==
    /\ entry \in Entries /\ dialog \in [Dialogs -> Forms]
    /\ writes \in [values : Nat, logins : Nat]
    /\ login \in [step : {"none", "user", "reauth", "code", "scan", "api"},
                  qr : {"none", "shown", "scanned"}, renews : BOOLEAN]
    /\ settings \in [Kinds -> Nat]
    /\ kept \in [api : Api, hub : Nat, settings : [Kinds -> Nat]]
    /\ crossed \in BOOLEAN

(* There is no dialog without an entry, and a login that makes one found   *)
(* none: logins do not overlap.                                            *)
EntryFirst ==
    /\ ~entry.exists => Opened = {}
    /\ login.step # "none" /\ ~login.renews => ~entry.exists
    /\ login.step = "api" => ~login.renews

(* Until the entry changes under an open dialog, every open dialog holds   *)
(* the options of the entry, and they are what was entered last.           *)
UpToDate ==
    crossed \/ /\ entry.exists => entry.api = kept.api /\ entry.hub = kept.hub
               /\ settings = kept.settings
               /\ \A d \in Opened : dialog[d].api = entry.api /\ dialog[d].hub = entry.hub

FlowInv == FlowTypes /\ EntryFirst /\ UpToDate

LEMMA FlowInvInit == FlowInit => FlowInv
<1> SUFFICES ASSUME FlowInit PROVE FlowInv
  OBVIOUS
<1>1. FlowTypes
  BY DEF FlowInit, FlowTypes, Entries, Forms, Api, NoEntry, NoLogin, NoSetting
<1>2. Opened = {}
  BY DEF FlowInit, Opened
<1>3. login.step = "none" /\ ~entry.exists /\ settings = kept.settings
  BY DEF FlowInit, NoLogin, NoEntry
<1> QED
  BY <1>1, <1>2, <1>3 DEF FlowInv, EntryFirst, UpToDate

(* The cloud accepts a type of account: _try_login_open_api takes one.     *)
LEMMA FirstIsAppType ==
    ASSUME NEW a \in (SUBSET {AppTypes[i] : i \in 1..3}) \ {{}}
    PROVE  FirstAccepted(a) \in {AppTypes[i] : i \in 1..3}
<1> DEFINE P(i) == AppTypes[i] \in a /\ \A j \in 1..(i - 1) : AppTypes[j] \notin a
<1>1. \E i \in 1..3 : P(i)
  <2>1. PICK k \in 1..3 : AppTypes[k] \in a
    OBVIOUS
  <2>2. CASE AppTypes[1] \in a
    <3>1. 1 \in 1..3 /\ 1..(1 - 1) = {}
      OBVIOUS
    <3> QED
      BY <2>2, <3>1
  <2>3. CASE AppTypes[1] \notin a /\ AppTypes[2] \in a
    <3>1. 2 \in 1..3 /\ \A j \in 1..(2 - 1) : j = 1
      OBVIOUS
    <3> QED
      BY <2>3, <3>1
  <2>4. CASE AppTypes[1] \notin a /\ AppTypes[2] \notin a
    <3>1. 3 \in 1..3 /\ \A j \in 1..(3 - 1) : j = 1 \/ j = 2
      OBVIOUS
    <3>2. k = 3
      BY <2>1, <2>4
    <3> QED
      BY <2>1, <2>4, <3>1, <3>2
  <2> QED
    BY <2>2, <2>3, <2>4
<1>2. (CHOOSE i \in 1..3 : P(i)) \in 1..3
  BY <1>1
<1> QED
  BY <1>2 DEF FirstAccepted

LEMMA ChoicesTyped ==
    ASSUME NEW n \in Nat, NEW api \in ApiChoices(n)
    PROVE  api \in Api
  BY FirstIsAppType DEF ApiChoices, Api

(* The entry is rewritten with new options while the dialog d alone is     *)
(* open, or while others are: then the entry changed under them.           *)
LEMMA RewriteKeeps ==
    ASSUME FlowInv, NEW d \in Opened, NEW api \in Api, NEW hub \in Nat,
           Rewritten([entry EXCEPT !.api = api, !.hub = hub], Opened \ {d}), Closes(d),
           FlowTypes', UNCHANGED login, entry.exists,
           crossed \/ (kept'.api = api /\ kept'.hub = hub /\ settings' = kept'.settings)
    PROVE  FlowInv'
<1>1. /\ entry'.exists /\ entry'.api = api /\ entry'.hub = hub
      /\ crossed' = (crossed \/ Opened \ {d} # {})
  BY DEF Rewritten, FlowInv, FlowTypes, Entries
<1>2. dialog' = [dialog EXCEPT ![d] = NoDialog] /\ dialog \in [Dialogs -> Forms]
  BY DEF Closes, FlowInv, FlowTypes
<1>3. Opened' = Opened \ {d}
  BY <1>2 DEF Opened
<1>4. EntryFirst'
  BY <1>1 DEF EntryFirst, FlowInv
<1>5. UpToDate'
  BY <1>1, <1>3 DEF UpToDate
<1> QED
  BY <1>4, <1>5 DEF FlowInv

LEMMA DialogFields ==
    ASSUME FlowInv, NEW d \in Dialogs, dialog[d] # NoDialog
    PROVE  dialog[d].api \in Api /\ dialog[d].hub \in Nat
  BY DEF FlowInv, FlowTypes, Forms

(* The steps of the login: the entry is made once, before any dialog, or   *)
(* gets a new token.                                                       *)
LEMMA LoginStep ==
    ASSUME FlowInv,
           StartLogin \/ UserCode \/ Reauth \/ ScanQrCode \/ ScanFails \/ ScanSucceeds
             \/ CreateEntry \/ LoadEntry
    PROVE  FlowInv'
<1>1. CASE StartLogin \/ UserCode \/ Reauth \/ ScanQrCode \/ ScanFails
  <2>1. UNCHANGED <<entry, settings, dialog, kept, crossed>>
    BY <1>1 DEF StartLogin, UserCode, Reauth, ScanQrCode, ScanFails, GetQrCode
  <2>2. ASSUME NEW next \in {"scan"}, NEW error \in {"user", "code", "scan"}, GetQrCode(next, error),
               login.step # "none"
        PROVE  FlowInv'
    <3>1. login' \in [step : {"none", "user", "reauth", "code", "scan", "api"},
                      qr : {"none", "shown", "scanned"}, renews : BOOLEAN]
          /\ login'.renews = login.renews /\ login'.step # "api"
      <4>1. login' = [login EXCEPT !.step = next, !.qr = "shown"]
            \/ login' = [login EXCEPT !.step = error]
        BY <2>2 DEF GetQrCode
      <4> QED
        BY <4>1 DEF FlowInv, FlowTypes
    <3>2. writes' \in [values : Nat, logins : Nat]
      BY <2>2 DEF GetQrCode, FlowInv, FlowTypes
    <3>3. FlowTypes'
      BY <2>1, <3>1, <3>2 DEF FlowInv, FlowTypes
    <3>4. EntryFirst' /\ UpToDate'
      BY <2>1, <2>2, <3>1 DEF FlowInv, EntryFirst, UpToDate, Opened
    <3> QED
      BY <3>3, <3>4 DEF FlowInv
  <2>3. CASE StartLogin
    <3>1. /\ login' = [step |-> IF entry.exists THEN "reauth" ELSE "user", qr |-> "none",
                       renews |-> entry.exists]
          /\ UNCHANGED writes
      BY <2>3 DEF StartLogin, NoLogin
    <3>2. FlowTypes' /\ login'.renews = entry.exists /\ login'.step # "api"
      BY <2>1, <3>1 DEF FlowInv, FlowTypes, Entries
    <3>3. EntryFirst' /\ UpToDate'
      BY <2>1, <3>2 DEF FlowInv, EntryFirst, UpToDate, Opened
    <3> QED
      BY <3>2, <3>3 DEF FlowInv
  <2>4. CASE ScanQrCode
    <3>1. FlowTypes' /\ login'.renews = login.renews /\ login'.step = login.step
      BY <2>1, <2>4 DEF ScanQrCode, FlowInv, FlowTypes
    <3>2. EntryFirst' /\ UpToDate'
      BY <2>1, <3>1 DEF FlowInv, EntryFirst, UpToDate, Opened
    <3> QED
      BY <3>1, <3>2 DEF FlowInv
  <2>5. CASE UserCode
    <3>1. login.step \in {"user", "code"} /\ GetQrCode("scan", login.step)
      BY <2>5 DEF UserCode
    <3> QED
      BY <2>2, <3>1
  <2>6. CASE Reauth \/ ScanFails
    BY <2>2, <2>6 DEF Reauth, ScanFails
  <2> QED
    BY <1>1, <2>3, <2>4, <2>5, <2>6
<1>2. CASE ScanSucceeds
  <2>1. /\ UNCHANGED <<settings, dialog, writes, kept>> /\ login.step = "scan"
    BY <1>2 DEF ScanSucceeds
  <2>2. CASE login.renews
    <3>1. /\ login' = NoLogin /\ crossed' = (crossed \/ Opened # {})
          /\ entry' = [[entry EXCEPT !.token = writes.logins] EXCEPT !.loaded = FALSE]
      BY <1>2, <2>2 DEF ScanSucceeds, Rewritten
    <3>2. FlowTypes'
      BY <2>1, <3>1 DEF FlowInv, FlowTypes, Entries, NoLogin
    <3>3. entry'.exists = entry.exists /\ entry'.api = entry.api /\ entry'.hub = entry.hub
      BY <3>1 DEF FlowInv, FlowTypes, Entries
    <3>4. EntryFirst' /\ UpToDate'
      BY <2>1, <3>1, <3>3 DEF FlowInv, EntryFirst, UpToDate, Opened, NoLogin
    <3> QED
      BY <3>2, <3>4 DEF FlowInv
  <2>3. CASE ~login.renews
    <3>1. login' = [login EXCEPT !.step = "api"] /\ UNCHANGED <<entry, crossed>>
      BY <1>2, <2>3 DEF ScanSucceeds
    <3>2. FlowTypes' /\ login'.renews = login.renews
      BY <2>1, <3>1 DEF FlowInv, FlowTypes
    <3>3. EntryFirst' /\ UpToDate'
      BY <2>1, <2>3, <3>1, <3>2 DEF FlowInv, EntryFirst, UpToDate, Opened
    <3> QED
      BY <3>2, <3>3 DEF FlowInv
  <2> QED
    BY <2>2, <2>3
<1>3. CASE CreateEntry
  <2> PICK n \in 1..MaxWrites : Enters(n) /\ \E api \in ApiChoices(n) :
         /\ entry' = [NoEntry EXCEPT !.exists = TRUE, !.token = writes.logins, !.api = api]
         /\ kept' = [kept EXCEPT !.api = api, !.hub = 0]
    BY <1>3 DEF CreateEntry
  <2>1. PICK api \in ApiChoices(n) :
          /\ entry' = [NoEntry EXCEPT !.exists = TRUE, !.token = writes.logins, !.api = api]
          /\ kept' = [kept EXCEPT !.api = api, !.hub = 0]
    OBVIOUS
  <2>2. login' = NoLogin /\ UNCHANGED <<settings, dialog, crossed>>
    BY <1>3 DEF CreateEntry
  <2>3. api \in Api /\ n \in Nat
    BY ChoicesTyped
  <2>4. FlowTypes'
    BY <2>1, <2>2, <2>3 DEF FlowInv, FlowTypes, Entries, NoEntry, NoLogin, Enters
  <2>5. /\ entry'.exists /\ entry'.api = api /\ entry'.hub = 0 /\ kept'.api = api /\ kept'.hub = 0
        /\ kept'.settings = kept.settings /\ login'.step = "none"
    BY <2>1, <2>2 DEF FlowInv, FlowTypes, NoEntry, NoLogin
  <2>6. CASE crossed
    BY <2>2, <2>4, <2>5, <2>6 DEF FlowInv, EntryFirst, UpToDate
  <2>7. CASE ~crossed
    <3>1. Opened = {}
      <4>1. login.step = "api"
        BY <1>3 DEF CreateEntry
      <4> QED
        BY <4>1 DEF FlowInv, EntryFirst
    <3>2. Opened' = {}
      BY <2>2, <3>1 DEF Opened
    <3> QED
      BY <2>2, <2>4, <2>5, <3>2 DEF FlowInv, EntryFirst, UpToDate
  <2> QED
    BY <2>6, <2>7
<1>4. CASE LoadEntry
  <2>1. entry' = [entry EXCEPT !.loaded = TRUE]
        /\ UNCHANGED <<login, settings, dialog, writes, kept, crossed>>
    BY <1>4 DEF LoadEntry
  <2>2. FlowTypes' /\ entry'.exists = entry.exists /\ entry'.api = entry.api
        /\ entry'.hub = entry.hub
    BY <2>1 DEF FlowInv, FlowTypes, Entries
  <2>3. EntryFirst' /\ UpToDate'
    BY <2>1, <2>2 DEF FlowInv, EntryFirst, UpToDate, Opened
  <2> QED
    BY <2>2, <2>3 DEF FlowInv
<1> QED
  BY <1>1, <1>2, <1>3, <1>4

(* The dialogs: a form writes back what it read with its change.           *)
LEMMA DialogStep ==
    ASSUME FlowInv, NEW d \in Dialogs,
           \/ OpenDialog(d) \/ CancelDialog(d) \/ SaveApi(d) \/ SaveHub(d)
           \/ ClimateSettings(d) \/ LockSettings(d) \/ CoverSettings(d)
    PROVE  FlowInv'
<1>1. CASE OpenDialog(d)
  <2>1. /\ dialog[d] = NoDialog /\ entry.exists
        /\ UNCHANGED <<login, entry, settings, writes, kept, crossed>>
    BY <1>1 DEF OpenDialog
  <2>2. PICK step \in {"api", "hub"} \cup Kinds :
          dialog' = [dialog EXCEPT ![d] = [step |-> step, api |-> entry.api, hub |-> entry.hub]]
    BY <1>1 DEF OpenDialog
  <2> DEFINE form == [step |-> step, api |-> entry.api, hub |-> entry.hub]
  <2>3. form \in Forms /\ form.api = entry.api /\ form.hub = entry.hub
    BY DEF FlowInv, FlowTypes, Entries, Forms
  <2>4. dialog' = [dialog EXCEPT ![d] = form] /\ dialog \in [Dialogs -> Forms]
    BY <2>2 DEF FlowInv, FlowTypes
  <2> HIDE DEF form
  <2>5. FlowTypes'
    BY <2>1, <2>3, <2>4 DEF FlowInv, FlowTypes
  <2>6. ASSUME NEW o \in Opened'
        PROVE  (o = d /\ dialog'[o] = form) \/ (o \in Opened /\ dialog'[o] = dialog[o])
    <3>1. o \in Dialogs /\ dialog'[o] # NoDialog
      BY DEF Opened
    <3>2. dialog'[o] = IF o = d THEN form ELSE dialog[o]
      BY <2>4, <3>1
    <3> QED
      BY <3>1, <3>2 DEF Opened
  <2>7. EntryFirst' /\ UpToDate'
    BY <2>1, <2>3, <2>6 DEF FlowInv, EntryFirst, UpToDate
  <2> QED
    BY <2>5, <2>7 DEF FlowInv
<1>2. ASSUME Closes(d)
      PROVE  dialog' \in [Dialogs -> Forms] /\ Opened' = Opened \ {d}
             /\ \A o \in Opened' : dialog'[o] = dialog[o]
  BY <1>2 DEF Closes, FlowInv, FlowTypes, Forms, Opened
<1>3. CASE CancelDialog(d)
  <2>1. Closes(d) /\ UNCHANGED <<login, entry, settings, writes, kept, crossed>>
    BY <1>3 DEF CancelDialog, Closes
  <2>2. FlowTypes'
    BY <1>2, <2>1 DEF FlowInv, FlowTypes
  <2>3. EntryFirst' /\ UpToDate'
    BY <1>2, <2>1 DEF FlowInv, EntryFirst, UpToDate
  <2> QED
    BY <2>2, <2>3 DEF FlowInv
<1>4. ASSUME dialog[d] # NoDialog
      PROVE  /\ d \in Opened /\ dialog[d].api \in Api /\ dialog[d].hub \in Nat
             /\ ~crossed => dialog[d].api = entry.api /\ dialog[d].hub = entry.hub
             /\ ~crossed /\ entry.exists => /\ entry.api = kept.api /\ entry.hub = kept.hub
                                            /\ settings = kept.settings
  <2>1. d \in Opened
    BY <1>4 DEF Opened
  <2>2. UpToDate
    BY DEF FlowInv
  <2> QED
    BY <1>4, <2>1, <2>2, DialogFields DEF UpToDate
<1>5. ASSUME NEW api \in Api, NEW hub \in Nat, entry.exists, UNCHANGED login, Closes(d),
             Rewritten([entry EXCEPT !.api = api, !.hub = hub], Opened \ {d}),
             writes' \in [values : Nat, logins : Nat], settings' \in [Kinds -> Nat],
             kept' \in [api : Api, hub : Nat, settings : [Kinds -> Nat]]
      PROVE  FlowTypes'
  <2>1. entry' \in Entries
    BY <1>5 DEF Rewritten, FlowInv, FlowTypes, Entries
  <2>2. crossed' \in BOOLEAN
    BY <1>5 DEF Rewritten
  <2> QED
    BY <1>2, <1>5, <2>1, <2>2 DEF FlowInv, FlowTypes
<1>6. ASSUME NEW n \in Nat, Enters(n)
      PROVE  writes' \in [values : Nat, logins : Nat]
  BY <1>6 DEF Enters, FlowInv, FlowTypes
<1>7. CASE SaveApi(d)
  <2>1. dialog[d] # NoDialog /\ entry.exists /\ Closes(d) /\ UNCHANGED <<login, settings>>
    BY <1>7 DEF SaveApi, Form
  <2> PICK n \in 1..MaxWrites : Enters(n) /\ \E api \in ApiChoices(n) :
         /\ Rewritten(ApiOptions(d, api), Opened \ {d})
         /\ kept' = [kept EXCEPT !.api = api]
    BY <1>7 DEF SaveApi
  <2>2. PICK api \in ApiChoices(n) :
         /\ Rewritten(ApiOptions(d, api), Opened \ {d})
         /\ kept' = [kept EXCEPT !.api = api]
    OBVIOUS
  <2>3. api \in Api /\ n \in Nat /\ dialog[d].hub \in Nat
    BY <1>4, <2>1, ChoicesTyped
  <2>4. Rewritten([entry EXCEPT !.api = api, !.hub = dialog[d].hub], Opened \ {d})
    BY <2>2 DEF ApiOptions
  <2>5. /\ kept' \in [api : Api, hub : Nat, settings : [Kinds -> Nat]]
        /\ kept'.api = api /\ kept'.hub = kept.hub /\ kept'.settings = kept.settings
    BY <2>2, <2>3 DEF FlowInv, FlowTypes
  <2>6. FlowTypes'
    BY <1>5, <1>6, <2>1, <2>3, <2>4, <2>5 DEF FlowInv, FlowTypes
  <2>7. crossed \/ (kept'.api = api /\ kept'.hub = dialog[d].hub /\ settings' = kept'.settings)
    BY <1>4, <2>1, <2>5
  <2> QED
    BY <1>4, <2>1, <2>3, <2>4, <2>6, <2>7, RewriteKeeps
<1>8. CASE SaveHub(d)
  <2>1. dialog[d] # NoDialog /\ entry.exists /\ Closes(d) /\ UNCHANGED <<login, settings>>
    BY <1>8 DEF SaveHub, Form
  <2>2. PICK n \in 1..MaxWrites :
         /\ Enters(n)
         /\ Rewritten([entry EXCEPT !.api = dialog[d].api, !.hub = n], Opened \ {d})
         /\ kept' = [kept EXCEPT !.hub = n]
    BY <1>8 DEF SaveHub
  <2>3. dialog[d].api \in Api /\ n \in Nat
    BY <1>4, <2>1
  <2>4. /\ kept' \in [api : Api, hub : Nat, settings : [Kinds -> Nat]]
        /\ kept'.api = kept.api /\ kept'.hub = n /\ kept'.settings = kept.settings
    BY <2>2, <2>3 DEF FlowInv, FlowTypes
  <2>5. FlowTypes'
    BY <1>5, <1>6, <2>1, <2>2, <2>3, <2>4 DEF FlowInv, FlowTypes
  <2>6. crossed \/ (kept'.api = dialog[d].api /\ kept'.hub = n /\ settings' = kept'.settings)
    BY <1>4, <2>1, <2>4
  <2> QED
    BY <1>4, <2>1, <2>2, <2>3, <2>5, <2>6, RewriteKeeps
<1>9. CASE ClimateSettings(d) \/ LockSettings(d) \/ CoverSettings(d)
  <2>10. PICK k \in Kinds : SaveSetting(d, k)
    BY <1>9 DEF ClimateSettings, LockSettings, CoverSettings, Kinds
  <2>1. /\ Form(d, k)
        /\ \E n \in 1..MaxWrites : Enters(n) /\ \E value \in {NoSetting, n} :
             /\ settings' = [settings EXCEPT ![k] = value]
             /\ kept' = [kept EXCEPT !.settings[k] = value]
    BY <2>10 DEF SaveSetting
  <2>2. PICK n \in 1..MaxWrites : Enters(n) /\ \E value \in {NoSetting, n} :
               /\ settings' = [settings EXCEPT ![k] = value]
               /\ kept' = [kept EXCEPT !.settings[k] = value]
    BY <2>1
  <2>3. PICK value \in {NoSetting, n} :
               /\ settings' = [settings EXCEPT ![k] = value]
               /\ kept' = [kept EXCEPT !.settings[k] = value]
    BY <2>2
  <2>4. dialog[d] # NoDialog /\ entry.exists /\ Closes(d) /\ UNCHANGED login
        /\ Rewritten([entry EXCEPT !.api = dialog[d].api, !.hub = dialog[d].hub], Opened \ {d})
    BY <2>10, <2>1 DEF SaveSetting, Form
  <2>5. value \in Nat /\ n \in Nat /\ dialog[d].api \in Api /\ dialog[d].hub \in Nat
    BY <1>4, <2>4 DEF NoSetting
  <2>6. /\ kept' \in [api : Api, hub : Nat, settings : [Kinds -> Nat]]
        /\ kept'.api = kept.api /\ kept'.hub = kept.hub
        /\ kept'.settings = [kept.settings EXCEPT ![k] = value]
    BY <2>3, <2>5 DEF FlowInv, FlowTypes
  <2>7. settings' \in [Kinds -> Nat]
    BY <2>3, <2>5 DEF FlowInv, FlowTypes
  <2>8. FlowTypes'
    BY <1>5, <1>6, <2>2, <2>4, <2>5, <2>6, <2>7
  <2>9. crossed \/ (/\ kept'.api = dialog[d].api /\ kept'.hub = dialog[d].hub
                    /\ settings' = kept'.settings)
    BY <1>4, <2>3, <2>4, <2>6
  <2> QED
    BY <1>4, <2>4, <2>5, <2>8, <2>9, RewriteKeeps
<1> QED
  BY <1>1, <1>3, <1>7, <1>8, <1>9

LEMMA FlowStep == FlowInv /\ [FlowNext]_flowVars => FlowInv'
<1> SUFFICES ASSUME FlowInv, [FlowNext]_flowVars PROVE FlowInv'
  OBVIOUS
<1>1. CASE UNCHANGED flowVars
  BY <1>1 DEF flowVars, FlowInv, FlowTypes, EntryFirst, UpToDate, Opened
<1> QED
  BY <1>1, LoginStep, DialogStep DEF FlowNext

(* However many dialogs are open, left or completed: the options of the    *)
(* entry and the settings of its entities are what was entered last for    *)
(* each, as long as the entry did not change under an open dialog.         *)
THEOREM FormsKeepTheRest == FlowSpec => []SettingsKept
<1>1. FlowInv => SettingsKept
  BY DEF FlowInv, UpToDate, SettingsKept
<1> QED
  BY <1>1, FlowInvInit, FlowStep, PTL DEF FlowSpec
-----------------------------------------------------------------------------
(* The dialog that adds a remote, for any number of dialogs.               *)

Record == [step : 1..4, flow : Nat, name : Nat, category : Nat, brand : Nat]

(* What is entered so far was entered in the registered dialog.            *)
Answers(r) ==
    /\ r.step # 1 => r.flow # 0 /\ r.name = r.flow
    /\ r.step \in {3, 4} => r.category = r.flow
    /\ r.step = 4 => r.brand = r.flow

DataTypes ==
    /\ asked \in Nat
    /\ data \in Seq(Record) /\ data # <<>>

AddInv ==
    /\ DataTypes
    /\ \A i \in DOMAIN data : Answers(data[i])
    /\ \A c \in creating : c.object \in DOMAIN data /\ data[c.object].step = 4
    /\ OneDialog

LEMMA AddInvInit == IrInit => AddInv
<1> SUFFICES ASSUME IrInit PROVE AddInv
  OBVIOUS
<1>1. data = <<NoData>> /\ asked = 0 /\ creating = {} /\ remotes = {}
  BY DEF IrInit
<1>2. NoData \in Record /\ Answers(NoData)
  BY DEF NoData, Record, Answers
<1>3. data \in Seq(Record) /\ data # <<>> /\ \A i \in DOMAIN data : data[i] = NoData
  BY <1>1, <1>2
<1> QED
  BY <1>1, <1>2, <1>3 DEF AddInv, DataTypes, OneDialog

(* The data of one build of the button change.                             *)
LEMMA DataBecome ==
    ASSUME AddInv, NEW i \in DOMAIN data, NEW r \in Record, Answers(r),
           data' = [data EXCEPT ![i] = r], data[i].step = 4 => r.step = 4,
           asked' \in Nat, UNCHANGED remotes,
           \A c \in creating' : c \in creating \/ (c.object = i /\ r.step = 4)
    PROVE  AddInv'
<1>1. data \in Seq(Record) /\ data # <<>> /\ DOMAIN data = 1..Len(data)
  BY DEF AddInv, DataTypes
<1>2. /\ data' \in Seq(Record) /\ data' # <<>> /\ DOMAIN data' = DOMAIN data
      /\ \A j \in DOMAIN data : data'[j] = IF j = i THEN r ELSE data[j]
  BY <1>1
<1>3. \A j \in DOMAIN data' : Answers(data'[j])
  BY <1>2 DEF AddInv
<1>4. \A c \in creating' : c.object \in DOMAIN data' /\ data'[c.object].step = 4
  BY <1>2 DEF AddInv
<1> QED
  BY <1>2, <1>3, <1>4 DEF AddInv, DataTypes, OneDialog

LEMMA PressStep ==
    ASSUME AddInv, Press
    PROVE  AddInv'
<1> DEFINE r == [data[Button] EXCEPT !.flow = IF data[Button].flow = 0 THEN asked' ELSE data[Button].flow]
<1>1. /\ asked' = asked + 1 /\ data' = [data EXCEPT ![Button] = r] /\ UNCHANGED remotes
      /\ \A c \in creating' : c \in creating \/ (c.object = Button /\ data[Button].step = 4)
  BY DEF Press, Creates
<1>2. Button \in DOMAIN data /\ data[Button] \in Record /\ Answers(data[Button]) /\ asked \in Nat
  BY DEF AddInv, DataTypes, Button
<1>3. r \in Record /\ r.step = data[Button].step /\ Answers(r)
  BY <1>1, <1>2 DEF Record, Answers
<1> HIDE DEF r
<1>4. /\ data[Button].step = 4 => r.step = 4
      /\ asked' \in Nat
      /\ \A c \in creating' : c \in creating \/ (c.object = Button /\ r.step = 4)
  BY <1>1, <1>2, <1>3
<1> QED
  BY <1>1, <1>2, <1>3, <1>4, DataBecome, Zenon

LEMMA NextAnswer ==
    ASSUME NEW r \in Record, NEW n \in 1..4, NEW f \in Nat, NEW b \in Nat
    PROVE  /\ [r EXCEPT !.step = n, !.name = f] \in Record
           /\ [r EXCEPT !.step = n, !.category = f] \in Record
           /\ [r EXCEPT !.step = n, !.category = f, !.brand = f] \in Record
           /\ [r EXCEPT !.step = n, !.brand = b] \in Record
  BY DEF Record

LEMMA SubmitStep ==
    ASSUME AddInv, NEW f \in 1..MaxDialogs, Submit(f)
    PROVE  AddInv'
<1>1. PICK i \in DOMAIN data :
         /\ OwnDialog(f, i)
         /\ \/ /\ data[i].step = 1 /\ data' = [data EXCEPT ![i].step = 2, ![i].name = f]
               /\ UNCHANGED <<forms, creating>>
            \/ /\ data[i].step = 2 /\ data' = [data EXCEPT ![i].step = 3, ![i].category = f]
               /\ UNCHANGED <<forms, creating>>
            \/ /\ data[i].step = 2
               /\ data' = [data EXCEPT ![i].step = 4, ![i].category = f, ![i].brand = f]
               /\ Creates(f, i) /\ forms' = forms \ {f}
            \/ /\ data[i].step \in {3, 4}
               /\ data' = [data EXCEPT ![i].step = 4,
                                       ![i].brand = IF data[i].step = 3 THEN f ELSE @]
               /\ Creates(f, i) /\ forms' = forms \ {f}
  BY DEF Submit
<1>2. UNCHANGED <<asked, remotes>>
  BY DEF Submit
<1>3. /\ data[i] \in Record /\ Answers(data[i]) /\ data[i].flow = f /\ f \in Nat /\ f # 0
      /\ asked' \in Nat /\ data \in Seq(Record) /\ i \in DOMAIN data
  BY <1>1, <1>2 DEF AddInv, DataTypes, OwnDialog
<1> DEFINE old == data[i]
<1>8. old \in Record /\ f \in Nat
  BY <1>3
<1>4. CASE /\ data[i].step = 1 /\ data' = [data EXCEPT ![i].step = 2, ![i].name = f]
           /\ UNCHANGED creating
  <2> DEFINE r == [old EXCEPT !.step = 2, !.name = f]
  <2>1. r \in Record
    <3>1. 2 \in 1..4 /\ 3 \in 1..4 /\ 4 \in 1..4 /\ old.brand \in Nat
      BY <1>8 DEF Record
    <3> HIDE DEF old
    <3> QED
      BY <1>8, <3>1, NextAnswer
  <2>2. Answers(r)
    <3>1. r.step = 2 /\ r.flow = f /\ r.name = f
      BY <1>3, <1>4 DEF Record, Answers
    <3> HIDE DEF r
    <3> QED
      BY <3>1 DEF Answers
  <2>3. data' = [data EXCEPT ![i] = r]
    BY <1>3, <1>4
  <2>4. /\ data[i].step = 4 => r.step = 4
        /\ asked' \in Nat /\ UNCHANGED remotes
        /\ \A c \in creating' : c \in creating \/ (c.object = i /\ r.step = 4)
    BY <1>2, <1>3, <1>4 DEF Creates
  <2> HIDE DEF r
  <2> QED
    BY <2>1, <2>2, <2>3, <2>4, DataBecome, Zenon
<1>5. CASE /\ data[i].step = 2 /\ data' = [data EXCEPT ![i].step = 3, ![i].category = f]
           /\ UNCHANGED creating
  <2> DEFINE r == [old EXCEPT !.step = 3, !.category = f]
  <2>1. r \in Record
    <3>1. 2 \in 1..4 /\ 3 \in 1..4 /\ 4 \in 1..4 /\ old.brand \in Nat
      BY <1>8 DEF Record
    <3> HIDE DEF old
    <3> QED
      BY <1>8, <3>1, NextAnswer
  <2>2. Answers(r)
    <3>1. r.step = 3 /\ r.flow = f /\ r.name = f /\ r.category = f
      BY <1>3, <1>5 DEF Record, Answers
    <3> HIDE DEF r
    <3> QED
      BY <3>1 DEF Answers
  <2>3. data' = [data EXCEPT ![i] = r]
    BY <1>3, <1>5
  <2>4. /\ data[i].step = 4 => r.step = 4
        /\ asked' \in Nat /\ UNCHANGED remotes
        /\ \A c \in creating' : c \in creating \/ (c.object = i /\ r.step = 4)
    BY <1>2, <1>3, <1>5 DEF Creates
  <2> HIDE DEF r
  <2> QED
    BY <2>1, <2>2, <2>3, <2>4, DataBecome, Zenon
<1>6. CASE /\ data[i].step = 2 /\ Creates(f, i)
           /\ data' = [data EXCEPT ![i].step = 4, ![i].category = f, ![i].brand = f]
  <2> DEFINE r == [old EXCEPT !.step = 4, !.category = f, !.brand = f]
  <2>1. r \in Record
    <3>1. 2 \in 1..4 /\ 3 \in 1..4 /\ 4 \in 1..4 /\ old.brand \in Nat
      BY <1>8 DEF Record
    <3> HIDE DEF old
    <3> QED
      BY <1>8, <3>1, NextAnswer
  <2>2. Answers(r)
    <3>1. r.step = 4 /\ r.flow = f /\ r.name = f /\ r.category = f /\ r.brand = f
      BY <1>3, <1>6 DEF Record, Answers
    <3> HIDE DEF r
    <3> QED
      BY <3>1 DEF Answers
  <2>3. data' = [data EXCEPT ![i] = r]
    BY <1>3, <1>6
  <2>4. /\ data[i].step = 4 => r.step = 4
        /\ asked' \in Nat /\ UNCHANGED remotes
        /\ \A c \in creating' : c \in creating \/ (c.object = i /\ r.step = 4)
    BY <1>2, <1>3, <1>6 DEF Creates
  <2> HIDE DEF r
  <2> QED
    BY <2>1, <2>2, <2>3, <2>4, DataBecome, Zenon
<1>7. CASE /\ data[i].step \in {3, 4} /\ Creates(f, i)
           /\ data' = [data EXCEPT ![i].step = 4,
                                   ![i].brand = IF data[i].step = 3 THEN f ELSE @]
  <2> DEFINE r == [old EXCEPT !.step = 4,
                               !.brand = IF old.step = 3 THEN f ELSE old.brand]
  <2>1. r \in Record
    <3>1. 2 \in 1..4 /\ 3 \in 1..4 /\ 4 \in 1..4 /\ old.brand \in Nat
      BY <1>8 DEF Record
    <3> HIDE DEF old
    <3> QED
      BY <1>8, <3>1, NextAnswer
  <2>2. Answers(r)
    <3>1. r.step = 4 /\ r.flow = f /\ r.name = f /\ r.category = f /\ r.brand = f
      BY <1>3, <1>7 DEF Record, Answers
    <3> HIDE DEF r
    <3> QED
      BY <3>1 DEF Answers
  <2>3. data' = [data EXCEPT ![i] = r]
    BY <1>3, <1>7
  <2>4. /\ data[i].step = 4 => r.step = 4
        /\ asked' \in Nat /\ UNCHANGED remotes
        /\ \A c \in creating' : c \in creating \/ (c.object = i /\ r.step = 4)
    BY <1>2, <1>3, <1>7 DEF Creates
  <2> HIDE DEF r
  <2> QED
    BY <2>1, <2>2, <2>3, <2>4, DataBecome, Zenon
<1> QED
  BY <1>1, <1>4, <1>5, <1>6, <1>7

(* The other steps create remotes from complete data, build the button     *)
(* anew or leave the data alone.                                           *)
LEMMA AddStep ==
    AddInv /\ [IrNext]_irVars => AddInv'
<1> SUFFICES ASSUME AddInv, [IrNext]_irVars PROVE AddInv'
  OBVIOUS
<1>1. ASSUME UNCHANGED <<data, asked, creating, remotes>>
      PROVE  AddInv'
  BY <1>1 DEF AddInv, DataTypes, OneDialog
<1>2. CASE Create
  <2>1. PICK c \in creating :
          /\ creating' = creating \ {c}
          /\ \/ remotes' = remotes \cup {data[c.object]}
             \/ UNCHANGED remotes
    BY <1>2 DEF Create
  <2>2. UNCHANGED <<data, asked>>
    BY <1>2 DEF Create
  <2>3. c.object \in DOMAIN data /\ data[c.object].step = 4 /\ Answers(data[c.object])
    BY DEF AddInv
  <2>4. OneDialog'
    BY <2>1, <2>3 DEF AddInv, OneDialog, Answers
  <2> QED
    BY <2>1, <2>2, <2>4 DEF AddInv, DataTypes
<1>3. ASSUME NEW b \in Refreshers, RefreshBuild(b)
      PROVE  AddInv'
  <2>1. UNCHANGED <<asked, creating, remotes>>
        /\ (data' = data \/ data' = Append(data, NoData))
    BY <1>3 DEF RefreshBuild
  <2>2. CASE data' = data
    BY <1>1, <2>1, <2>2
  <2>3. CASE data' = Append(data, NoData)
    <3>1. data \in Seq(Record) /\ NoData \in Record /\ Answers(NoData)
      BY DEF AddInv, DataTypes, NoData, Record, Answers
    <3>2. /\ data' \in Seq(Record) /\ data' # <<>>
          /\ \A i \in DOMAIN data : i \in DOMAIN data' /\ data'[i] = data[i]
          /\ \A i \in DOMAIN data' : i \in DOMAIN data \/ data'[i] = NoData
      BY <2>3, <3>1
    <3>3. \A i \in DOMAIN data' : Answers(data'[i])
      BY <3>1, <3>2 DEF AddInv
    <3> QED
      BY <2>1, <3>2, <3>3 DEF AddInv, DataTypes, OneDialog
  <2> QED
    BY <2>1, <2>2, <2>3
<1>4. CASE ~Press /\ ~Create /\ ~(\E f \in 1..MaxDialogs : Submit(f))
           /\ ~(\E b \in Refreshers : RefreshBuild(b))
  <2>1. UNCHANGED <<data, asked, creating, remotes>>
    BY <1>4 DEF IrNext, SubmitUnknown, Leave, Hear, DeleteKey, Deleted, LearnBegin, LearnPoll,
                LearnStop, LearnRaises, LearnSave, RefreshFetch, irVars, dataVars
  <2> QED
    BY <1>1, <2>1
<1> QED
  BY <1>2, <1>3, <1>4, PressStep, SubmitStep

(* However often the button is pressed and built again, whichever dialogs  *)
(* are left and whichever creations fail: a remote is made of answers that *)
(* were all given in the dialog its data are registered for.               *)
THEOREM RemotesOfOneDialog == IrSpec => []OneDialog
<1>1. AddInv => OneDialog
  BY DEF AddInv
<1> QED
  BY <1>1, AddInvInit, AddStep, PTL DEF IrSpec
-----------------------------------------------------------------------------
(* The keys of a remote, for any learning threads, refreshes and sessions. *)

Learner == {Resting} \cup [pc : {"poll", "stop", "save"}, session : Nat, code : Nat]
Refresher == {Resting} \cup [pc : {"build"}, names : SUBSET Nat]
KeyNames == {k.name : k \in keys}

KeyTypes ==
    /\ sessions \in Nat
    /\ learner \in [Learners -> Learner]
    /\ refreshing \in [Refreshers -> Refresher]
    /\ keys \subseteq [name : Nat, code : Nat]

(* What a thread learned it heard in its own session.                      *)
OwnCode(l) ==
    /\ learner[l].pc \in {"poll", "stop"} => learner[l].code \in {0, learner[l].session}
    /\ learner[l].pc = "save" => learner[l].code = learner[l].session

(* The hub listens for some thread that will stop it.                      *)
Heard == learning => \E l \in Learners : learner[l].pc \in {"poll", "stop"}

(* A deletion is followed by a refresh, refreshes do not overlap, and with *)
(* no refresh due the last one saw the keys as they are.                   *)
Refreshed ==
    /\ deleting # {} => due
    /\ \A q, r \in Refreshers : refreshing[q] # Resting /\ refreshing[r] # Resting => q = r
    /\ ~due => /\ \A r \in Refreshers : refreshing[r] # Resting => refreshing[r].names = KeyNames
               /\ (\A r \in Refreshers : refreshing[r] = Resting) => shown = KeyNames

KeyInv ==
    /\ KeyTypes
    /\ \A l \in Learners : OwnCode(l)
    /\ \A k \in keys : k.code = k.name
    /\ irFailed \/ Heard
    /\ irFailed \/ irCrossed \/ Refreshed

LEMMA KeyInvInit == IrInit => KeyInv
<1> SUFFICES ASSUME IrInit PROVE KeyInv
  OBVIOUS
<1>1. /\ \A l \in Learners : learner[l] = Resting
      /\ \A r \in Refreshers : refreshing[r] = Resting
      /\ keys = {} /\ deleting = {} /\ shown = {} /\ learning = FALSE /\ sessions = 0
      /\ learner = [l \in Learners |-> Resting]
      /\ refreshing = [r \in Refreshers |-> Resting]
  BY DEF IrInit
<1>2. KeyTypes
  BY <1>1 DEF KeyTypes, Learner, Refresher
<1>3. Heard /\ Refreshed
  BY <1>1 DEF Heard, Refreshed, KeyNames
<1>4. \A l \in Learners : OwnCode(l)
  BY <1>1 DEF OwnCode, Resting
<1> QED
  BY <1>1, <1>2, <1>3, <1>4 DEF KeyInv

LEMMA KeysStay ==
    ASSUME KeyInv, UNCHANGED <<sessions, learner, keys, deleting, refreshing, due, shown, learning>>,
           irFailed => irFailed', irCrossed => irCrossed'
    PROVE  KeyInv'
<1>1. KeyTypes' /\ \A l \in Learners : OwnCode(l)'
  BY DEF KeyInv, KeyTypes, OwnCode
<1>2. (Heard => Heard') /\ (Refreshed => Refreshed')
  BY DEF Heard, Refreshed, KeyNames
<1> QED
  BY <1>1, <1>2 DEF KeyInv

(* One thread goes on; the hub is left listening only for a thread that    *)
(* will stop it, and the keys and what is shown of them stay.              *)
LEMMA LearnerGoesOn ==
    ASSUME KeyInv, NEW l \in Learners, NEW x \in Learner, learner' = [learner EXCEPT ![l] = x],
           x.pc \in {"poll", "stop"} => x.code \in {0, x.session}, x.pc = "save" => x.code = x.session,
           sessions' \in Nat, irFailed => irFailed',
           irFailed' \/ ~learning' \/ x.pc \in {"poll", "stop"}
             \/ (learning' = learning /\ learner[l].pc \notin {"poll", "stop"}),
           UNCHANGED <<keys, deleting, refreshing, due, shown, irCrossed>>
    PROVE  KeyInv'
<1>1. learner \in [Learners -> Learner] /\ keys \subseteq [name : Nat, code : Nat]
      /\ refreshing \in [Refreshers -> Refresher]
  BY DEF KeyInv, KeyTypes
<1>2. /\ learner' \in [Learners -> Learner] /\ learner'[l] = x
      /\ \A m \in Learners \ {l} : learner'[m] = learner[m]
  BY <1>1
<1>3. KeyTypes'
  BY <1>1, <1>2 DEF KeyTypes
<1>4. \A m \in Learners : OwnCode(m)'
  BY <1>2 DEF KeyInv, OwnCode
<1>5. irFailed' \/ Heard'
  <2>1. CASE irFailed' \/ ~learning'
    BY <2>1 DEF Heard
  <2>2. CASE x.pc \in {"poll", "stop"}
    BY <1>2, <2>2 DEF Heard
  <2>3. CASE learning' = learning /\ learner[l].pc \notin {"poll", "stop"} /\ ~irFailed'
    <3>1. Heard
      BY <2>3 DEF KeyInv
    <3>2. ASSUME learning PROVE \E m \in Learners : learner'[m].pc \in {"poll", "stop"}
      <4>1. PICK m \in Learners : learner[m].pc \in {"poll", "stop"}
        BY <3>1, <3>2 DEF Heard
      <4>2. m # l
        BY <2>3, <4>1
      <4> QED
        BY <1>2, <4>1, <4>2
    <3> QED
      BY <2>3, <3>2 DEF Heard
  <2> QED
    BY <2>1, <2>2, <2>3
<1>6. irFailed' \/ irCrossed' \/ Refreshed'
  BY DEF KeyInv, Refreshed, KeyNames
<1> QED
  BY <1>3, <1>4, <1>5, <1>6 DEF KeyInv

LEMMA LearnerTyped ==
    ASSUME KeyInv, NEW l \in Learners, learner[l].pc \in {"poll", "stop", "save"}
    PROVE  /\ learner[l] \in [pc : {"poll", "stop", "save"}, session : Nat, code : Nat]
           /\ OwnCode(l) /\ Resting \in Learner /\ Resting.pc = "rest"
  BY DEF KeyInv, KeyTypes, Learner, Resting

LEMMA LearnStep ==
    ASSUME KeyInv, NEW l \in Learners,
           LearnBegin(l) \/ LearnPoll(l) \/ LearnStop(l) \/ LearnRaises(l)
    PROVE  KeyInv'
<1>1. UNCHANGED <<keys, deleting, refreshing, due, shown, irCrossed>>
  BY DEF LearnBegin, LearnPoll, LearnStop, LearnRaises, keyVars, shownVars
<1>2. sessions \in Nat /\ Resting \in Learner /\ Resting.pc = "rest"
  BY DEF KeyInv, KeyTypes, Learner, Resting
<1>3. CASE LearnBegin(l)
  <2> DEFINE x == [pc |-> "poll", session |-> sessions', code |-> 0]
  <2>1. sessions' \in Nat /\ irFailed' = irFailed /\ learner' = [learner EXCEPT ![l] = x]
    BY <1>2, <1>3 DEF LearnBegin
  <2>2. x \in Learner /\ x.pc = "poll" /\ x.code = 0
    BY <2>1 DEF Learner
  <2> HIDE DEF x
  <2> QED
    BY <1>1, <2>1, <2>2, LearnerGoesOn
<1>4. CASE LearnPoll(l)
  <2>1. learner[l].pc = "poll" /\ UNCHANGED <<learning, sessions, irFailed>>
    BY <1>4 DEF LearnPoll
  <2> DEFINE x == [learner[l] EXCEPT !.pc = "stop", !.code = learner[l].session]
             y == [learner[l] EXCEPT !.pc = "stop"]
  <2>2. learner' = [learner EXCEPT ![l] = x] \/ learner' = [learner EXCEPT ![l] = y]
    BY <1>4 DEF LearnPoll, LearnerGoes
  <2>3. x \in Learner /\ x.pc = "stop" /\ x.code = x.session
    BY <2>1, LearnerTyped DEF Learner
  <2>4. y \in Learner /\ y.pc = "stop" /\ y.code \in {0, y.session}
    BY <2>1, LearnerTyped DEF Learner, OwnCode
  <2> HIDE DEF x, y
  <2> QED
    BY <1>1, <1>2, <2>1, <2>2, <2>3, <2>4, LearnerGoesOn
<1>5. CASE LearnStop(l)
  <2>1. learner[l].pc = "stop" /\ UNCHANGED <<sessions, irFailed>> /\ learning' = FALSE
    BY <1>5 DEF LearnStop, LeavesLearning
  <2>2. CASE learner[l].code = 0
    <3>1. learner' = [learner EXCEPT ![l] = Resting]
      BY <1>5, <2>2 DEF LearnStop
    <3> QED
      BY <1>1, <1>2, <2>1, <3>1, LearnerGoesOn
  <2>3. CASE learner[l].code # 0
    <3> DEFINE x == [learner[l] EXCEPT !.pc = "save"]
    <3>1. learner' = [learner EXCEPT ![l] = x]
      BY <1>5, <2>3 DEF LearnStop, LearnerGoes
    <3>2. x \in Learner /\ x.pc = "save" /\ x.code = x.session
      BY <2>1, <2>3, LearnerTyped DEF Learner, OwnCode
    <3> HIDE DEF x
    <3> QED
      BY <1>1, <1>2, <2>1, <3>1, <3>2, LearnerGoesOn
  <2> QED
    BY <2>2, <2>3
<1>6. CASE LearnRaises(l)
  <2>1. learner' = [learner EXCEPT ![l] = Resting] /\ UNCHANGED sessions /\ irFailed'
    BY <1>6 DEF LearnRaises
  <2> QED
    BY <1>1, <1>2, <2>1, LearnerGoesOn
<1> QED
  BY <1>3, <1>4, <1>5, <1>6

(* A saved key holds the code of its session, and asks for a refresh.      *)
LEMMA LearnSaveStep ==
    ASSUME KeyInv, NEW l \in Learners, LearnSave(l)
    PROVE  KeyInv'
<1> DEFINE key == [name |-> learner[l].session, code |-> learner[l].code]
<1>1. /\ learner[l].pc = "save" /\ learner' = [learner EXCEPT ![l] = Resting]
      /\ UNCHANGED <<learning, sessions, deleting, refreshing, shown, irCrossed>>
      /\ \/ keys' = keys \cup {key} /\ due' = TRUE /\ irFailed' = irFailed
         \/ irFailed' = TRUE /\ UNCHANGED <<keys, due>>
  BY DEF LearnSave
<1>2. key \in [name : Nat, code : Nat] /\ key.code = key.name
  BY <1>1, LearnerTyped DEF OwnCode
<1> HIDE DEF key
<1>3. /\ learner \in [Learners -> Learner] /\ keys \subseteq [name : Nat, code : Nat]
      /\ refreshing \in [Refreshers -> Refresher] /\ sessions \in Nat
      /\ Resting \in Learner /\ Resting.pc = "rest"
  BY DEF KeyInv, KeyTypes, Learner, Resting
<1>4. /\ learner' \in [Learners -> Learner] /\ learner'[l] = Resting
      /\ \A m \in Learners \ {l} : learner'[m] = learner[m]
  BY <1>1, <1>3
<1>5. KeyTypes' /\ \A k \in keys' : k.code = k.name
  BY <1>1, <1>2, <1>3, <1>4 DEF KeyInv, KeyTypes
<1>6. \A m \in Learners : OwnCode(m)'
  BY <1>3, <1>4 DEF KeyInv, OwnCode
<1>7. irFailed' \/ Heard'
  <2>1. ASSUME ~irFailed', learning' PROVE \E m \in Learners : learner'[m].pc \in {"poll", "stop"}
    <3>1. PICK m \in Learners : learner[m].pc \in {"poll", "stop"}
      BY <1>1, <2>1 DEF KeyInv, Heard
    <3>2. m # l
      BY <1>1, <3>1
    <3> QED
      BY <1>4, <3>1, <3>2
  <2> QED
    BY <2>1 DEF Heard
<1>8. irFailed' \/ irCrossed' \/ Refreshed'
  <2>1. ASSUME ~irFailed', ~irCrossed' PROVE Refreshed'
    <3>1. Refreshed /\ due' = TRUE
      BY <1>1, <2>1 DEF KeyInv
    <3> QED
      BY <1>1, <3>1 DEF Refreshed
  <2> QED
    BY <2>1
<1> QED
  BY <1>5, <1>6, <1>7, <1>8 DEF KeyInv

(* A deletion is queued with a refresh, and removes keys while that one is *)
(* still due, unless it was overtaken.                                     *)
LEMMA DeleteStep ==
    ASSUME KeyInv, DeleteKey \/ Deleted
    PROVE  KeyInv'
<1>1. /\ UNCHANGED <<sessions, learner, learning, refreshing, shown, irCrossed>>
      /\ keys' \subseteq keys /\ (irFailed => irFailed')
  BY DEF DeleteKey, Deleted, learnVars, shownVars
<1>2. KeyTypes' /\ \A l \in Learners : OwnCode(l)'
  BY <1>1 DEF KeyInv, KeyTypes, OwnCode
<1>3. irFailed' \/ Heard'
  BY <1>1 DEF KeyInv, Heard
<1>4. ASSUME ~irFailed', ~irCrossed' PROVE Refreshed'
  <2>1. Refreshed
    BY <1>1, <1>4 DEF KeyInv
  <2>2. due'
    BY <2>1 DEF DeleteKey, Deleted, Refreshed, shownVars
  <2> QED
    BY <1>1, <2>1, <2>2 DEF Refreshed
<1> QED
  BY <1>1, <1>2, <1>3, <1>4 DEF KeyInv

LEMMA RefreshStep ==
    ASSUME KeyInv, NEW r \in Refreshers, RefreshFetch(r) \/ RefreshBuild(r)
    PROVE  KeyInv'
<1>1. UNCHANGED <<sessions, learner, learning, keys, deleting>>
  BY DEF RefreshFetch, RefreshBuild, learnVars, keyVars
<1>2. /\ refreshing \in [Refreshers -> Refresher] /\ KeyNames \in SUBSET Nat
  BY DEF KeyInv, KeyTypes, KeyNames
<1>3. \A l \in Learners : OwnCode(l)'
  BY <1>1 DEF KeyInv, OwnCode
<1>4. KeyNames' = KeyNames
  BY <1>1 DEF KeyNames
<1>5. CASE RefreshFetch(r)
  <2> DEFINE x == [pc |-> "build", names |-> {k.name : k \in keys}]
  <2>1. /\ refreshing[r] = Resting /\ due /\ due' = FALSE /\ shown' = shown
        /\ \/ /\ refreshing' = [refreshing EXCEPT ![r] = x]
              /\ irCrossed' = (irCrossed \/ deleting # {} \/ \E q \in Refreshers : refreshing[q] # Resting)
              /\ irFailed' = irFailed
           \/ irFailed' = TRUE /\ UNCHANGED <<refreshing, irCrossed>>
    BY <1>5 DEF RefreshFetch
  <2>2. x \in Refresher /\ x.names = KeyNames /\ x # Resting
    <3>1. x.pc # Resting.pc
      BY DEF Resting
    <3> QED
      BY <1>2, <3>1 DEF Refresher, KeyNames
  <2> HIDE DEF x
  <2>3. KeyTypes'
    BY <1>1, <1>2, <2>1, <2>2 DEF KeyInv, KeyTypes
  <2>4. irFailed' \/ Heard'
    BY <1>1, <2>1 DEF KeyInv, Heard
  <2>5. ASSUME ~irFailed', ~irCrossed' PROVE Refreshed'
    <3>1. /\ refreshing' = [refreshing EXCEPT ![r] = x] /\ deleting = {}
          /\ \A q \in Refreshers : refreshing[q] = Resting
      BY <2>1, <2>5
    <3>2. refreshing'[r] = x /\ \A q \in Refreshers \ {r} : refreshing'[q] = Resting
      BY <1>2, <3>1
    <3> QED
      BY <1>1, <1>4, <2>1, <2>2, <3>1, <3>2 DEF Refreshed
  <2> QED
    BY <1>1, <1>3, <2>3, <2>4, <2>5 DEF KeyInv
<1>6. CASE RefreshBuild(r)
  <2>1. /\ refreshing[r].pc = "build" /\ shown' = refreshing[r].names
        /\ refreshing' = [refreshing EXCEPT ![r] = Resting]
        /\ UNCHANGED <<due, irFailed, irCrossed>>
    BY <1>6 DEF RefreshBuild
  <2>2. /\ refreshing' \in [Refreshers -> Refresher] /\ refreshing'[r] = Resting
        /\ \A q \in Refreshers \ {r} : refreshing'[q] = refreshing[q]
        /\ refreshing[r] # Resting
    BY <1>2, <2>1 DEF Refresher, Resting
  <2>3. KeyTypes'
    BY <1>1, <2>2 DEF KeyInv, KeyTypes
  <2>4. irFailed' \/ Heard'
    BY <1>1, <2>1 DEF KeyInv, Heard
  <2>5. ASSUME ~irFailed', ~irCrossed' PROVE Refreshed'
    <3>1. Refreshed
      BY <2>1, <2>5 DEF KeyInv
    <3>2. \A q \in Refreshers : refreshing'[q] = Resting
      BY <2>2, <3>1 DEF Refreshed
    <3>3. ~due => shown' = KeyNames
      BY <2>1, <2>2, <3>1 DEF Refreshed
    <3> QED
      BY <1>1, <1>4, <2>1, <3>1, <3>2, <3>3 DEF Refreshed
  <2> QED
    BY <1>1, <1>3, <2>3, <2>4, <2>5 DEF KeyInv
<1> QED
  BY <1>5, <1>6

LEMMA KeyStep == KeyInv /\ [IrNext]_irVars => KeyInv'
<1> SUFFICES ASSUME KeyInv, [IrNext]_irVars PROVE KeyInv'
  OBVIOUS
<1>1. CASE Create
  <2>1. /\ UNCHANGED <<sessions, learner, learning, keys, deleting, refreshing, shown, irCrossed>>
        /\ \/ due' = TRUE /\ irFailed' = irFailed
           \/ irFailed' = TRUE /\ due' = due
    BY <1>1 DEF Create, learnVars, keyVars
  <2>2. KeyTypes' /\ \A l \in Learners : OwnCode(l)'
    BY <2>1 DEF KeyInv, KeyTypes, OwnCode
  <2>3. irFailed' \/ Heard'
    BY <2>1 DEF KeyInv, Heard
  <2>4. ASSUME ~irFailed', ~irCrossed' PROVE Refreshed'
    <3>1. Refreshed /\ due'
      BY <2>1, <2>4 DEF KeyInv
    <3> QED
      BY <2>1, <3>1 DEF Refreshed
  <2> QED
    BY <2>1, <2>2, <2>3, <2>4 DEF KeyInv
<1>2. CASE ~Create /\ ~DeleteKey /\ ~Deleted
           /\ ~(\E l \in Learners : LearnBegin(l) \/ LearnPoll(l) \/ LearnStop(l) \/ LearnRaises(l)
                                      \/ LearnSave(l))
           /\ ~(\E r \in Refreshers : RefreshFetch(r) \/ RefreshBuild(r))
  <2>1. /\ UNCHANGED <<sessions, learner, keys, deleting, refreshing, due, shown, learning>>
        /\ UNCHANGED <<irFailed, irCrossed>>
    BY <1>2 DEF IrNext, Press, SubmitUnknown, Submit, Leave, Hear, irVars, learnVars, keyVars,
                shownVars
  <2> QED
    BY <2>1, KeysStay
<1> QED
  BY <1>1, <1>2, DeleteStep, LearnStep, LearnSaveStep, RefreshStep

(* However learnings overlap: a key holds the code heard in its session;   *)
(* at rest the hub is out of its learning state and each key has its       *)
(* button, unless a request failed or a refresh overtook a deletion.       *)
THEOREM KeysStayTrue == IrSpec => []KeysTrue
<1>1. KeyInv => KeysTrue
  <2> SUFFICES ASSUME KeyInv PROVE KeysTrue
    OBVIOUS
  <2>1. ASSUME ~irFailed, \A l \in Learners : learner[l] = Resting PROVE ~learning
    BY <2>1 DEF KeyInv, Heard, Resting
  <2>2. ASSUME ~irFailed, ~irCrossed, ~due, \A r \in Refreshers : refreshing[r] = Resting
        PROVE  shown = {k.name : k \in keys}
    BY <2>2 DEF KeyInv, Refreshed, KeyNames
  <2> QED
    BY <2>1, <2>2 DEF KeyInv, KeysTrue
<1> QED
  BY <1>1, KeyInvInit, KeyStep, PTL DEF IrSpec
-----------------------------------------------------------------------------
(* The candidates of a browser, for any browsers and candidates.           *)

Candidates == Ice \cup {End}
Wires == Candidates \cup {Offer, Disconnect}
Exchange == [filed : BOOLEAN, callback : BOOLEAN, config : BOOLEAN, sent : BOOLEAN,
             queue : Seq(Candidates), answer : BOOLEAN, ice : Seq(CameraIce \cup {End})]
RtcStages == {"idle", "config", "publish", "published", "queue", "service", "served", "open"}

RtcTypes ==
    /\ exchange \in [Browsers -> Exchange] /\ stage \in [Browsers -> RtcStages]
    /\ own \in [Browsers -> Seq(Ice)] /\ told \in [Browsers -> Seq(Candidates)]
    /\ wire \in [Browsers -> Seq(Wires)] /\ failing \in [Browsers -> BOOLEAN]

(* Each candidate in t is in the queue q or was published in w, once.      *)
Once(w, q, t) ==
    /\ \A i, j \in Trickled(w) : w[i] = w[j] => i = j
    /\ \A i, j \in DOMAIN q : q[i] = q[j] => i = j
    /\ \A i \in Trickled(w) : w[i] \notin ToSet(q)
    /\ {w[i] : i \in Trickled(w)} \cup ToSet(q) = ToSet(t)

(* The session lives, its offer has no candidates and nothing failed.      *)
Untroubled(s) == exchange[s].callback /\ own[s] = <<>> /\ ~failing[s]

(* An offer was published before any candidate.                            *)
Led(w) == \E j \in DOMAIN w : w[j] = Offer /\ \A i \in Trickled(w) : j < i

(* How far the offer is.                                                   *)
Progress(s) ==
    /\ stage[s] \in {"config", "publish"} => Trickled(wire[s]) = {}
    /\ stage[s] \notin {"config", "publish"} => Led(wire[s])
    /\ exchange[s].sent => stage[s] \in {"queue", "open"}
    /\ stage[s] \in {"queue", "open"} => exchange[s].sent
    /\ stage[s] = "open" => exchange[s].queue = <<>>

RtcOf(s) ==
    /\ stage[s] = "idle" => exchange[s] = Expired /\ told[s] = <<>> /\ wire[s] = <<>>
    /\ stage[s] \in {"service", "served"} => ~exchange[s].callback
    /\ exchange[s].callback => exchange[s].filed
    /\ Untroubled(s) => Progress(s) /\ Once(wire[s], exchange[s].queue, told[s])

RtcInv == RtcTypes /\ \A s \in Browsers : RtcOf(s)

LEMMA RtcInvInit == RtcInit => RtcInv
<1> SUFFICES ASSUME RtcInit PROVE RtcInv
  OBVIOUS
<1>1. Expired \in Exchange /\ Expired.callback = FALSE
  BY DEF Expired, Exchange
<1>2. RtcTypes
  BY <1>1 DEF RtcInit, RtcTypes, RtcStages
<1>3. \A s \in Browsers : RtcOf(s)
  BY <1>1 DEF RtcInit, RtcOf, Untroubled
<1> QED
  BY <1>2, <1>3 DEF RtcInv

(* What a sequence grows to.                                               *)
LEMMA OneMore ==
    ASSUME NEW S, NEW w \in Seq(S), NEW e \in S
    PROVE  /\ w \o <<e>> \in Seq(S) /\ Append(w, e) \in Seq(S) /\ w \o <<e>> = Append(w, e)
           /\ DOMAIN w = 1..Len(w) /\ Len(w) \in Nat
           /\ DOMAIN Append(w, e) = 1..(Len(w) + 1)
           /\ \A i \in 1..Len(w) : Append(w, e)[i] = w[i]
           /\ Append(w, e)[Len(w) + 1] = e
           /\ w # <<>> => Append(w, e) # <<>> /\ Head(Append(w, e)) = Head(w)
           /\ ToSet(Append(w, e)) = ToSet(w) \cup {e}
<1>1. /\ Append(w, e) \in Seq(S) /\ Len(w) \in Nat /\ DOMAIN w = 1..Len(w)
      /\ Len(Append(w, e)) = Len(w) + 1 /\ DOMAIN Append(w, e) = 1..(Len(w) + 1)
      /\ \A i \in 1..Len(w) : Append(w, e)[i] = w[i]
      /\ Append(w, e)[Len(w) + 1] = e
  OBVIOUS
<1>2. w # <<>> => Append(w, e) # <<>> /\ Head(Append(w, e)) = Head(w)
  BY <1>1
<1>3. w \o <<e>> = Append(w, e)
  OBVIOUS
<1>4. ToSet(Append(w, e)) = ToSet(w) \cup {e}
  <2>1. ASSUME NEW x \in ToSet(Append(w, e)) PROVE x \in ToSet(w) \cup {e}
    <3>1. PICK i \in 1..(Len(w) + 1) : x = Append(w, e)[i]
      BY <1>1 DEF ToSet
    <3>2. i \in 1..Len(w) \/ i = Len(w) + 1
      BY <1>1
    <3> QED
      BY <1>1, <3>1, <3>2 DEF ToSet
  <2>2. ASSUME NEW x \in ToSet(w) \cup {e} PROVE x \in ToSet(Append(w, e))
    <3>1. CASE x = e
      BY <1>1, <3>1 DEF ToSet
    <3>2. CASE x \in ToSet(w)
      <4>1. PICK i \in 1..Len(w) : x = w[i]
        BY <1>1, <3>2 DEF ToSet
      <4>2. i \in 1..(Len(w) + 1) /\ x = Append(w, e)[i]
        BY <1>1, <4>1
      <4> QED
        BY <1>1, <4>2 DEF ToSet
    <3> QED
      BY <3>1, <3>2
  <2> QED
    BY <2>1, <2>2
<1> QED
  BY <1>1, <1>2, <1>3, <1>4

(* A message without a candidate is published.                             *)
LEMMA WireOther ==
    ASSUME NEW w \in Seq(Wires), NEW e \in {Offer, Disconnect}
    PROVE  /\ Trickled(Append(w, e)) = Trickled(w)
           /\ \A i \in Trickled(w) : Append(w, e)[i] = w[i]
<1>1. /\ DOMAIN w = 1..Len(w) /\ Len(w) \in Nat /\ DOMAIN Append(w, e) = 1..(Len(w) + 1)
      /\ \A i \in 1..Len(w) : Append(w, e)[i] = w[i]
      /\ Append(w, e)[Len(w) + 1] = e
  BY OneMore DEF Wires
<1>2. \A i \in 1..(Len(w) + 1) : i \in 1..Len(w) \/ i = Len(w) + 1
  BY <1>1
<1>3. 1..Len(w) \subseteq 1..(Len(w) + 1)
  BY <1>1
<1> QED
  BY <1>1, <1>2, <1>3 DEF Trickled

(* A candidate is published.                                               *)
LEMMA WireCandidate ==
    ASSUME NEW w \in Seq(Wires), NEW e \in Candidates
    PROVE  /\ Trickled(Append(w, e)) = Trickled(w) \cup {Len(w) + 1}
           /\ Len(w) + 1 \notin Trickled(w) /\ Append(w, e)[Len(w) + 1] = e
           /\ \A i \in Trickled(w) : Append(w, e)[i] = w[i]
<1>1. e \in Wires /\ e \notin {Offer, Disconnect}
  BY RtcAssumption DEF Wires, Candidates, End, Offer, Disconnect
<1>2. /\ DOMAIN w = 1..Len(w) /\ Len(w) \in Nat /\ DOMAIN Append(w, e) = 1..(Len(w) + 1)
      /\ \A i \in 1..Len(w) : Append(w, e)[i] = w[i]
      /\ Append(w, e)[Len(w) + 1] = e
  BY <1>1, OneMore
<1>3. \A i \in 1..(Len(w) + 1) : i \in 1..Len(w) \/ i = Len(w) + 1
  BY <1>2
<1>4. 1..Len(w) \subseteq 1..(Len(w) + 1) /\ Len(w) + 1 \notin 1..Len(w)
      /\ Len(w) + 1 \in 1..(Len(w) + 1)
  BY <1>2
<1> QED
  BY <1>1, <1>2, <1>3, <1>4 DEF Trickled

(* A new candidate is queued, or published at once; a queued one is        *)
(* published; something else is.                                           *)
LEMMA OnceQueued ==
    ASSUME NEW w \in Seq(Wires), NEW q \in Seq(Candidates), NEW t \in Seq(Candidates),
           NEW c \in Candidates, c \notin ToSet(t), Once(w, q, t)
    PROVE  Once(w, Append(q, c), Append(t, c))
<1>1. /\ DOMAIN q = 1..Len(q) /\ Len(q) \in Nat /\ DOMAIN Append(q, c) = 1..(Len(q) + 1)
      /\ \A i \in 1..Len(q) : Append(q, c)[i] = q[i]
      /\ Append(q, c)[Len(q) + 1] = c
      /\ ToSet(Append(q, c)) = ToSet(q) \cup {c} /\ ToSet(Append(t, c)) = ToSet(t) \cup {c}
  BY OneMore
<1>2. c \notin ToSet(q) /\ \A i \in Trickled(w) : w[i] # c
  BY DEF Once
<1>3. \A i \in 1..Len(q) : q[i] # c
  BY <1>1, <1>2 DEF ToSet
<1>4. \A i \in 1..(Len(q) + 1) : i \in 1..Len(q) \/ i = Len(q) + 1
  BY <1>1
<1>5. \A i, j \in DOMAIN Append(q, c) : Append(q, c)[i] = Append(q, c)[j] => i = j
  BY <1>1, <1>3, <1>4 DEF Once
<1> QED
  BY <1>1, <1>2, <1>5 DEF Once

LEMMA OncePublished ==
    ASSUME NEW w \in Seq(Wires), NEW q \in Seq(Candidates), NEW t \in Seq(Candidates),
           NEW c \in Candidates, c \notin ToSet(t), Once(w, q, t)
    PROVE  Once(Append(w, c), q, Append(t, c))
<1> DEFINE v == Append(w, c)
           n == Len(w) + 1
<1>1. /\ Trickled(v) = Trickled(w) \cup {n} /\ n \notin Trickled(w) /\ v[n] = c
      /\ \A i \in Trickled(w) : v[i] = w[i]
  BY WireCandidate
<1>2. ToSet(Append(t, c)) = ToSet(t) \cup {c}
  BY OneMore
<1>3. c \notin ToSet(q) /\ \A i \in Trickled(w) : w[i] # c
  BY DEF Once
<1> HIDE DEF v, n
<1>4. \A i, j \in Trickled(v) : v[i] = v[j] => i = j
  BY <1>1, <1>3 DEF Once
<1>5. \A i \in Trickled(v) : v[i] \notin ToSet(q)
  BY <1>1, <1>3 DEF Once
<1>6. {v[i] : i \in Trickled(v)} = {w[i] : i \in Trickled(w)} \cup {c}
  BY <1>1
<1>7. {v[i] : i \in Trickled(v)} \cup ToSet(q) = ToSet(Append(t, c))
  BY <1>2, <1>6 DEF Once
<1>8. \A i, j \in DOMAIN q : q[i] = q[j] => i = j
  BY DEF Once
<1>9. Once(v, q, Append(t, c))
  BY <1>4, <1>5, <1>7, <1>8 DEF Once
<1> QED
  BY <1>9 DEF v

LEMMA OnceMoved ==
    ASSUME NEW w \in Seq(Wires), NEW q \in Seq(Candidates), NEW t, q # <<>>, Once(w, q, t)
    PROVE  Head(q) \in Candidates /\ Once(Append(w, Head(q)), Tail(q), t)
<1> DEFINE v == Append(w, Head(q))
           n == Len(w) + 1
           r == Tail(q)
           c == Head(q)
<1>1. /\ c \in Candidates /\ DOMAIN q = 1..Len(q) /\ Len(q) \in Nat /\ 1 \in DOMAIN q /\ q[1] = c
      /\ DOMAIN r = 1..(Len(q) - 1) /\ \A i \in DOMAIN r : r[i] = q[i + 1] /\ i + 1 \in DOMAIN q
      /\ \A i \in DOMAIN r : i \in Nat /\ i # 0
  OBVIOUS
<1>2. /\ Trickled(v) = Trickled(w) \cup {n} /\ n \notin Trickled(w) /\ v[n] = c
      /\ \A i \in Trickled(w) : v[i] = w[i]
  BY <1>1, WireCandidate
<1>3. ToSet(q) = ToSet(r) \cup {c}
  <2>1. ASSUME NEW x \in ToSet(q) PROVE x \in ToSet(r) \cup {c}
    <3>1. PICK i \in DOMAIN q : x = q[i]
      BY DEF ToSet
    <3>2. CASE i = 1
      BY <1>1, <3>1, <3>2
    <3>3. CASE i # 1
      <4>1. i - 1 \in DOMAIN r /\ (i - 1) + 1 = i
        BY <1>1, <3>3
      <4>2. r[i - 1] = x
        BY <1>1, <3>1, <4>1
      <4> QED
        BY <4>1, <4>2 DEF ToSet
    <3> QED
      BY <3>2, <3>3
  <2>2. ASSUME NEW x \in ToSet(r) \cup {c} PROVE x \in ToSet(q)
    BY <1>1, <2>2 DEF ToSet
  <2> QED
    BY <2>1, <2>2
<1>4. c \notin ToSet(r)
  <2>1. \A i \in DOMAIN r : i + 1 # 1
    BY <1>1
  <2>2. \A i \in DOMAIN r : r[i] # c
    BY <1>1, <2>1 DEF Once
  <2> QED
    BY <2>2 DEF ToSet
<1>5. \A i, j \in DOMAIN r : r[i] = r[j] => i = j
  <2> SUFFICES ASSUME NEW i \in DOMAIN r, NEW j \in DOMAIN r, r[i] = r[j] PROVE i = j
    OBVIOUS
  <2>1. i + 1 = j + 1
    BY <1>1 DEF Once
  <2> QED
    BY <1>1, <2>1
<1> HIDE DEF v, n, r, c
<1>6. \A i \in Trickled(w) : w[i] \notin ToSet(q)
  BY DEF Once
<1>7. \A i \in Trickled(w) : w[i] # c /\ w[i] \notin ToSet(r)
  BY <1>3, <1>6
<1>8. \A i, j \in Trickled(v) : v[i] = v[j] => i = j
  BY <1>2, <1>7 DEF Once
<1>9. \A i \in Trickled(v) : v[i] \notin ToSet(r)
  BY <1>2, <1>4, <1>7
<1>10. {v[i] : i \in Trickled(v)} = {w[i] : i \in Trickled(w)} \cup {c}
  BY <1>2
<1>11. {v[i] : i \in Trickled(v)} \cup ToSet(r) = ToSet(t)
  BY <1>3, <1>10 DEF Once
<1>12. Once(v, r, t)
  BY <1>5, <1>8, <1>9, <1>11 DEF Once
<1> QED
  BY <1>1, <1>12 DEF v, r, c

LEMMA OnceOther ==
    ASSUME NEW w \in Seq(Wires), NEW q, NEW t, NEW e \in {Offer, Disconnect}, Once(w, q, t)
    PROVE  Once(Append(w, e), q, t)
<1> DEFINE v == Append(w, e)
<1>1. Trickled(v) = Trickled(w) /\ \A i \in Trickled(w) : v[i] = w[i]
  BY WireOther
<1> HIDE DEF v
<1>2. {v[i] : i \in Trickled(v)} = {w[i] : i \in Trickled(w)}
  BY <1>1
<1>3. Once(v, q, t)
  BY <1>1, <1>2 DEF Once
<1> QED
  BY <1>3 DEF v

(* Publishing goes on after an offer, and an offer before any candidate    *)
(* leads.                                                                  *)
LEMMA LedOn ==
    ASSUME NEW w \in Seq(Wires), NEW e \in Wires
    PROVE  /\ Led(w) => Led(Append(w, e))
           /\ Trickled(w) = {} /\ e = Offer => Led(Append(w, e))
           /\ Trickled(w) = {} /\ e \in {Offer, Disconnect} => Trickled(Append(w, e)) = {}
<1> DEFINE v == Append(w, e)
<1>1. /\ Len(w) \in Nat /\ DOMAIN w = 1..Len(w) /\ DOMAIN v = 1..(Len(w) + 1)
      /\ \A i \in 1..Len(w) : v[i] = w[i]
      /\ v[Len(w) + 1] = e
  BY OneMore
<1> HIDE DEF v
<1>2. Trickled(v) \subseteq Trickled(w) \cup {Len(w) + 1}
  BY <1>1 DEF Trickled
<1>3. ASSUME Led(w) PROVE Led(v)
  <2>1. PICK j \in DOMAIN w : w[j] = Offer /\ \A i \in Trickled(w) : j < i
    BY <1>3 DEF Led
  <2>2. j \in DOMAIN v /\ v[j] = Offer /\ j < Len(w) + 1
    BY <1>1, <2>1
  <2> QED
    BY <1>2, <2>1, <2>2 DEF Led
<1>4. ASSUME Trickled(w) = {}, e \in {Offer, Disconnect} PROVE Trickled(v) = {}
  BY <1>1, <1>2, <1>4 DEF Trickled
<1>5. ASSUME Trickled(w) = {}, e = Offer PROVE Led(v)
  BY <1>1, <1>4, <1>5 DEF Led
<1> QED
  BY <1>3, <1>4, <1>5 DEF v

(* The sessions other than s are left alone.                               *)
Only(s) ==
    \A r \in Browsers \ {s} :
        /\ exchange'[r] = exchange[r] /\ stage'[r] = stage[r] /\ own'[r] = own[r]
        /\ told'[r] = told[r] /\ wire'[r] = wire[r] /\ failing'[r] = failing[r]

LEMMA OneSessionMoves ==
    ASSUME RtcInv, NEW s \in Browsers, RtcTypes', Only(s), RtcOf(s)'
    PROVE  RtcInv'
<1>1. ASSUME NEW r \in Browsers \ {s} PROVE RtcOf(r)'
  BY <1>1 DEF Only, RtcInv, RtcOf, Untroubled, Progress
<1> QED
  BY <1>1 DEF RtcInv

(* What the steps make of a session's record.                              *)
LEMMA NewSession ==
    /\ Session \in Exchange /\ Session.filed /\ Session.queue = <<>>
    /\ ~Session.callback /\ ~Session.sent /\ ~Session.answer
    /\ Expired \in Exchange /\ ~Expired.callback /\ ~Expired.filed
<1>1. /\ Expired \in Exchange /\ ~Expired.callback /\ ~Expired.filed /\ ~Expired.sent
      /\ Expired.queue = <<>> /\ ~Expired.answer
  BY DEF Exchange, Expired
<1>2. ASSUME NEW y \in Exchange
      PROVE  LET z == [y EXCEPT !.filed = TRUE]
             IN  /\ z \in Exchange /\ z.filed /\ z.queue = y.queue /\ z.callback = y.callback
                 /\ z.sent = y.sent /\ z.answer = y.answer
  BY <1>2 DEF Exchange
<1> QED
  BY <1>1, <1>2 DEF Session

LEMMA OpenSession ==
    ASSUME NEW x \in Exchange
    PROVE  /\ Open(x) \in Exchange /\ (x.filed => Open(x) = x)
           /\ ~x.filed => Open(x) = Session /\ ~Open(x).callback
  BY NewSession DEF Open

LEMMA FiledSession ==
    ASSUME NEW x \in Exchange, NEW ok \in BOOLEAN
    PROVE  LET y == Filed(x, ok)
           IN  /\ y \in Exchange /\ y.queue = x.queue /\ y.filed = x.filed
               /\ y.callback = x.callback /\ y.sent = x.sent /\ y.queue \in Seq(Candidates)
<1>1. (x.config \/ ok) \in BOOLEAN
  OBVIOUS
<1> DEFINE b == x.config \/ ok
<1>2. Filed(x, ok) = [x EXCEPT !.config = b]
  BY DEF Filed
<1> HIDE DEF b
<1>3. b \in BOOLEAN
  BY <1>1 DEF b
<1> QED
  BY <1>2, <1>3 DEF Exchange

LEMMA RtcBegins ==
    ASSUME RtcInv, NEW s \in Browsers, BeginOffer(s)
    PROVE  RtcInv'
<1> USE DEF RtcInv
<1> DEFINE x == [Open(exchange[s]) EXCEPT !.callback = TRUE]
<1>1. /\ exchange[s] = Expired /\ told[s] = <<>> /\ wire[s] = <<>>
      /\ exchange[s] \in Exchange
  BY DEF BeginOffer, RtcOf, RtcTypes
<1>2. Open(exchange[s]) = Session
  BY <1>1, NewSession DEF Open
<1>3. Session \in Exchange /\ Session.filed /\ Session.queue = <<>> /\ ~Session.sent
  BY NewSession
<1>4. x \in Exchange /\ x.filed /\ x.callback /\ x.queue = <<>> /\ ~x.sent
  BY <1>2, <1>3 DEF Exchange
<1> HIDE DEF x
<1>5. exchange' = [exchange EXCEPT ![s] = x] /\ stage' = [stage EXCEPT ![s] = "config"]
      /\ UNCHANGED <<told, wire, failing>>
  BY DEF BeginOffer, x
<1>6. PICK c \in {<<>>} \cup {<<i>> : i \in Ice} : own' = [own EXCEPT ![s] = c]
  BY DEF BeginOffer
<1>7. c \in Seq(Ice)
  <2>1. CASE c = <<>>
    BY <2>1
  <2>2. CASE c \in {<<i>> : i \in Ice}
    <3>1. PICK i \in Ice : c = <<i>>
      BY <2>2
    <3> QED
      BY <3>1
  <2> QED
    BY <2>1, <2>2
<1>8. RtcTypes'
  BY <1>4, <1>5, <1>6, <1>7 DEF RtcTypes, RtcStages
<1>9. Only(s)
  BY <1>5, <1>6 DEF Only, RtcTypes
<1>10. /\ exchange'[s] = x /\ stage'[s] = "config" /\ told'[s] = <<>> /\ wire'[s] = <<>>
  BY <1>1, <1>5 DEF RtcTypes
<1>11. Trickled(<<>>) = {} /\ ToSet(<<>>) = {}
  BY DEF Trickled, ToSet
<1>12. Once(<<>>, <<>>, <<>>)
  BY <1>11 DEF Once
<1>13. RtcOf(s)'
  BY <1>4, <1>10, <1>11, <1>12 DEF RtcOf, Progress
<1> QED
  BY <1>8, <1>9, <1>13, OneSessionMoves

LEMMA RtcReads ==
    ASSUME RtcInv, NEW s \in Browsers, ReadOffer(s)
    PROVE  RtcInv'
<1> USE DEF RtcInv
<1>1. PICK ok \in BOOLEAN :
        /\ LET session == Filed(exchange[s], ok) IN
           exchange' = [exchange EXCEPT ![s] =
             [session EXCEPT !.queue = QueueFromOffer(own[s], session.queue)]]
        /\ Worked(s, ok)
  BY DEF ReadOffer
<1> DEFINE y == Filed(exchange[s], ok)
           q == QueueFromOffer(own[s], y.queue)
           x == [y EXCEPT !.queue = q]
<1>2. exchange[s] \in Exchange /\ own[s] \in Seq(Ice) /\ stage[s] = "config"
  BY DEF RtcTypes, ReadOffer
<1>3. /\ y \in Exchange /\ y.queue = exchange[s].queue /\ y.queue \in Seq(Candidates)
      /\ y.filed = exchange[s].filed /\ y.callback = exchange[s].callback
      /\ y.sent = exchange[s].sent
  BY <1>2, FiledSession
<1>4. own[s] \in Seq(Candidates)
  BY <1>2 DEF Candidates
<1>5. q \in Seq(Candidates) /\ (own[s] = <<>> => q = exchange[s].queue)
  BY <1>3, <1>4 DEF QueueFromOffer
<1>6. /\ x \in Exchange /\ x.queue = q /\ x.filed = exchange[s].filed
      /\ x.callback = exchange[s].callback /\ x.sent = exchange[s].sent
  <2> HIDE DEF y, q
  <2> QED
    BY <1>3, <1>5 DEF Exchange
<1>7. exchange' = [exchange EXCEPT ![s] = x]
  BY <1>1
<1> HIDE DEF x, y, q
<1>8. stage' = [stage EXCEPT ![s] = "publish"] /\ UNCHANGED <<own, told, wire>>
  BY DEF ReadOffer
<1>9. failing' = [failing EXCEPT ![s] = failing[s] \/ ~ok]
  BY <1>1 DEF Worked
<1>10. RtcTypes'
  BY <1>6, <1>7, <1>8, <1>9 DEF RtcTypes, RtcStages
<1>11. Only(s)
  BY <1>7, <1>8, <1>9 DEF Only, RtcTypes
<1>12. /\ exchange'[s] = x /\ stage'[s] = "publish" /\ told'[s] = told[s] /\ wire'[s] = wire[s]
       /\ own'[s] = own[s] /\ (~failing'[s] => ~failing[s])
  BY <1>7, <1>8, <1>9 DEF RtcTypes
<1>13. RtcOf(s)
  OBVIOUS
<1>14. RtcOf(s)'
  BY <1>2, <1>5, <1>6, <1>12, <1>13 DEF RtcOf, Progress, Untroubled
<1> QED
  BY <1>10, <1>11, <1>14, OneSessionMoves

LEMMA RtcPublishes ==
    ASSUME RtcInv, NEW s \in Browsers, PublishOffer(s)
    PROVE  RtcInv'
<1> USE DEF RtcInv
<1>1. PICK ok \in BOOLEAN : /\ Publish(s, ok, <<Offer>>)
                            /\ Worked(s, ok)
                            /\ exchange' = [exchange EXCEPT ![s] = Filed(@, ok)]
  BY DEF PublishOffer
<1> DEFINE x == Filed(exchange[s], ok)
           w == IF ok THEN wire[s] \o <<Offer>> ELSE wire[s]
<1>2. exchange[s] \in Exchange /\ wire[s] \in Seq(Wires) /\ stage[s] = "publish"
      /\ Offer \in Wires
  BY DEF RtcTypes, PublishOffer, Wires
<1>3. /\ x \in Exchange /\ x.queue = exchange[s].queue /\ x.filed = exchange[s].filed
      /\ x.callback = exchange[s].callback /\ x.sent = exchange[s].sent
  BY <1>2, FiledSession
<1>4. w \in Seq(Wires)
  BY <1>2, OneMore
<1>5. ok => w = Append(wire[s], Offer)
  BY <1>2, OneMore
<1>15. ok /\ Trickled(wire[s]) = {} => Led(w)
  BY <1>2, <1>5, LedOn
<1>6. \A q, t : (ok /\ Once(wire[s], q, t)) => Once(w, q, t)
  BY <1>2, <1>5, OnceOther
<1>7. exchange' = [exchange EXCEPT ![s] = x] /\ wire' = [wire EXCEPT ![s] = w]
  BY <1>1 DEF Publish
<1> HIDE DEF x, w
<1>8. stage' = [stage EXCEPT ![s] = "published"] /\ UNCHANGED <<own, told>>
  BY DEF PublishOffer
<1>9. failing' = [failing EXCEPT ![s] = failing[s] \/ ~ok]
  BY <1>1 DEF Worked
<1>10. RtcTypes'
  BY <1>3, <1>4, <1>7, <1>8, <1>9 DEF RtcTypes, RtcStages
<1>11. Only(s)
  BY <1>7, <1>8, <1>9 DEF Only, RtcTypes
<1>12. /\ exchange'[s] = x /\ stage'[s] = "published" /\ told'[s] = told[s] /\ wire'[s] = w
       /\ own'[s] = own[s] /\ (~failing'[s] => ~failing[s] /\ ok)
  BY <1>7, <1>8, <1>9 DEF RtcTypes
<1>13. RtcOf(s)
  OBVIOUS
<1>14. RtcOf(s)'
  BY <1>2, <1>3, <1>6, <1>12, <1>13, <1>15 DEF RtcOf, Progress, Untroubled
<1> QED
  BY <1>10, <1>11, <1>14, OneSessionMoves

LEMMA RtcSent ==
    ASSUME RtcInv, NEW s \in Browsers, OfferIsSent(s)
    PROVE  RtcInv'
<1> USE DEF RtcInv
<1> DEFINE x == [exchange[s] EXCEPT !.sent = TRUE]
<1>1. exchange[s] \in Exchange /\ stage[s] = "published"
  BY DEF RtcTypes, OfferIsSent
<1>2. /\ x \in Exchange /\ x.queue = exchange[s].queue /\ x.filed = exchange[s].filed
      /\ x.callback = exchange[s].callback /\ x.sent
  BY <1>1 DEF Exchange
<1>3. exchange' = [exchange EXCEPT ![s] = x]
  BY DEF OfferIsSent
<1> HIDE DEF x
<1>4. stage' = [stage EXCEPT ![s] = "queue"] /\ UNCHANGED <<own, told, wire, failing>>
  BY DEF OfferIsSent
<1>5. RtcTypes'
  BY <1>2, <1>3, <1>4 DEF RtcTypes, RtcStages
<1>6. Only(s)
  BY <1>3, <1>4 DEF Only, RtcTypes
<1>7. /\ exchange'[s] = x /\ stage'[s] = "queue" /\ told'[s] = told[s] /\ wire'[s] = wire[s]
      /\ own'[s] = own[s] /\ failing'[s] = failing[s]
  BY <1>3, <1>4 DEF RtcTypes
<1>8. RtcOf(s)
  OBVIOUS
<1>9. RtcOf(s)'
  BY <1>1, <1>2, <1>7, <1>8 DEF RtcOf, Progress, Untroubled
<1> QED
  BY <1>5, <1>6, <1>9, OneSessionMoves

LEMMA RtcSends ==
    ASSUME RtcInv, NEW s \in Browsers, SendQueued(s)
    PROVE  RtcInv'
<1> USE DEF RtcInv
<1>1. /\ exchange[s] \in Exchange /\ wire[s] \in Seq(Wires) /\ stage[s] = "queue"
      /\ exchange[s].queue \in Seq(Candidates) /\ RtcOf(s)
  BY DEF RtcTypes, SendQueued, Exchange
<1>2. CASE exchange[s].queue = <<>>
  <2>1. /\ stage' = [stage EXCEPT ![s] = "open"]
        /\ UNCHANGED <<exchange, own, told, wire, failing>>
    BY <1>2 DEF SendQueued
  <2>2. RtcTypes'
    BY <2>1 DEF RtcTypes, RtcStages
  <2>3. Only(s)
    BY <2>1 DEF Only, RtcTypes
  <2>4. stage'[s] = "open"
    BY <2>1 DEF RtcTypes
  <2>5. RtcOf(s)'
    BY <1>1, <1>2, <2>1, <2>4 DEF RtcOf, Progress, Untroubled
  <2> QED
    BY <2>2, <2>3, <2>5, OneSessionMoves
<1>3. CASE exchange[s].queue # <<>>
  <2>1. PICK ok \in BOOLEAN : Publish(s, ok, <<Head(exchange[s].queue)>>) /\ Worked(s, ok)
    BY <1>3 DEF SendQueued
  <2> DEFINE q == exchange[s].queue
             x == [exchange[s] EXCEPT !.queue = Tail(q)]
             w == IF ok THEN wire[s] \o <<Head(q)>> ELSE wire[s]
  <2>2. Head(q) \in Candidates /\ Tail(q) \in Seq(Candidates)
    BY <1>1, <1>3
  <2>3. Head(q) \in Wires
    BY <2>2 DEF Wires
  <2>4. /\ x \in Exchange /\ x.queue = Tail(q) /\ x.filed = exchange[s].filed
        /\ x.callback = exchange[s].callback /\ x.sent = exchange[s].sent
    <3> HIDE DEF q
    <3> QED
      BY <1>1, <2>2 DEF Exchange
  <2>6. ok => w = Append(wire[s], Head(q))
    BY <1>1, <2>3, OneMore
  <2>5. w \in Seq(Wires)
    BY <1>1, <2>3, OneMore
  <2>14. ok /\ Led(wire[s]) => Led(w)
    BY <1>1, <2>3, <2>6, LedOn
  <2>7. \A t : (ok /\ Once(wire[s], q, t)) => Once(w, Tail(q), t)
    BY <1>1, <1>3, <2>6, OnceMoved
  <2>8. exchange' = [exchange EXCEPT ![s] = x] /\ wire' = [wire EXCEPT ![s] = w]
    BY <1>3, <2>1 DEF SendQueued, Publish
  <2>9. failing' = [failing EXCEPT ![s] = failing[s] \/ ~ok] /\ UNCHANGED <<stage, own, told>>
    BY <1>3, <2>1 DEF SendQueued, Worked
  <2>0. q = exchange[s].queue
    OBVIOUS
  <2> HIDE DEF x, w, q
  <2>10. RtcTypes'
    BY <2>4, <2>5, <2>8, <2>9 DEF RtcTypes
  <2>11. Only(s)
    BY <2>8, <2>9 DEF Only, RtcTypes
  <2>12. /\ exchange'[s] = x /\ wire'[s] = w
         /\ (~failing'[s] => ~failing[s] /\ ok)
    BY <2>8, <2>9 DEF RtcTypes
  <2>13. RtcOf(s)'
    BY <1>1, <2>0, <2>4, <2>7, <2>9, <2>12, <2>14 DEF RtcOf, Progress, Untroubled
  <2> QED
    BY <2>10, <2>11, <2>13, OneSessionMoves
<1> QED
  BY <1>2, <1>3

(* A candidate of the browser: ignored, queued or published.               *)
LEMMA RtcTrickles ==
    ASSUME RtcInv, NEW s \in Browsers, NEW c \in Candidates, Candidate(s, c)
    PROVE  RtcInv'
<1> USE DEF RtcInv
<1>1. /\ exchange[s] \in Exchange /\ wire[s] \in Seq(Wires) /\ told[s] \in Seq(Candidates)
      /\ exchange[s].queue \in Seq(Candidates) /\ RtcOf(s) /\ c \in Wires
  BY DEF RtcTypes, Exchange, Wires
<1>2. c \notin ToSet(told[s]) /\ stage[s] \notin {"idle", "service", "served"}
      /\ UNCHANGED <<stage, own>>
  BY DEF Candidate
<1>3. Append(told[s], c) \in Seq(Candidates)
  BY <1>1, OneMore
<1>4. CASE ~exchange[s].filed
  <2>1. told' = [told EXCEPT ![s] = told[s]] /\ UNCHANGED <<exchange, wire, failing>>
    BY <1>4 DEF Candidate
  <2>2. told' = told
    BY <2>1 DEF RtcTypes
  <2>3. RtcTypes' /\ Only(s) /\ RtcOf(s)'
    BY <1>1, <1>2, <2>1, <2>2 DEF RtcTypes, Only, RtcOf, Progress, Untroubled
  <2> QED
    BY <2>3, OneSessionMoves
<1>5. CASE exchange[s].filed /\ ~exchange[s].sent
  <2> DEFINE q == Append(exchange[s].queue, c)
             x == [exchange[s] EXCEPT !.queue = q]
  <2>1. told' = [told EXCEPT ![s] = Append(told[s], c)] /\ UNCHANGED <<wire, failing>>
        /\ exchange' = [exchange EXCEPT ![s] = x]
    BY <1>5 DEF Candidate
  <2>2. q \in Seq(Candidates)
    BY <1>1, OneMore
  <2>3. Once(wire[s], exchange[s].queue, told[s]) => Once(wire[s], q, Append(told[s], c))
    BY <1>1, <1>2, OnceQueued
  <2> HIDE DEF q
  <2>4. /\ x \in Exchange /\ x.queue = q /\ x.filed = exchange[s].filed
        /\ x.callback = exchange[s].callback /\ x.sent = exchange[s].sent
    BY <1>1, <2>2 DEF Exchange
  <2> HIDE DEF x
  <2>5. RtcTypes'
    BY <1>2, <1>3, <2>1, <2>4 DEF RtcTypes
  <2>6. Only(s)
    BY <1>2, <2>1 DEF Only, RtcTypes
  <2>7. exchange'[s] = x /\ told'[s] = Append(told[s], c)
    BY <2>1 DEF RtcTypes
  <2>8. RtcOf(s)'
    BY <1>1, <1>2, <1>5, <2>1, <2>3, <2>4, <2>7 DEF RtcOf, Progress, Untroubled
  <2> QED
    BY <2>5, <2>6, <2>8, OneSessionMoves
<1>6. CASE exchange[s].filed /\ exchange[s].sent
  <2>1. PICK ok \in BOOLEAN : Publish(s, ok, <<c>>) /\ Worked(s, ok)
    BY <1>6 DEF Candidate
  <2> DEFINE w == IF ok THEN wire[s] \o <<c>> ELSE wire[s]
  <2>3. ok => w = Append(wire[s], c)
    BY <1>1, OneMore
  <2>2. w \in Seq(Wires)
    BY <1>1, OneMore
  <2>10. ok /\ Led(wire[s]) => Led(w)
    BY <1>1, <2>3, LedOn
  <2>4. (ok /\ Once(wire[s], exchange[s].queue, told[s]))
           => Once(w, exchange[s].queue, Append(told[s], c))
    BY <1>1, <1>2, <2>3, OncePublished
  <2>5. told' = [told EXCEPT ![s] = Append(told[s], c)] /\ wire' = [wire EXCEPT ![s] = w]
        /\ failing' = [failing EXCEPT ![s] = failing[s] \/ ~ok] /\ UNCHANGED exchange
    BY <1>6, <2>1 DEF Candidate, Publish, Worked
  <2> HIDE DEF w
  <2>6. RtcTypes'
    BY <1>2, <1>3, <2>2, <2>5 DEF RtcTypes
  <2>7. Only(s)
    BY <1>2, <2>5 DEF Only, RtcTypes
  <2>8. wire'[s] = w /\ told'[s] = Append(told[s], c) /\ (~failing'[s] => ~failing[s] /\ ok)
    BY <2>5 DEF RtcTypes
  <2>9. RtcOf(s)'
    BY <1>1, <1>2, <1>6, <2>4, <2>5, <2>8, <2>10 DEF RtcOf, Progress, Untroubled
  <2> QED
    BY <2>6, <2>7, <2>9, OneSessionMoves
<1> QED
  BY <1>4, <1>5, <1>6

(* A session that is served has no callback: it is troubled or none.       *)
LEMMA RtcServes ==
    ASSUME RtcInv, NEW s \in Browsers, ServiceOffer(s) \/ ServiceAnswer(s)
    PROVE  RtcInv'
<1> USE DEF RtcInv
<1>1. RtcOf(s) /\ exchange[s] \in Exchange /\ wire[s] \in Seq(Wires) /\ own[s] \in Seq(Ice)
  BY DEF RtcTypes
<1>2. CASE ServiceOffer(s)
  <2> DEFINE x == Filed(Open(exchange[s]), TRUE)
  <2>1. PICK c \in {<<>>} \cup {<<i>> : i \in Ice} :
          own' = [own EXCEPT ![s] = c] /\ wire' = [wire EXCEPT ![s] = <<Offer>> \o c]
    BY <1>2 DEF ServiceOffer
  <2>2. c \in Seq(Ice) /\ c \in Seq(Wires) /\ <<Offer>> \in Seq(Wires)
    <3>1. CASE c = <<>>
      BY <3>1 DEF Wires
    <3>2. CASE c \in {<<i>> : i \in Ice}
      <4>1. PICK i \in Ice : c = <<i>>
        BY <3>2
      <4> QED
        BY <4>1 DEF Wires, Candidates
    <3> QED
      BY <3>1, <3>2
  <2>3. <<Offer>> \o c \in Seq(Wires)
    BY <2>2
  <2>4. exchange[s] = Expired
    BY <1>1, <1>2 DEF ServiceOffer, RtcOf
  <2>5. Open(exchange[s]) = Session /\ Session \in Exchange /\ ~Session.callback
    BY <2>4, NewSession DEF Open
  <2>6. x \in Exchange /\ ~x.callback
    BY <2>5, FiledSession
  <2>7. exchange' = [exchange EXCEPT ![s] = x] /\ stage' = [stage EXCEPT ![s] = "service"]
        /\ UNCHANGED <<told, failing>>
    BY <1>2 DEF ServiceOffer
  <2> HIDE DEF x
  <2>8. RtcTypes'
    BY <2>1, <2>2, <2>3, <2>6, <2>7 DEF RtcTypes, RtcStages
  <2>9. Only(s)
    BY <2>1, <2>7 DEF Only, RtcTypes
  <2>10. exchange'[s] = x /\ stage'[s] = "service"
    BY <2>7 DEF RtcTypes
  <2>11. RtcOf(s)'
    BY <2>6, <2>10 DEF RtcOf, Untroubled
  <2> QED
    BY <2>8, <2>9, <2>11, OneSessionMoves
<1>3. CASE ServiceAnswer(s)
  <2>1. /\ wire' = [wire EXCEPT ![s] = IF own[s] = <<>> THEN wire[s] ELSE Append(wire[s], End)]
        /\ stage' = [stage EXCEPT ![s] = "served"] /\ stage[s] = "service"
        /\ UNCHANGED <<exchange, own, told, failing>>
    BY <1>3 DEF ServiceAnswer
  <2>2. End \in Wires
    BY DEF Wires, Candidates
  <2>3. Append(wire[s], End) \in Seq(Wires)
    BY <1>1, <2>2
  <2>4. RtcTypes'
    BY <1>1, <2>1, <2>3 DEF RtcTypes, RtcStages
  <2>5. Only(s)
    BY <2>1 DEF Only, RtcTypes
  <2>6. stage'[s] = "served" /\ exchange'[s] = exchange[s]
    BY <2>1 DEF RtcTypes
  <2>7. RtcOf(s)'
    BY <1>1, <2>1, <2>6 DEF RtcOf, Untroubled
  <2> QED
    BY <2>4, <2>5, <2>7, OneSessionMoves
<1> QED
  BY <1>2, <1>3

(* The camera's answers change neither the queue nor what was published.   *)
LEMMA RtcAnswers ==
    ASSUME RtcInv, NEW s \in Browsers,
           Answer(s) \/ \E c \in CameraIce \cup {End} : AnswerIce(s, c)
    PROVE  RtcInv'
<1> USE DEF RtcInv
<1>1. RtcOf(s) /\ exchange[s] \in Exchange /\ wire[s] \in Seq(Wires)
      /\ exchange[s].ice \in Seq(CameraIce \cup {End})
  BY DEF RtcTypes, Exchange
<1>2. /\ Open(exchange[s]) \in Exchange
      /\ exchange[s].filed => Open(exchange[s]) = exchange[s]
      /\ ~exchange[s].filed => ~Open(exchange[s]).callback
      /\ Open(exchange[s]).ice \in Seq(CameraIce \cup {End})
  <2>1. Open(exchange[s]) \in Exchange
    BY <1>1, OpenSession
  <2>2. Open(exchange[s]).ice \in Seq(CameraIce \cup {End})
    BY <2>1 DEF Exchange
  <2> QED
    BY <1>1, <2>1, <2>2, OpenSession
<1>3. stage[s] # "idle"
  <2> SUFFICES ASSUME stage[s] = "idle" PROVE FALSE
    OBVIOUS
  <2>1. exchange[s] = Expired /\ wire[s] = <<>>
    BY <1>1 DEF RtcOf
  <2>2. ~exchange[s].answer /\ ~\E i \in 1..Len(wire[s]) : wire[s][i] = Offer
    BY <2>1 DEF Expired
  <2> QED
    BY <2>2 DEF Answer, AnswerIce, Contains
<1>4. ASSUME NEW x \in Exchange, x.queue = Open(exchange[s]).queue,
             x.filed = Open(exchange[s]).filed, x.callback = Open(exchange[s]).callback,
             x.sent = Open(exchange[s]).sent,
             exchange' = [exchange EXCEPT ![s] = x],
             UNCHANGED <<stage, own, told, wire, failing>>
      PROVE  RtcInv'
  <2>1. RtcTypes'
    BY <1>4 DEF RtcTypes
  <2>2. Only(s)
    BY <1>4 DEF Only, RtcTypes
  <2>3. exchange'[s] = x
    BY <1>4 DEF RtcTypes
  <2>4. CASE exchange[s].filed
    <3>1. /\ exchange'[s].queue = exchange[s].queue /\ exchange'[s].filed = exchange[s].filed
          /\ exchange'[s].sent = exchange[s].sent
          /\ exchange'[s].callback = exchange[s].callback
      BY <1>2, <1>4, <2>3, <2>4
    <3>2. Untroubled(s)' = Untroubled(s) /\ Progress(s)' = Progress(s)
      BY <1>4, <3>1 DEF Untroubled, Progress
    <3>3. RtcOf(s)'
      BY <1>1, <1>3, <1>4, <3>1, <3>2 DEF RtcOf
    <3> QED
      BY <2>1, <2>2, <3>3, OneSessionMoves
  <2>5. CASE ~exchange[s].filed
    <3>1. ~exchange'[s].callback
      BY <1>2, <1>4, <2>3, <2>5
    <3>2. RtcOf(s)'
      BY <1>3, <1>4, <3>1 DEF RtcOf, Untroubled
    <3> QED
      BY <2>1, <2>2, <3>2, OneSessionMoves
  <2> QED
    BY <2>4, <2>5
<1>5. CASE Answer(s)
  <2> DEFINE y == Open(exchange[s])
             x == [y EXCEPT !.answer = TRUE]
  <2>0. y \in Exchange
    BY <1>2
  <2>1. exchange' = [exchange EXCEPT ![s] = x] /\ UNCHANGED <<stage, own, told, wire, failing>>
    BY <1>5 DEF Answer
  <2>2. /\ x \in Exchange /\ x.queue = y.queue /\ x.filed = y.filed
        /\ x.callback = y.callback /\ x.sent = y.sent
    <3> HIDE DEF y
    <3> QED
      BY <2>0 DEF Exchange
  <2> HIDE DEF x
  <2> QED
    BY <1>4, <2>1, <2>2
<1>6. CASE \E c \in CameraIce \cup {End} : AnswerIce(s, c)
  <2>1. PICK c \in CameraIce \cup {End} : AnswerIce(s, c)
    BY <1>6
  <2> DEFINE y == Open(exchange[s])
             l == Append(y.ice, c)
             x == [y EXCEPT !.ice = l]
  <2>2. y \in Exchange /\ l \in Seq(CameraIce \cup {End})
    BY <1>2
  <2>3. exchange' = [exchange EXCEPT ![s] = x] /\ UNCHANGED <<stage, own, told, wire, failing>>
    BY <2>1 DEF AnswerIce
  <2>4. /\ x \in Exchange /\ x.queue = y.queue /\ x.filed = y.filed
        /\ x.callback = y.callback /\ x.sent = y.sent
    <3> HIDE DEF y, l
    <3> QED
      BY <2>2 DEF Exchange
  <2> HIDE DEF x
  <2> QED
    BY <1>4, <2>3, <2>4
<1> QED
  BY <1>5, <1>6

(* A browser that hangs up adds a Disconnect, or nothing.                  *)
LEMMA RtcCloses ==
    ASSUME RtcInv, NEW s \in Browsers, Close(s)
    PROVE  RtcInv'
<1> USE DEF RtcInv
<1>1. /\ exchange[s] \in Exchange /\ wire[s] \in Seq(Wires) /\ RtcOf(s) /\ Disconnect \in Wires
      /\ stage[s] \in {"config", "publish", "published", "queue", "open"}
      /\ UNCHANGED <<stage, own, told>>
  BY DEF RtcTypes, Wires, Close
<1>2. CASE ~exchange[s].filed
  <2>1. UNCHANGED <<exchange, stage, own, told, wire, failing>>
    BY <1>1, <1>2 DEF Close, CloseSession
  <2> QED
    BY <2>1 DEF RtcTypes, RtcOf, Untroubled, Progress
<1>3. CASE exchange[s].filed
  <2>1. PICK ok \in BOOLEAN : /\ Publish(s, ok, <<Disconnect>>)
                              /\ Worked(s, ok)
                              /\ exchange' = [exchange EXCEPT ![s] = Filed(@, ok)]
    BY <1>3 DEF Close, CloseSession
  <2> DEFINE x == Filed(exchange[s], ok)
             w == IF ok THEN wire[s] \o <<Disconnect>> ELSE wire[s]
  <2>2. /\ x \in Exchange /\ x.queue = exchange[s].queue /\ x.filed = exchange[s].filed
        /\ x.callback = exchange[s].callback /\ x.sent = exchange[s].sent
    BY <1>1, FiledSession
  <2>3. w = wire[s] \/ w = Append(wire[s], Disconnect)
    BY <1>1, OneMore
  <2>4. w \in Seq(Wires)
    BY <1>1, <2>3, OneMore
  <2>5. /\ Led(wire[s]) => Led(w)
        /\ Trickled(wire[s]) = {} => Trickled(w) = {}
    BY <1>1, <2>3, LedOn
  <2>6. \A q, t : Once(wire[s], q, t) => Once(w, q, t)
    BY <1>1, <2>3, OnceOther
  <2>7. exchange' = [exchange EXCEPT ![s] = x] /\ wire' = [wire EXCEPT ![s] = w]
        /\ failing' = [failing EXCEPT ![s] = failing[s] \/ ~ok]
    BY <2>1 DEF Publish, Worked
  <2> HIDE DEF x, w
  <2>8. RtcTypes'
    BY <1>1, <2>2, <2>4, <2>7 DEF RtcTypes
  <2>9. Only(s)
    BY <1>1, <2>7 DEF Only, RtcTypes
  <2>10. /\ exchange'[s] = x /\ wire'[s] = w /\ stage'[s] = stage[s] /\ told'[s] = told[s]
         /\ own'[s] = own[s] /\ (~failing'[s] => ~failing[s])
    BY <1>1, <2>7 DEF RtcTypes
  <2>11. RtcOf(s)'
    BY <1>1, <2>2, <2>5, <2>6, <2>10 DEF RtcOf, Progress, Untroubled
  <2> QED
    BY <2>8, <2>9, <2>11, OneSessionMoves
<1> QED
  BY <1>2, <1>3

LEMMA RtcExpires ==
    ASSUME RtcInv, NEW s \in Browsers, Expire(s)
    PROVE  RtcInv'
<1> USE DEF RtcInv
<1>1. /\ exchange' = [exchange EXCEPT ![s] = Expired] /\ stage[s] = "open"
      /\ UNCHANGED <<stage, own, told, wire, failing>>
  BY DEF Expire
<1>2. Expired \in Exchange /\ ~Expired.callback
  BY DEF Expired, Exchange
<1>3. RtcTypes'
  BY <1>1, <1>2 DEF RtcTypes
<1>4. Only(s)
  BY <1>1 DEF Only, RtcTypes
<1>5. exchange'[s] = Expired
  BY <1>1 DEF RtcTypes
<1>6. RtcOf(s)'
  BY <1>1, <1>2, <1>5 DEF RtcOf, Untroubled
<1> QED
  BY <1>3, <1>4, <1>6, OneSessionMoves

LEMMA RtcInvStep == RtcInv /\ [RtcNext]_rtcVars => RtcInv'
<1> SUFFICES ASSUME RtcInv, [RtcNext]_rtcVars PROVE RtcInv'
  OBVIOUS
<1>1. CASE UNCHANGED rtcVars
  BY <1>1 DEF rtcVars, RtcInv, RtcTypes, RtcOf, Untroubled, Progress
<1>2. CASE RtcNext
  <2>1. PICK s \in Browsers :
          \/ BeginOffer(s) \/ ReadOffer(s) \/ PublishOffer(s) \/ OfferIsSent(s) \/ SendQueued(s)
          \/ \E c \in Candidates : Candidate(s, c)
          \/ ServiceOffer(s) \/ ServiceAnswer(s)
          \/ Answer(s) \/ \E c \in CameraIce \cup {End} : AnswerIce(s, c)
          \/ Close(s) \/ Expire(s)
    BY <1>2 DEF RtcNext, Candidates
  <2> QED
    BY <2>1, RtcBegins, RtcReads, RtcPublishes, RtcSent, RtcSends, RtcTrickles, RtcServes,
       RtcAnswers, RtcCloses, RtcExpires
<1> QED
  BY <1>1, <1>2

LEMMA RtcInvOnce == RtcInv => CandidatesOnce
<1> SUFFICES ASSUME RtcInv, NEW s \in Browsers, Untroubled(s)
             PROVE  /\ \A i, j \in Trickled(wire[s]) : wire[s][i] = wire[s][j] => i = j
                    /\ IsInjective(exchange[s].queue)
                    /\ \A i \in Trickled(wire[s]) : wire[s][i] \notin ToSet(exchange[s].queue)
                    /\ {wire[s][i] : i \in Trickled(wire[s])} \cup ToSet(exchange[s].queue)
                         = ToSet(told[s])
                    /\ \A i \in Trickled(wire[s]) : \E j \in 1..(i - 1) : wire[s][j] = Offer
                    /\ stage[s] = "open" => exchange[s].queue = <<>>
  BY DEF CandidatesOnce, Untroubled
<1>1. RtcOf(s)
  BY DEF RtcInv
<1>2. Progress(s) /\ Once(wire[s], exchange[s].queue, told[s])
  BY <1>1 DEF RtcOf
<1>3. IsInjective(exchange[s].queue)
  BY <1>2 DEF Once, IsInjective
<1>4. wire[s] \in Seq(Wires) /\ Trickled(wire[s]) \subseteq 1..Len(wire[s]) /\ Len(wire[s]) \in Nat
      /\ DOMAIN wire[s] = 1..Len(wire[s])
  BY DEF RtcInv, RtcTypes, Trickled
<1>5. ASSUME NEW i \in Trickled(wire[s]) PROVE \E j \in 1..(i - 1) : wire[s][j] = Offer
  <2>1. Led(wire[s])
    BY <1>2, <1>5 DEF Progress
  <2>2. PICK j \in DOMAIN wire[s] : wire[s][j] = Offer /\ j < i
    BY <2>1 DEF Led
  <2>3. i \in Nat /\ j \in 1..(i - 1)
    BY <1>4, <2>2
  <2> QED
    BY <2>2, <2>3
<1> QED
  BY <1>2, <1>3, <1>5 DEF Once, Progress

(* While the session of an offer without candidates lives and the cloud takes  *)
(* what it is sent, each candidate the browser trickles reaches the camera     *)
(* exactly once and after the offer, wherever it falls between the awaits of   *)
(* the offer and whenever the browser hangs up                                 *)
(* (async_handle_async_webrtc_offer, on_webrtc_candidate).                     *)
THEOREM CandidatesArriveOnce == RtcSpec => []CandidatesOnce
<1>1. RtcInit => RtcInv
  BY RtcInvInit
<1>2. RtcInv /\ [RtcNext]_rtcVars => RtcInv'
  BY RtcInvStep
<1>3. RtcInv => CandidatesOnce
  BY RtcInvOnce
<1> QED
  BY <1>1, <1>2, <1>3, PTL DEF RtcSpec

-----------------------------------------------------------------------------
(* The entities of a platform.  Lists and tables are merged, and their     *)
(* descriptors tried, by folds: their steps first.                         *)

(* Induction on the natural numbers, for a set.                            *)
LEMMA NatInduct ==
    ASSUME NEW S, 0 \in S, \A n \in Nat : n \in S => n + 1 \in S
    PROVE  Nat \subseteq S
<1> DEFINE T == Nat \ S
<1> SUFFICES ASSUME T # {} PROVE FALSE
  OBVIOUS
<1>0. PICK R : R = OpToRel(<, Nat)
  OBVIOUS
<1>1. \A x, y \in Nat : x < y => <<x, y>> \in R
  BY <1>0 DEF OpToRel
<1>2. IsWellFoundedOn(R, Nat)
  BY <1>0, NatLessThanWellFounded
<1>3. T \subseteq Nat
  OBVIOUS
<1>4. PICK m \in T : \A k \in T : ~(<<k, m>> \in R)
  <2> HIDE DEF T
  <2> QED
    BY <1>2, <1>3, WFMin
<1>5. m \in Nat /\ m # 0
  BY <1>4
<1>6. m - 1 \in Nat /\ m - 1 < m /\ (m - 1) + 1 = m
  BY <1>5
<1>7. m - 1 \in T
  BY <1>4, <1>6
<1> QED
  BY <1>1, <1>4, <1>5, <1>6, <1>7

(* The greatest index of a part of a sequence, which the folds take last.  *)
LEMMA TopIndex ==
    ASSUME NEW n \in Nat, NEW s \in SUBSET (1..n), s # {}
    PROVE  Max(s) \in s /\ \A y \in s : Max(s) >= y
<1> DEFINE T == {k \in Nat : \A t \in SUBSET (1..k) : t # {} => \E x \in t : \A y \in t : x >= y}
<1>1. 0 \in T
  <2>1. \A t \in SUBSET (1..0) : t = {}
    OBVIOUS
  <2> QED
    BY <2>1
<1>2. ASSUME NEW k \in Nat, k \in T PROVE k + 1 \in T
  <2>1. k + 1 \in Nat
    OBVIOUS
  <2>2. ASSUME NEW t \in SUBSET (1..k + 1), t # {} PROVE \E x \in t : \A y \in t : x >= y
    <3>1. CASE k + 1 \in t
      BY <3>1
    <3>2. CASE k + 1 \notin t
      <4>1. t \in SUBSET (1..k)
        BY <3>2
      <4> QED
        BY <1>2, <2>2, <4>1
    <3> QED
      BY <3>1, <3>2
  <2> QED
    BY <2>1, <2>2
<1>3. n \in T
  <2> HIDE DEF T
  <2> QED
    BY <1>1, <1>2, NatInduct
<1>4. \E x \in s : \A y \in s : x >= y
  BY <1>3
<1> QED
  BY <1>4 DEF Max

LEMMA TopRemoved ==
    ASSUME NEW n \in Nat, NEW s \in SUBSET (1..n + 1), s # {}
    PROVE  s \ {Max(s)} \in SUBSET (1..n)
<1>1. n + 1 \in Nat
  OBVIOUS
<1>2. Max(s) \in s /\ \A y \in s : Max(s) >= y
  BY <1>1, TopIndex
<1>3. PICK m : m = Max(s)
  OBVIOUS
<1>4. m \in 1..n + 1 /\ \A y \in s : m >= y /\ y \in 1..n + 1
  BY <1>2, <1>3
<1>5. ASSUME NEW y \in s, y # m PROVE y \in 1..n
  BY <1>4, <1>5
<1> QED
  BY <1>3, <1>5

LEMMA TopOfAll ==
    ASSUME NEW n \in Nat, NEW k \in 1..n
    PROVE  Max(1..k) = k /\ (1..k) \ {k} = 1..(k - 1)
<1>1. k \in Nat /\ k \in 1..k /\ 1..k \in SUBSET (1..k)
  OBVIOUS
<1>2. Max(1..k) \in 1..k /\ \A y \in 1..k : Max(1..k) >= y
  BY <1>1, TopIndex
<1>3. PICK m : m = Max(1..k)
  OBVIOUS
<1>4. m \in 1..k /\ m >= k
  BY <1>1, <1>2, <1>3
<1>5. m = k
  BY <1>1, <1>4
<1>6. (1..k) \ {k} = 1..(k - 1)
  OBVIOUS
<1> QED
  BY <1>3, <1>5, <1>6

Followed(base, added, compound, h) ==
    /\ h[0] = Placed(base, added, compound)
    /\ \A k \in 1..Len(base) : h[k] = Follow(h[k - 1], base[k], added, compound)

(* The rest of the base follows the added ones, one after the other.       *)
LEMMA FollowSteps ==
    ASSUME NEW base, NEW added, NEW compound, NEW S, base \in Seq(S)
    PROVE  \E h : Followed(base, added, compound, h) /\ MergeLists(base, added, compound) = h[Len(base)]
<1> DEFINE all == base
           G(g, s) == IF s = {} THEN Placed(base, added, compound)
                      ELSE Follow(g[s \ {Max(s)}], all[Max(s)], added, compound)
           F(g, k) == [s \in SUBSET (1..k) |-> G(g, s)]
           T == {k \in Nat : \E g : g = F(g, k)}
<1>1. 0 \in T
  <2>1. PICK g : g = [s \in SUBSET (1..0) |-> Placed(base, added, compound)]
    OBVIOUS
  <2>2. \A s \in SUBSET (1..0) : s = {}
    OBVIOUS
  <2>3. \A s \in SUBSET (1..0) : G(g, s) = Placed(base, added, compound)
    BY <2>2
  <2>4. g = F(g, 0)
    <3> HIDE DEF G
    <3> QED
      BY <2>1, <2>3
  <2> QED
    BY <2>4
<1>2. ASSUME NEW k \in Nat, k \in T PROVE k + 1 \in T
  <2>1. PICK g : g = F(g, k)
    BY <1>2
  <2>2. PICK h : h = [s \in SUBSET (1..k + 1) |-> G(g, s)]
    OBVIOUS
  <2>3. ASSUME NEW s \in SUBSET (1..k) PROVE h[s] = g[s]
    <3>1. s \in SUBSET (1..k + 1)
      OBVIOUS
    <3>2. g[s] = G(g, s)
      <4> HIDE DEF G
      <4> QED
        BY <2>1
    <3> HIDE DEF G
    <3> QED
      BY <2>2, <3>1, <3>2
  <2>4. ASSUME NEW s \in SUBSET (1..k + 1) PROVE h[s] = G(h, s)
    <3>1. CASE s = {}
      BY <2>2, <3>1
    <3>2. CASE s # {}
      <4>1. PICK x : x = Max(s)
        OBVIOUS
      <4>2. s \ {x} \in SUBSET (1..k)
        BY <3>2, <4>1, TopRemoved
      <4>3. h[s \ {x}] = g[s \ {x}]
        BY <2>3, <4>2
      <4> QED
        BY <2>2, <3>2, <4>1, <4>3
    <3> QED
      BY <3>1, <3>2
  <2>5. h = F(h, k + 1)
    <3> HIDE DEF G
    <3> QED
      BY <2>2, <2>4
  <2>6. k + 1 \in Nat
    OBVIOUS
  <2> HIDE DEF F
  <2> QED
    BY <2>5, <2>6
<1>3. PICK n : n \in Nat /\ n = Len(all) /\ DOMAIN all = 1..n
  <2>1. PICK list \in Seq(S) : list = all
    OBVIOUS
  <2>2. Len(list) \in Nat /\ DOMAIN list = 1..Len(list)
    BY LenProperties
  <2> QED
    BY <2>1, <2>2
<1>4. n \in T
  <2> HIDE DEF T
  <2> QED
    BY <1>1, <1>2, <1>3, NatInduct
<1> DEFINE H(g) == [s \in SUBSET DOMAIN all |-> G(g, s)]
           iter == CHOOSE g : g = H(g)
<1>5. iter = H(iter)
  <2>1. \E g : g = H(g)
    BY <1>3, <1>4
  <2> QED
    BY <2>1
<1>6. MergeLists(base, added, compound) = iter[DOMAIN all]
  BY DEF MergeLists, FoldLeft, MapThenFoldSet
<1>7. \A s \in SUBSET (1..n) : iter[s] = G(iter, s)
  <2> HIDE DEF G, iter
  <2> QED
    BY <1>3, <1>5
<1>8. PICK h : h = [k \in 0..n |-> iter[1..k]]
  OBVIOUS
<1>9. h[0] = Placed(base, added, compound)
  <2>1. 0 \in 0..n /\ 1..0 = {}
    <3>1. n \in Nat
      BY <1>3
    <3> QED
      BY <3>1
  <2>2. iter[1..0] = G(iter, 1..0)
    <3>1. 1..0 \in SUBSET (1..n)
      BY <2>1
    <3> HIDE DEF G, iter
    <3> QED
      BY <1>7, <3>1
  <2>3. h[0] = iter[1..0]
    <3> HIDE DEF iter
    <3> QED
      BY <1>8, <2>1
  <2> HIDE DEF iter
  <2> QED
    BY <2>1, <2>2, <2>3
<1>10. ASSUME NEW k \in 1..n PROVE h[k] = Follow(h[k - 1], all[k], added, compound)
  <2>1. k \in 0..n /\ k - 1 \in 0..n /\ 1..k \in SUBSET (1..n) /\ 1..k # {}
    <3>1. n \in Nat
      BY <1>3
    <3>2. k \in 0..n /\ k - 1 \in 0..n
      BY <3>1
    <3>3. k \in 1..k /\ 1..k \in SUBSET (1..n)
      BY <3>1
    <3> QED
      BY <3>2, <3>3
  <2>2. Max(1..k) = k /\ (1..k) \ {k} = 1..(k - 1)
    BY <1>3, TopOfAll
  <2>3. h[k] = iter[1..k] /\ h[k - 1] = iter[1..(k - 1)]
    <3> HIDE DEF iter
    <3> QED
      BY <1>8, <2>1
  <2>4. iter[1..k] = G(iter, 1..k)
    <3> HIDE DEF G, iter
    <3> QED
      BY <1>7, <2>1
  <2> HIDE DEF iter
  <2> QED
    BY <2>1, <2>2, <2>3, <2>4
<1>11. iter[DOMAIN all] = h[n]
  <2> HIDE DEF iter
  <2> QED
    BY <1>3, <1>8
<1>12. MergeLists(base, added, compound) = h[Len(all)]
  <2> HIDE DEF iter
  <2> QED
    BY <1>3, <1>6, <1>11
<1>13. Followed(base, added, compound, h)
  BY <1>3, <1>9, <1>10 DEF Followed
<1> QED
  BY <1>12, <1>13

TablesMerged(cat, h) ==
    /\ h[0] = cat.own
    /\ \A k \in 1..Len((cat.accounts \o cat.parsers)) : h[k] = MergeTables(h[k - 1], ((cat.accounts \o cat.parsers))[k], cat.compound)

(* The tables are merged one after the other.                              *)
LEMMA TableSteps ==
    ASSUME NEW cat, NEW S, (cat.accounts \o cat.parsers) \in Seq(S)
    PROVE  \E h : TablesMerged(cat, h) /\ PlatformTable(cat) = h[Len((cat.accounts \o cat.parsers))]
<1> DEFINE all == (cat.accounts \o cat.parsers)
           G(g, s) == IF s = {} THEN cat.own
                      ELSE MergeTables(g[s \ {Max(s)}], all[Max(s)], cat.compound)
           F(g, k) == [s \in SUBSET (1..k) |-> G(g, s)]
           T == {k \in Nat : \E g : g = F(g, k)}
<1>1. 0 \in T
  <2>1. PICK g : g = [s \in SUBSET (1..0) |-> cat.own]
    OBVIOUS
  <2>2. \A s \in SUBSET (1..0) : s = {}
    OBVIOUS
  <2>3. \A s \in SUBSET (1..0) : G(g, s) = cat.own
    BY <2>2
  <2>4. g = F(g, 0)
    <3> HIDE DEF G
    <3> QED
      BY <2>1, <2>3
  <2> QED
    BY <2>4
<1>2. ASSUME NEW k \in Nat, k \in T PROVE k + 1 \in T
  <2>1. PICK g : g = F(g, k)
    BY <1>2
  <2>2. PICK h : h = [s \in SUBSET (1..k + 1) |-> G(g, s)]
    OBVIOUS
  <2>3. ASSUME NEW s \in SUBSET (1..k) PROVE h[s] = g[s]
    <3>1. s \in SUBSET (1..k + 1)
      OBVIOUS
    <3>2. g[s] = G(g, s)
      <4> HIDE DEF G
      <4> QED
        BY <2>1
    <3> HIDE DEF G
    <3> QED
      BY <2>2, <3>1, <3>2
  <2>4. ASSUME NEW s \in SUBSET (1..k + 1) PROVE h[s] = G(h, s)
    <3>1. CASE s = {}
      BY <2>2, <3>1
    <3>2. CASE s # {}
      <4>1. PICK x : x = Max(s)
        OBVIOUS
      <4>2. s \ {x} \in SUBSET (1..k)
        BY <3>2, <4>1, TopRemoved
      <4>3. h[s \ {x}] = g[s \ {x}]
        BY <2>3, <4>2
      <4> QED
        BY <2>2, <3>2, <4>1, <4>3
    <3> QED
      BY <3>1, <3>2
  <2>5. h = F(h, k + 1)
    <3> HIDE DEF G
    <3> QED
      BY <2>2, <2>4
  <2>6. k + 1 \in Nat
    OBVIOUS
  <2> HIDE DEF F
  <2> QED
    BY <2>5, <2>6
<1>3. PICK n : n \in Nat /\ n = Len(all) /\ DOMAIN all = 1..n
  <2>1. PICK list \in Seq(S) : list = all
    OBVIOUS
  <2>2. Len(list) \in Nat /\ DOMAIN list = 1..Len(list)
    BY LenProperties
  <2> QED
    BY <2>1, <2>2
<1>4. n \in T
  <2> HIDE DEF T
  <2> QED
    BY <1>1, <1>2, <1>3, NatInduct
<1> DEFINE H(g) == [s \in SUBSET DOMAIN all |-> G(g, s)]
           iter == CHOOSE g : g = H(g)
<1>5. iter = H(iter)
  <2>1. \E g : g = H(g)
    BY <1>3, <1>4
  <2> QED
    BY <2>1
<1>6. PlatformTable(cat) = iter[DOMAIN all]
  BY DEF PlatformTable, FoldLeft, MapThenFoldSet
<1>7. \A s \in SUBSET (1..n) : iter[s] = G(iter, s)
  <2> HIDE DEF G, iter
  <2> QED
    BY <1>3, <1>5
<1>8. PICK h : h = [k \in 0..n |-> iter[1..k]]
  OBVIOUS
<1>9. h[0] = cat.own
  <2>1. 0 \in 0..n /\ 1..0 = {}
    <3>1. n \in Nat
      BY <1>3
    <3> QED
      BY <3>1
  <2>2. iter[1..0] = G(iter, 1..0)
    <3>1. 1..0 \in SUBSET (1..n)
      BY <2>1
    <3> HIDE DEF G, iter
    <3> QED
      BY <1>7, <3>1
  <2>3. h[0] = iter[1..0]
    <3> HIDE DEF iter
    <3> QED
      BY <1>8, <2>1
  <2> HIDE DEF iter
  <2> QED
    BY <2>1, <2>2, <2>3
<1>10. ASSUME NEW k \in 1..n PROVE h[k] = MergeTables(h[k - 1], all[k], cat.compound)
  <2>1. k \in 0..n /\ k - 1 \in 0..n /\ 1..k \in SUBSET (1..n) /\ 1..k # {}
    <3>1. n \in Nat
      BY <1>3
    <3>2. k \in 0..n /\ k - 1 \in 0..n
      BY <3>1
    <3>3. k \in 1..k /\ 1..k \in SUBSET (1..n)
      BY <3>1
    <3> QED
      BY <3>2, <3>3
  <2>2. Max(1..k) = k /\ (1..k) \ {k} = 1..(k - 1)
    BY <1>3, TopOfAll
  <2>3. h[k] = iter[1..k] /\ h[k - 1] = iter[1..(k - 1)]
    <3> HIDE DEF iter
    <3> QED
      BY <1>8, <2>1
  <2>4. iter[1..k] = G(iter, 1..k)
    <3> HIDE DEF G, iter
    <3> QED
      BY <1>7, <2>1
  <2> HIDE DEF iter
  <2> QED
    BY <2>1, <2>2, <2>3, <2>4
<1>11. iter[DOMAIN all] = h[n]
  <2> HIDE DEF iter
  <2> QED
    BY <1>3, <1>8
<1>12. PlatformTable(cat) = h[Len(all)]
  <2> HIDE DEF iter
  <2> QED
    BY <1>3, <1>6, <1>11
<1>13. TablesMerged(cat, h)
  BY <1>3, <1>9, <1>10 DEF TablesMerged
<1> QED
  BY <1>12, <1>13

Passed(a, descs, compound, first, before, h) ==
    /\ h[0] = before
    /\ \A k \in 1..Len(descs) : h[k] = Try(a, descs[k], compound, first, h[k - 1])

(* A pass tries one descriptor after the other.                            *)
LEMMA PassSteps ==
    ASSUME NEW a, NEW descs, NEW compound, NEW first, NEW before, NEW S, descs \in Seq(S)
    PROVE  \E h : Passed(a, descs, compound, first, before, h) /\ Pass(a, descs, compound, first, before) = h[Len(descs)]
<1> DEFINE all == descs
           G(g, s) == IF s = {} THEN before
                      ELSE Try(a, all[Max(s)], compound, first, g[s \ {Max(s)}])
           F(g, k) == [s \in SUBSET (1..k) |-> G(g, s)]
           T == {k \in Nat : \E g : g = F(g, k)}
<1>1. 0 \in T
  <2>1. PICK g : g = [s \in SUBSET (1..0) |-> before]
    OBVIOUS
  <2>2. \A s \in SUBSET (1..0) : s = {}
    OBVIOUS
  <2>3. \A s \in SUBSET (1..0) : G(g, s) = before
    BY <2>2
  <2>4. g = F(g, 0)
    <3> HIDE DEF G
    <3> QED
      BY <2>1, <2>3
  <2> QED
    BY <2>4
<1>2. ASSUME NEW k \in Nat, k \in T PROVE k + 1 \in T
  <2>1. PICK g : g = F(g, k)
    BY <1>2
  <2>2. PICK h : h = [s \in SUBSET (1..k + 1) |-> G(g, s)]
    OBVIOUS
  <2>3. ASSUME NEW s \in SUBSET (1..k) PROVE h[s] = g[s]
    <3>1. s \in SUBSET (1..k + 1)
      OBVIOUS
    <3>2. g[s] = G(g, s)
      <4> HIDE DEF G
      <4> QED
        BY <2>1
    <3> HIDE DEF G
    <3> QED
      BY <2>2, <3>1, <3>2
  <2>4. ASSUME NEW s \in SUBSET (1..k + 1) PROVE h[s] = G(h, s)
    <3>1. CASE s = {}
      BY <2>2, <3>1
    <3>2. CASE s # {}
      <4>1. PICK x : x = Max(s)
        OBVIOUS
      <4>2. s \ {x} \in SUBSET (1..k)
        BY <3>2, <4>1, TopRemoved
      <4>3. h[s \ {x}] = g[s \ {x}]
        BY <2>3, <4>2
      <4> QED
        BY <2>2, <3>2, <4>1, <4>3
    <3> QED
      BY <3>1, <3>2
  <2>5. h = F(h, k + 1)
    <3> HIDE DEF G
    <3> QED
      BY <2>2, <2>4
  <2>6. k + 1 \in Nat
    OBVIOUS
  <2> HIDE DEF F
  <2> QED
    BY <2>5, <2>6
<1>3. PICK n : n \in Nat /\ n = Len(all) /\ DOMAIN all = 1..n
  <2>1. PICK list \in Seq(S) : list = all
    OBVIOUS
  <2>2. Len(list) \in Nat /\ DOMAIN list = 1..Len(list)
    BY LenProperties
  <2> QED
    BY <2>1, <2>2
<1>4. n \in T
  <2> HIDE DEF T
  <2> QED
    BY <1>1, <1>2, <1>3, NatInduct
<1> DEFINE H(g) == [s \in SUBSET DOMAIN all |-> G(g, s)]
           iter == CHOOSE g : g = H(g)
<1>5. iter = H(iter)
  <2>1. \E g : g = H(g)
    BY <1>3, <1>4
  <2> QED
    BY <2>1
<1>6. Pass(a, descs, compound, first, before) = iter[DOMAIN all]
  BY DEF Pass, FoldLeft, MapThenFoldSet
<1>7. \A s \in SUBSET (1..n) : iter[s] = G(iter, s)
  <2> HIDE DEF G, iter
  <2> QED
    BY <1>3, <1>5
<1>8. PICK h : h = [k \in 0..n |-> iter[1..k]]
  OBVIOUS
<1>9. h[0] = before
  <2>1. 0 \in 0..n /\ 1..0 = {}
    <3>1. n \in Nat
      BY <1>3
    <3> QED
      BY <3>1
  <2>2. iter[1..0] = G(iter, 1..0)
    <3>1. 1..0 \in SUBSET (1..n)
      BY <2>1
    <3> HIDE DEF G, iter
    <3> QED
      BY <1>7, <3>1
  <2>3. h[0] = iter[1..0]
    <3> HIDE DEF iter
    <3> QED
      BY <1>8, <2>1
  <2> HIDE DEF iter
  <2> QED
    BY <2>1, <2>2, <2>3
<1>10. ASSUME NEW k \in 1..n PROVE h[k] = Try(a, all[k], compound, first, h[k - 1])
  <2>1. k \in 0..n /\ k - 1 \in 0..n /\ 1..k \in SUBSET (1..n) /\ 1..k # {}
    <3>1. n \in Nat
      BY <1>3
    <3>2. k \in 0..n /\ k - 1 \in 0..n
      BY <3>1
    <3>3. k \in 1..k /\ 1..k \in SUBSET (1..n)
      BY <3>1
    <3> QED
      BY <3>2, <3>3
  <2>2. Max(1..k) = k /\ (1..k) \ {k} = 1..(k - 1)
    BY <1>3, TopOfAll
  <2>3. h[k] = iter[1..k] /\ h[k - 1] = iter[1..(k - 1)]
    <3> HIDE DEF iter
    <3> QED
      BY <1>8, <2>1
  <2>4. iter[1..k] = G(iter, 1..k)
    <3> HIDE DEF G, iter
    <3> QED
      BY <1>7, <2>1
  <2> HIDE DEF iter
  <2> QED
    BY <2>1, <2>2, <2>3, <2>4
<1>11. iter[DOMAIN all] = h[n]
  <2> HIDE DEF iter
  <2> QED
    BY <1>3, <1>8
<1>12. Pass(a, descs, compound, first, before) = h[Len(all)]
  <2> HIDE DEF iter
  <2> QED
    BY <1>3, <1>6, <1>11
<1>13. Passed(a, descs, compound, first, before, h)
  BY <1>3, <1>9, <1>10 DEF Passed
<1> QED
  BY <1>12, <1>13
-----------------------------------------------------------------------------
(* The merged table has the codes of all its sources                       *)

CodesIn(list) == {CodeOf(desc) : desc \in ToSet(list)}
OneCode(all) == \A one, other \in all : one.key = other.key => CodeOf(one) = CodeOf(other)
AsIn(desc, all) == \E other \in all : desc.key = other.key /\ desc.dpcode = other.dpcode
Known(list, all) == list \in Seq(Descriptor) /\ \A desc \in ToSet(list) : AsIn(desc, all)

LEMMA KnownCode ==
    ASSUME NEW all, OneCode(all), NEW one, NEW other, AsIn(one, all), AsIn(other, all), one.key = other.key
    PROVE  CodeOf(one) = CodeOf(other)
<1>1. PICK x \in all : one.key = x.key /\ one.dpcode = x.dpcode
  BY DEF AsIn
<1>2. PICK y \in all : other.key = y.key /\ other.dpcode = y.dpcode
  BY DEF AsIn
<1>3. CodeOf(x) = CodeOf(y)
  BY <1>1, <1>2 DEF OneCode
<1> QED
  BY <1>1, <1>2, <1>3 DEF CodeOf

(* Descriptors that are told apart by one compound key have one key.       *)
LEMMA CompoundKeyTells ==
    ASSUME NEW one, NEW other, NEW compound \in BOOLEAN, CompoundKey(one, compound) = CompoundKey(other, compound)
    PROVE  one.key = other.key
<1>1. \A x, y : <<x>>[1] = x /\ <<x, y>>[1] = x
  OBVIOUS
<1>2. ASSUME NEW desc PROVE CompoundKey(desc, compound)[1] = desc.key
  <2>1. CASE compound /\ desc.dpcode # NoCode
    <3>1. CompoundKey(desc, compound) = <<desc.key, desc.dpcode>>
      BY <2>1 DEF CompoundKey
    <3> QED
      BY <1>1, <3>1
  <2>2. CASE ~(compound /\ desc.dpcode # NoCode)
    <3>1. CompoundKey(desc, compound) = <<desc.key>>
      BY <2>2 DEF CompoundKey
    <3> QED
      BY <1>1, <3>1
  <2> QED
    BY <2>1, <2>2
<1>3. CompoundKey(one, compound)[1] = one.key /\ CompoundKey(other, compound)[1] = other.key
  BY <1>2
<1> QED
  BY <1>3

LEMMA AppendedSet ==
    ASSUME NEW S, NEW list \in Seq(S), NEW x \in S
    PROVE  Append(list, x) \in Seq(S) /\ ToSet(Append(list, x)) = ToSet(list) \cup {x}
<1>1. PICK more : more = Append(list, x)
  OBVIOUS
<1>2. more \in Seq(S) /\ Len(more) = Len(list) + 1 /\ DOMAIN more = 1..Len(list) + 1 /\ DOMAIN list = 1..Len(list)
  BY <1>1
<1>3. \A i \in 1..Len(list) : more[i] = list[i]
  BY <1>1
<1>4. more[Len(list) + 1] = x
  BY <1>1
<1>5. Len(list) \in Nat
  OBVIOUS
<1>6. ASSUME NEW i \in DOMAIN more PROVE more[i] \in ToSet(list) \cup {x}
  <2>1. CASE i \in 1..Len(list)
    BY <1>2, <1>3, <2>1 DEF ToSet
  <2>2. CASE i = Len(list) + 1
    BY <1>4, <2>2
  <2> QED
    BY <1>2, <1>5, <2>1, <2>2
<1>7. ASSUME NEW i \in DOMAIN list PROVE list[i] \in ToSet(more)
  <2>1. i \in DOMAIN more /\ more[i] = list[i]
    BY <1>2, <1>3, <1>5
  <2> QED
    BY <2>1 DEF ToSet
<1>8. x \in ToSet(more)
  <2>1. Len(list) + 1 \in DOMAIN more
    BY <1>2, <1>5
  <2> QED
    BY <1>4, <2>1 DEF ToSet
<1>9. ToSet(more) \subseteq ToSet(list) \cup {x}
  BY <1>6 DEF ToSet
<1>10. ToSet(list) \subseteq ToSet(more)
  BY <1>7 DEF ToSet
<1> QED
  BY <1>1, <1>2, <1>8, <1>9, <1>10

(* A descriptor that takes the place of another keeps key and data point.  *)
LEMMA MergedDescriptorKeeps ==
    ASSUME NEW base \in Descriptor, NEW other \in Descriptor
    PROVE  /\ MergedDescriptor(base, other) \in Descriptor
           /\ MergedDescriptor(base, other).key = base.key
           /\ MergedDescriptor(base, other).dpcode = base.dpcode
  BY DEF MergedDescriptor, Descriptor

LEMMA PlacedKnown ==
    ASSUME NEW all, OneCode(all), NEW base, Known(base, all), NEW added, Known(added, all), NEW compound \in BOOLEAN
    PROVE  Known(Placed(base, added, compound), all) /\ CodesIn(Placed(base, added, compound)) = CodesIn(added)
<1> DEFINE Alike(desc) == {i \in DOMAIN base : CompoundKey(base[i], compound) = CompoundKey(desc, compound)}
           At(desc) == IF Alike(desc) = {} THEN desc
                          ELSE MergedDescriptor(base[Max(Alike(desc))], desc)
<1>1. PICK list : list = [i \in DOMAIN added |-> At(added[i])]
  OBVIOUS
<1>2. list = Placed(base, added, compound)
  BY <1>1 DEF Placed
<1>3. ASSUME NEW desc \in ToSet(added)
      PROVE  At(desc) \in Descriptor /\ AsIn(At(desc), all) /\ CodeOf(At(desc)) = CodeOf(desc)
  <2>1. desc \in Descriptor /\ AsIn(desc, all)
    BY DEF Known, ToSet
  <2>2. CASE Alike(desc) = {}
    BY <2>1, <2>2
  <2>3. CASE Alike(desc) # {}
    <3>1. PICK other : other = base[Max(Alike(desc))]
      OBVIOUS
    <3>2. other \in ToSet(base) /\ CompoundKey(other, compound) = CompoundKey(desc, compound)
      <4>1. Len(base) \in Nat /\ Alike(desc) \in SUBSET (1..Len(base)) /\ DOMAIN base = 1..Len(base)
        BY DEF Known
      <4>2. Max(Alike(desc)) \in Alike(desc)
        BY <2>3, <4>1, TopIndex
      <4> QED
        BY <3>1, <4>2 DEF ToSet
    <3>3. other \in Descriptor /\ AsIn(other, all) /\ other.key = desc.key
      <4>1. other \in Descriptor /\ AsIn(other, all)
        BY <3>2 DEF Known, ToSet
      <4> QED
        BY <3>2, <4>1, CompoundKeyTells
    <3>4. CodeOf(other) = CodeOf(desc)
      BY <2>1, <3>3, KnownCode
    <3>5. PICK d : d = MergedDescriptor(other, desc)
      OBVIOUS
    <3>6. d \in Descriptor /\ d.key = other.key /\ d.dpcode = other.dpcode
      BY <2>1, <3>3, <3>5, MergedDescriptorKeeps
    <3>7. AsIn(d, all) /\ CodeOf(d) = CodeOf(other)
      BY <3>3, <3>6 DEF AsIn, CodeOf
    <3>8. At(desc) = d
      BY <2>3, <3>1, <3>5
    <3> HIDE DEF At
    <3> QED
      BY <3>4, <3>6, <3>7, <3>8
  <2> QED
    BY <2>2, <2>3
<1> HIDE DEF At
<1>4. added \in Seq(Descriptor) /\ DOMAIN added = 1..Len(added) /\ Len(added) \in Nat
  BY DEF Known
<1>5. \A i \in DOMAIN added : added[i] \in ToSet(added)
  BY DEF ToSet
<1>6. list \in Seq(Descriptor) /\ DOMAIN list = DOMAIN added
  BY <1>1, <1>3, <1>4, <1>5
<1>7. \A desc \in ToSet(list) : AsIn(desc, all)
  BY <1>1, <1>3, <1>5, <1>6 DEF ToSet
<1>8. ASSUME NEW c \in CodesIn(list) PROVE c \in CodesIn(added)
  <2>1. PICK i \in DOMAIN list : c = CodeOf(list[i])
    BY DEF CodesIn, ToSet
  <2>2. c = CodeOf(added[i]) /\ added[i] \in ToSet(added)
    BY <1>1, <1>3, <1>5, <1>6, <2>1
  <2> QED
    BY <2>2 DEF CodesIn
<1>9. ASSUME NEW c \in CodesIn(added) PROVE c \in CodesIn(list)
  <2>1. PICK i \in DOMAIN added : c = CodeOf(added[i])
    BY DEF CodesIn, ToSet
  <2>2. c = CodeOf(list[i]) /\ list[i] \in ToSet(list)
    <3>1. list[i] \in ToSet(list)
      BY <1>6 DEF ToSet
    <3> QED
      BY <1>1, <1>3, <1>5, <2>1, <3>1
  <2> QED
    BY <2>2 DEF CodesIn
<1> QED
  BY <1>2, <1>6, <1>7, <1>8, <1>9 DEF Known

(* So far: what follows of the base after its first k.                     *)
FollowedTrue(list, k, base, added, all) ==
    /\ Known(list, all)
    /\ CodesIn(added) \subseteq CodesIn(list) /\ CodesIn(list) \subseteq CodesIn(added) \cup CodesIn(base)
    /\ \A i \in 1..k : CodeOf(base[i]) \in CodesIn(list)

LEMMA FollowKnown ==
    ASSUME NEW all, OneCode(all), NEW base, Known(base, all), NEW added, Known(added, all), NEW compound \in BOOLEAN,
           NEW list, NEW k \in Nat, k + 1 \in 1..Len(base), FollowedTrue(list, k, base, added, all)
    PROVE  FollowedTrue(Follow(list, base[k + 1], added, compound), k + 1, base, added, all)
<1>1. PICK desc : desc = base[k + 1]
  OBVIOUS
<1>2. desc \in ToSet(base) /\ desc \in Descriptor /\ AsIn(desc, all)
  <2>1. base \in Seq(Descriptor) /\ DOMAIN base = 1..Len(base)
    BY DEF Known
  <2> QED
    BY <1>1, <2>1 DEF Known, ToSet
<1>3. PICK new : new = Follow(list, desc, added, compound)
  OBVIOUS
<1>4. CodeOf(desc) \in CodesIn(base)
  BY <1>2 DEF CodesIn
<1>5. \A i \in 1..k + 1 : i \in 1..k \/ i = k + 1
  OBVIOUS
<1>6. CASE \E other \in ToSet(added) : CompoundKey(other, compound) = CompoundKey(desc, compound)
  <2>1. new = list
    BY <1>3, <1>6 DEF Follow
  <2>2. PICK other \in ToSet(added) : CompoundKey(other, compound) = CompoundKey(desc, compound)
    BY <1>6
  <2>3. AsIn(other, all) /\ other.key = desc.key
    BY <2>2, CompoundKeyTells DEF Known
  <2>4. CodeOf(other) = CodeOf(desc)
    BY <1>2, <2>3, KnownCode
  <2>5. CodeOf(desc) \in CodesIn(list)
    BY <2>2, <2>4 DEF FollowedTrue, CodesIn
  <2>6. \A i \in 1..k + 1 : CodeOf(base[i]) \in CodesIn(list)
    BY <1>1, <1>5, <2>5 DEF FollowedTrue
  <2> QED
    BY <1>1, <1>3, <2>1, <2>6 DEF FollowedTrue
<1>7. CASE ~\E other \in ToSet(added) : CompoundKey(other, compound) = CompoundKey(desc, compound)
  <2>1. new = Append(list, desc)
    BY <1>3, <1>7 DEF Follow
  <2>2. list \in Seq(Descriptor)
    BY DEF FollowedTrue, Known
  <2>3. new \in Seq(Descriptor) /\ ToSet(new) = ToSet(list) \cup {desc}
    BY <1>2, <2>1, <2>2, AppendedSet
  <2>4. Known(new, all)
    BY <1>2, <2>3 DEF FollowedTrue, Known
  <2>5. CodesIn(new) = CodesIn(list) \cup {CodeOf(desc)}
    BY <2>3 DEF CodesIn
  <2>6. \A i \in 1..k + 1 : CodeOf(base[i]) \in CodesIn(new)
    BY <1>1, <1>5, <2>5 DEF FollowedTrue
  <2>7. CodesIn(added) \subseteq CodesIn(new) /\ CodesIn(new) \subseteq CodesIn(added) \cup CodesIn(base)
    BY <1>4, <2>5 DEF FollowedTrue
  <2> QED
    BY <1>1, <1>3, <2>4, <2>6, <2>7 DEF FollowedTrue
<1> QED
  BY <1>6, <1>7

(* A merged list has the codes of both, in descriptors of either.          *)
HasBoth(list, base, added, all) == Known(list, all) /\ CodesIn(list) = CodesIn(base) \cup CodesIn(added)

LEMMA MergeListsKnown ==
    ASSUME NEW all, OneCode(all), NEW base, Known(base, all), NEW added, Known(added, all), NEW compound \in BOOLEAN
    PROVE  HasBoth(MergeLists(base, added, compound), base, added, all)
<1>1. base \in Seq(Descriptor) /\ DOMAIN base = 1..Len(base) /\ Len(base) \in Nat
  BY DEF Known
<1>2. PICK h : Followed(base, added, compound, h) /\ MergeLists(base, added, compound) = h[Len(base)]
  BY <1>1, FollowSteps
<1> DEFINE T == {k \in Nat : k <= Len(base) => FollowedTrue(h[k], k, base, added, all)}
<1>3. 0 \in T
  <2>1. Known(h[0], all) /\ CodesIn(h[0]) = CodesIn(added)
    BY <1>2, PlacedKnown DEF Followed
  <2> QED
    BY <2>1 DEF FollowedTrue
<1>4. ASSUME NEW k \in Nat, k \in T PROVE k + 1 \in T
  <2> SUFFICES ASSUME k + 1 <= Len(base) PROVE FollowedTrue(h[k + 1], k + 1, base, added, all)
    OBVIOUS
  <2>1. k + 1 \in 1..Len(base) /\ (k + 1) - 1 = k
    BY <1>1
  <2>2. FollowedTrue(h[k], k, base, added, all)
    BY <1>1, <1>4, <2>1
  <2>3. h[k + 1] = Follow(h[k], base[k + 1], added, compound)
    BY <1>2, <2>1 DEF Followed
  <2> QED
    BY <2>1, <2>2, <2>3, FollowKnown
<1>5. Len(base) \in T
  <2> HIDE DEF T
  <2> QED
    BY <1>1, <1>3, <1>4, NatInduct
<1>6. FollowedTrue(h[Len(base)], Len(base), base, added, all)
  BY <1>1, <1>5
<1>7. CodesIn(base) \subseteq CodesIn(h[Len(base)])
  BY <1>1, <1>6 DEF FollowedTrue, CodesIn, ToSet
<1> QED
  BY <1>2, <1>6, <1>7 DEF FollowedTrue, HasBoth

(* A table that has taken in some of the sources, for one category: it     *)
(* knows no other descriptors and has all their codes ...                  *)
TableTrue(descs, sources, category, all) ==
    /\ \A c \in {category, CrossCategory} : c \in DOMAIN descs => Known(descs[c], all)
    /\ \A source \in sources : \A c \in {category, CrossCategory} :
          c \in DOMAIN source => c \in DOMAIN descs /\ CodesIn(source[c]) \subseteq CodesIn(descs[c])

(* ... and those for any category also where the category has a list.      *)
Levelled(descs, category) ==
    category \in DOMAIN descs /\ CrossCategory \in DOMAIN descs
       => CodesIn(descs[CrossCategory]) \subseteq CodesIn(descs[category])

LEMMA NothingKnown == ASSUME NEW all PROVE Known(<<>>, all) /\ CodesIn(<<>>) = {}
<1>1. ToSet(<<>>) = {} /\ <<>> \in Seq(Descriptor)
  BY DEF ToSet
<1> QED
  BY <1>1 DEF Known, CodesIn

LEMMA OfKnown ==
    ASSUME NEW all, NEW descs, NEW c, c \in DOMAIN descs => Known(descs[c], all)
    PROVE  Known(Of(descs, c), all)
  BY NothingKnown DEF Of

LEMMA MergeTablesTrue ==
    ASSUME NEW all, OneCode(all), NEW category, NEW sources, NEW base, TableTrue(base, sources, category, all),
           NEW added, \A c \in {category, CrossCategory} : c \in DOMAIN added => Known(added[c], all),
           NEW compound \in BOOLEAN
    PROVE  /\ TableTrue(MergeTables(base, added, compound), sources \cup {added}, category, all)
           /\ Levelled(MergeTables(base, added, compound), category)
<1> DEFINE Ours == {category, CrossCategory}
<1>1. PICK cross : cross = MergeLists(Of(base, CrossCategory), Of(added, CrossCategory), compound)
  OBVIOUS
<1>2. PICK merged : merged = MergeTables(base, added, compound)
  OBVIOUS
<1>3. ASSUME NEW c \in Ours PROVE Known(Of(base, c), all) /\ Known(Of(added, c), all)
  BY OfKnown DEF TableTrue
<1>4. /\ Known(cross, all)
      /\ CodesIn(cross) = CodesIn(Of(base, CrossCategory)) \cup CodesIn(Of(added, CrossCategory))
  <2>1. PICK one, other : one = Of(base, CrossCategory) /\ other = Of(added, CrossCategory)
    OBVIOUS
  <2>2. Known(one, all) /\ Known(other, all)
    BY <1>3, <2>1
  <2>3. cross = MergeLists(one, other, compound)
    BY <1>1, <2>1
  <2>4. HasBoth(cross, one, other, all)
    BY <2>2, <2>3, MergeListsKnown
  <2> QED
    BY <2>1, <2>4 DEF HasBoth
<1>5. /\ DOMAIN merged = DOMAIN base \cup DOMAIN added
      /\ \A c \in DOMAIN merged :
            merged[c] = IF c \in DOMAIN base
                        THEN MergeLists(MergeLists(base[c], cross, compound), Of(added, c), compound)
                        ELSE MergeLists(cross, added[c], compound)
  BY <1>1, <1>2 DEF MergeTables
<1>6. ASSUME NEW c \in Ours, c \in DOMAIN merged
      PROVE  /\ Known(merged[c], all)
             /\ CodesIn(merged[c]) = CodesIn(cross) \cup CodesIn(Of(base, c)) \cup CodesIn(Of(added, c))
  <2>1. CASE c \in DOMAIN base
    <3>1. Of(base, c) = base[c]
      BY <2>1 DEF Of
    <3>2. PICK one, two, last : one = base[c] /\ two = Of(added, c) /\ last = merged[c]
      OBVIOUS
    <3>3. PICK first : first = MergeLists(one, cross, compound)
      OBVIOUS
    <3>4. Known(one, all) /\ Known(two, all) /\ Known(cross, all)
      BY <1>3, <1>4, <3>1, <3>2
    <3>5. last = MergeLists(first, two, compound)
      BY <1>5, <1>6, <2>1, <3>2, <3>3
    <3>6. HasBoth(first, one, cross, all)
      BY <3>3, <3>4, MergeListsKnown
    <3>7. HasBoth(last, first, two, all)
      <4>1. Known(first, all)
        BY <3>6 DEF HasBoth
      <4> QED
        BY <3>4, <3>5, <4>1, MergeListsKnown
    <3> QED
      BY <3>1, <3>2, <3>6, <3>7 DEF HasBoth
  <2>2. CASE c \notin DOMAIN base
    <3>1. c \in DOMAIN added
      BY <1>5, <1>6, <2>2
    <3>2. Of(added, c) = added[c] /\ Of(base, c) = <<>>
      BY <2>2, <3>1 DEF Of
    <3>3. PICK two, last : two = Of(added, c) /\ last = merged[c]
      OBVIOUS
    <3>4. Known(two, all) /\ Known(cross, all)
      BY <1>3, <1>4, <3>3
    <3>5. last = MergeLists(cross, two, compound)
      BY <1>5, <1>6, <2>2, <3>2, <3>3
    <3>6. HasBoth(last, cross, two, all)
      BY <3>4, <3>5, MergeListsKnown
    <3> QED
      BY <3>2, <3>3, <3>6, NothingKnown DEF HasBoth
  <2> QED
    BY <2>1, <2>2
<1>7. ASSUME NEW source \in sources \cup {added}, NEW c \in Ours, c \in DOMAIN source
      PROVE  c \in DOMAIN merged /\ CodesIn(source[c]) \subseteq CodesIn(merged[c])
  <2>1. CASE source \in sources
    <3>1. c \in DOMAIN base /\ CodesIn(source[c]) \subseteq CodesIn(base[c])
      BY <1>7, <2>1 DEF TableTrue
    <3>2. Of(base, c) = base[c]
      BY <3>1 DEF Of
    <3> QED
      BY <1>5, <1>6, <3>1, <3>2
  <2>2. CASE source = added
    <3>1. Of(added, c) = added[c]
      BY <1>7, <2>2 DEF Of
    <3> QED
      BY <1>5, <1>6, <1>7, <2>2, <3>1
  <2> QED
    BY <2>1, <2>2
<1>8. TableTrue(merged, sources \cup {added}, category, all)
  BY <1>6, <1>7 DEF TableTrue
<1>9. Levelled(merged, category)
  <2>1. CrossCategory \in DOMAIN merged => CodesIn(merged[CrossCategory]) \subseteq CodesIn(cross)
    BY <1>4, <1>6
  <2>2. category \in DOMAIN merged => CodesIn(cross) \subseteq CodesIn(merged[category])
    BY <1>6
  <2> QED
    BY <2>1, <2>2 DEF Levelled
<1> QED
  BY <1>2, <1>8, <1>9

LEMMA SourcesKnown ==
    ASSUME NEW cat \in Catalogues, NEW category, NEW descs \in SourceTables(cat), NEW c \in {category, CrossCategory},
           c \in DOMAIN descs
    PROVE  /\ Known(descs[c], SourceDescriptors(cat, category))
           /\ ToSet(descs[c]) \subseteq SourceDescriptors(cat, category)
<1>1. descs[c] \in Seq(Descriptor)
  BY CatalogueAssumption
<1>2. ToSet(descs[c]) \subseteq SourceDescriptors(cat, category)
  BY DEF SourceDescriptors
<1> QED
  BY <1>1, <1>2 DEF Known, AsIn

(* The sources in the order they are merged.                               *)
LEMMA SourceOrder ==
    ASSUME NEW cat \in Catalogues
    PROVE  /\ cat.accounts \o cat.parsers \in Seq(SourceTables(cat))
           /\ \A descs \in SourceTables(cat) :
                 \/ descs = cat.own
                 \/ \E i \in 1..Len(cat.accounts \o cat.parsers) : descs = (cat.accounts \o cat.parsers)[i]
           /\ CrossCategory \in DOMAIN cat.own => Len(cat.accounts \o cat.parsers) # 0
<1>1. PICK one, two, S : one = cat.accounts /\ two = cat.parsers /\ S = SourceTables(cat)
  OBVIOUS
<1>2. /\ one \in Seq(ToSet(one)) /\ two \in Seq(ToSet(two))
      /\ CrossCategory \in DOMAIN cat.own => one # <<>>
  BY <1>1, CatalogueAssumption
<1>3. S = {cat.own} \cup ToSet(one) \cup ToSet(two)
  BY <1>1 DEF SourceTables
<1>4. one \in Seq(S) /\ two \in Seq(S)
  <2>1. ASSUME NEW A, NEW s \in Seq(A), A \subseteq S PROVE s \in Seq(S)
    <3>1. Len(s) \in Nat /\ s = [i \in 1..Len(s) |-> s[i]] /\ \A i \in 1..Len(s) : s[i] \in S
      BY <2>1
    <3> QED
      BY <3>1
  <2> QED
    BY <1>2, <1>3, <2>1
<1>5. PICK list : list = one \o two
  OBVIOUS
<1>6. /\ list \in Seq(S) /\ Len(list) = Len(one) + Len(two)
      /\ Len(one) \in Nat /\ Len(two) \in Nat
      /\ DOMAIN one = 1..Len(one) /\ DOMAIN two = 1..Len(two)
  BY <1>4, <1>5
<1>7. \A i \in 1..Len(one) : list[i] = one[i]
  BY <1>4, <1>5
<1>8. \A i \in 1..Len(two) : list[Len(one) + i] = two[i]
  BY <1>4, <1>5
<1>9. ASSUME NEW descs \in S, descs # cat.own PROVE \E i \in 1..Len(list) : descs = list[i]
  <2>1. CASE descs \in ToSet(one)
    <3>1. PICK i \in 1..Len(one) : descs = one[i]
      BY <1>6, <2>1 DEF ToSet
    <3>2. i \in 1..Len(list)
      BY <1>6
    <3> QED
      BY <1>7, <3>1, <3>2
  <2>2. CASE descs \in ToSet(two)
    <3>1. PICK i \in 1..Len(two) : descs = two[i]
      BY <1>6, <2>2 DEF ToSet
    <3>2. Len(one) + i \in 1..Len(list)
      BY <1>6
    <3> QED
      BY <1>8, <3>1, <3>2
  <2> QED
    BY <1>3, <1>9, <2>1, <2>2
<1>10. CrossCategory \in DOMAIN cat.own => Len(list) # 0
  <2>1. one # <<>> => Len(one) # 0
    BY <1>4
  <2> QED
    BY <1>2, <1>6, <2>1
<1> QED
  BY <1>1, <1>5, <1>6, <1>9, <1>10

LEMMA PlatformTableTrue ==
    ASSUME NEW cat \in Catalogues, NEW category, OneCode(SourceDescriptors(cat, category))
    PROVE  /\ TableTrue(PlatformTable(cat), SourceTables(cat), category, SourceDescriptors(cat, category))
           /\ Levelled(PlatformTable(cat), category)
<1>1. PICK all, list, n : /\ all = SourceDescriptors(cat, category) /\ list = cat.accounts \o cat.parsers
                          /\ n = Len(cat.accounts \o cat.parsers)
  OBVIOUS
<1>2. /\ list \in Seq(SourceTables(cat)) /\ n = Len(list)
      /\ \A descs \in SourceTables(cat) : descs = cat.own \/ \E i \in 1..n : descs = list[i]
      /\ CrossCategory \in DOMAIN cat.own => n # 0
  BY <1>1, SourceOrder
<1>3. n \in Nat /\ \A i \in 1..n : list[i] \in SourceTables(cat)
  BY <1>2
<1>4. PICK h : TablesMerged(cat, h) /\ PlatformTable(cat) = h[n]
  BY <1>1, <1>2, TableSteps
<1>5. h[0] = cat.own /\ \A k \in 1..n : h[k] = MergeTables(h[k - 1], list[k], cat.compound)
  BY <1>1, <1>4 DEF TablesMerged
<1>6. cat.compound \in BOOLEAN
  BY CatalogueAssumption
<1>7. cat.own \in SourceTables(cat)
  BY DEF SourceTables
<1> DEFINE Joint(k) == {cat.own} \cup {list[i] : i \in 1..k}
           T == {k \in Nat : k <= n => /\ TableTrue(h[k], Joint(k), category, all)
                                       /\ k # 0 => Levelled(h[k], category)}
<1>8. 0 \in T
  <2>1. Joint(0) = {cat.own}
    OBVIOUS
  <2>2. \A c \in {category, CrossCategory} : c \in DOMAIN cat.own => Known(cat.own[c], all)
    BY <1>1, <1>7, SourcesKnown
  <2> QED
    BY <1>5, <2>1, <2>2 DEF TableTrue
<1>9. ASSUME NEW k \in Nat, k \in T PROVE k + 1 \in T
  <2> SUFFICES ASSUME k + 1 <= n
               PROVE  TableTrue(h[k + 1], Joint(k + 1), category, all) /\ Levelled(h[k + 1], category)
    OBVIOUS
  <2>1. k + 1 \in 1..n /\ (k + 1) - 1 = k /\ k <= n
    BY <1>3
  <2>2. TableTrue(h[k], Joint(k), category, all)
    BY <1>9, <2>1
  <2>3. PICK descs \in SourceTables(cat) : descs = list[k + 1]
    BY <1>3, <2>1
  <2>4. h[k + 1] = MergeTables(h[k], descs, cat.compound)
    BY <1>5, <2>1, <2>3
  <2>5. \A c \in {category, CrossCategory} : c \in DOMAIN descs => Known(descs[c], all)
    BY <1>1, SourcesKnown
  <2>6. Joint(k + 1) = Joint(k) \cup {descs}
    <3>1. \A i \in 1..k + 1 : i \in 1..k \/ i = k + 1
      OBVIOUS
    <3>2. \A i \in 1..k : i \in 1..k + 1
      OBVIOUS
    <3>3. k + 1 \in 1..k + 1
      OBVIOUS
    <3> QED
      BY <2>3, <3>1, <3>2, <3>3
  <2>7. OneCode(all)
    BY <1>1
  <2> HIDE DEF Joint
  <2> QED
    BY <1>6, <2>2, <2>4, <2>5, <2>6, <2>7, MergeTablesTrue
<1>10. n \in T
  <2> HIDE DEF T
  <2> QED
    BY <1>3, <1>8, <1>9, NatInduct
<1>11. SourceTables(cat) \subseteq Joint(n)
  BY <1>2
<1>12. TableTrue(h[n], SourceTables(cat), category, all)
  <2>1. TableTrue(h[n], Joint(n), category, all)
    BY <1>3, <1>10
  <2> HIDE DEF Joint
  <2> QED
    BY <1>11, <2>1 DEF TableTrue
<1>13. Levelled(h[n], category)
  <2>1. CASE n = 0
    BY <1>2, <1>5, <2>1 DEF Levelled
  <2>2. CASE n # 0
    BY <1>3, <1>10, <2>2
  <2> QED
    BY <2>1, <2>2
<1> QED
  BY <1>1, <1>4, <1>12, <1>13

(* The list a device is discovered from: it knows the descriptors of the   *)
(* sources only, and reads every code one of them reads.                   *)
LEMMA TableCodes ==
    ASSUME NEW cat \in Catalogues, NEW a \in Appliances
    PROVE  /\ Known(CategoryTable(PlatformTable(cat), Appliance[a].category), SourceDescriptors(cat, Appliance[a].category))
           /\ \A desc \in SourceDescriptors(cat, Appliance[a].category) :
                 CodeOf(desc) \in CodesIn(CategoryTable(PlatformTable(cat), Appliance[a].category))
<1>1. PICK category, all, t : category = Appliance[a].category /\ all = SourceDescriptors(cat, category) /\ t = PlatformTable(cat)
  OBVIOUS
<1>2. OneCode(all)
  BY <1>1, CatalogueAssumption DEF OneCode
<1>3. TableTrue(t, SourceTables(cat), category, all) /\ Levelled(t, category)
  BY <1>1, <1>2, PlatformTableTrue
<1>4. PICK list : list = CategoryTable(t, category)
  OBVIOUS
<1>5. Known(list, all)
  BY <1>3, <1>4, NothingKnown DEF CategoryTable, TableTrue
<1>6. ASSUME NEW desc \in all PROVE CodeOf(desc) \in CodesIn(list)
  <2>1. PICK descs \in SourceTables(cat), c \in {category, CrossCategory} : c \in DOMAIN descs /\ desc \in ToSet(descs[c])
    BY <1>1 DEF SourceDescriptors
  <2>2. CodeOf(desc) \in CodesIn(descs[c])
    BY <2>1 DEF CodesIn
  <2>3. c \in DOMAIN t /\ CodeOf(desc) \in CodesIn(t[c])
    BY <1>3, <2>1, <2>2 DEF TableTrue
  <2>4. CASE c = category
    BY <1>4, <2>3, <2>4 DEF CategoryTable
  <2>5. CASE c = CrossCategory /\ category \in DOMAIN t
    BY <1>3, <1>4, <2>3, <2>5 DEF CategoryTable, Levelled
  <2>6. CASE c = CrossCategory /\ category \notin DOMAIN t
    BY <1>4, <2>3, <2>6 DEF CategoryTable
  <2> QED
    BY <2>1, <2>4, <2>5, <2>6
<1> QED
  BY <1>1, <1>4, <1>5, <1>6

-----------------------------------------------------------------------------
(* What a pass over the descriptors adds                                   *)

(* What is marked as handled and what is shown after some of the           *)
(* descriptors were tried: nothing is taken back; what is new was read by  *)
(* a descriptor, whose key is then taken if its code has a wrapper.        *)
Grows(before, after, descs, wrapped) ==
    /\ before.handled \subseteq after.handled /\ before.entities \subseteq after.entities
    /\ \A h \in after.handled \ before.handled : \E desc \in descs :
          /\ h = <<CodeOf(desc)>> \/ h = <<desc.key, desc.dpcode>>
          /\ CodeOf(desc) \in wrapped => \E e \in after.entities : e.key = desc.key
    /\ \A e \in after.entities \ before.entities : \E desc \in descs :
          e = Entity(desc) /\ <<CodeOf(desc)>> \in after.handled

(* Every code the device reports and a descriptor reads is handled.        *)
Tried(a, handled, descs) == \A desc \in descs : CodeOf(desc) \in Appliance[a].status => <<CodeOf(desc)>> \in handled

LEMMA GrowsSelf == ASSUME NEW found, NEW descs, NEW wrapped PROVE Grows(found, found, descs, wrapped)
  BY DEF Grows

LEMMA GrowsOn ==
    ASSUME NEW one, NEW two, NEW three, NEW descs, NEW wrapped,
           Grows(one, two, descs, wrapped), Grows(two, three, descs, wrapped)
    PROVE  Grows(one, three, descs, wrapped)
<1>1. one.handled \subseteq three.handled /\ one.entities \subseteq three.entities
  BY DEF Grows
<1>2. ASSUME NEW h \in three.handled \ one.handled
      PROVE  \E desc \in descs : /\ h = <<CodeOf(desc)>> \/ h = <<desc.key, desc.dpcode>>
                                 /\ CodeOf(desc) \in wrapped => \E e \in three.entities : e.key = desc.key
  <2>1. CASE h \in two.handled
    <3>1. PICK desc \in descs : /\ h = <<CodeOf(desc)>> \/ h = <<desc.key, desc.dpcode>>
                                /\ CodeOf(desc) \in wrapped => \E e \in two.entities : e.key = desc.key
      BY <1>2, <2>1 DEF Grows
    <3>2. two.entities \subseteq three.entities
      BY DEF Grows
    <3>3. CodeOf(desc) \in wrapped => \E e \in three.entities : e.key = desc.key
      BY <3>1, <3>2
    <3> QED
      BY <3>1, <3>3
  <2>2. CASE h \notin two.handled
    BY <1>2, <2>2 DEF Grows
  <2> QED
    BY <2>1, <2>2
<1>3. ASSUME NEW e \in three.entities \ one.entities
      PROVE  \E desc \in descs : e = Entity(desc) /\ <<CodeOf(desc)>> \in three.handled
  <2>1. CASE e \in two.entities
    <3>1. PICK desc \in descs : e = Entity(desc) /\ <<CodeOf(desc)>> \in two.handled
      BY <1>3, <2>1 DEF Grows
    <3>2. two.handled \subseteq three.handled
      BY DEF Grows
    <3> QED
      BY <3>1, <3>2
  <2>2. CASE e \notin two.entities
    BY <1>3, <2>2 DEF Grows
  <2> QED
    BY <2>1, <2>2
<1> QED
  BY <1>1, <1>2, <1>3 DEF Grows

(* What a supported descriptor marks.                                      *)
LEMMA Registered ==
    ASSUME NEW desc, NEW handled, NEW compound \in BOOLEAN
    PROVE  /\ handled \subseteq RegisterHandled(desc, handled, compound)
           /\ <<CodeOf(desc)>> \in RegisterHandled(desc, handled, compound)
           /\ \A h \in RegisterHandled(desc, handled, compound) :
                 h \in handled \/ h = <<CodeOf(desc)>> \/ h = <<desc.key, desc.dpcode>>
<1>1. CompoundKey(desc, TRUE) = <<CodeOf(desc)>> \/ CompoundKey(desc, TRUE) = <<desc.key, desc.dpcode>>
  BY DEF CompoundKey, CodeOf
<1>2. CASE compound
  <2>1. compound = TRUE
    BY <1>2
  <2> QED
    BY <1>1, <2>1 DEF RegisterHandled
<1>3. CASE ~compound
  <2>1. RegisterHandled(desc, handled, compound) = handled \cup {<<CodeOf(desc)>>}
    BY <1>3 DEF RegisterHandled
  <2> QED
    BY <2>1
<1> QED
  BY <1>2, <1>3

LEMMA Added ==
    ASSUME NEW entities, NEW entity
    PROVE  /\ entities \subseteq AddEntity(entities, entity)
           /\ \A e \in AddEntity(entities, entity) : e \in entities \/ e = entity
           /\ \E e \in AddEntity(entities, entity) : e.key = entity.key
  BY DEF AddEntity

LEMMA TryGrows ==
    ASSUME NEW a, NEW descs, NEW desc \in descs, NEW compound \in BOOLEAN, NEW first \in BOOLEAN, NEW found
    PROVE  Grows(found, Try(a, desc, compound, first, found), descs, Appliance[a].described)
<1>1. CASE ~Supports(a, desc, found.handled, compound, first)
  BY <1>1, GrowsSelf DEF Try
<1>2. CASE Supports(a, desc, found.handled, compound, first)
  <2>1. PICK handled, entities : /\ handled = RegisterHandled(desc, found.handled, compound)
                                 /\ entities = IF CodeOf(desc) \in Appliance[a].described
                                               THEN AddEntity(found.entities, Entity(desc)) ELSE found.entities
    OBVIOUS
  <2>2. PICK new : new = [handled |-> handled, entities |-> entities]
    OBVIOUS
  <2>3. new.handled = handled /\ new.entities = entities
    BY <2>2
  <2>4. Try(a, desc, compound, first, found) = new
    BY <1>2, <2>1, <2>2 DEF Try
  <2>5. /\ found.handled \subseteq handled /\ <<CodeOf(desc)>> \in handled
        /\ \A h \in handled : h \in found.handled \/ h = <<CodeOf(desc)>> \/ h = <<desc.key, desc.dpcode>>
    BY <2>1, Registered
  <2>6. Entity(desc).key = desc.key
    BY DEF Entity
  <2>7. /\ found.entities \subseteq entities
        /\ \A e \in entities : e \in found.entities \/ e = Entity(desc)
        /\ CodeOf(desc) \in Appliance[a].described => \E e \in entities : e.key = desc.key
    <3>1. CASE CodeOf(desc) \in Appliance[a].described
      <4>1. entities = AddEntity(found.entities, Entity(desc))
        BY <2>1, <3>1
      <4> QED
        BY <2>6, <4>1, Added
    <3>2. CASE CodeOf(desc) \notin Appliance[a].described
      BY <2>1, <3>2
    <3> QED
      BY <3>1, <3>2
  <2>8. Grows(found, new, descs, Appliance[a].described)
    <3>1. \A h \in new.handled \ found.handled :
             /\ h = <<CodeOf(desc)>> \/ h = <<desc.key, desc.dpcode>>
             /\ CodeOf(desc) \in Appliance[a].described => \E e \in new.entities : e.key = desc.key
      BY <2>3, <2>5, <2>7
    <3>2. \A e \in new.entities \ found.entities : e = Entity(desc) /\ <<CodeOf(desc)>> \in new.handled
      BY <2>3, <2>5, <2>7
    <3> QED
      BY <2>3, <2>5, <2>7, <3>1, <3>2 DEF Grows
  <2> QED
    BY <2>4, <2>8
<1> QED
  BY <1>1, <1>2

(* On the first pass a reported code is handled then.                      *)
LEMMA TryHandles ==
    ASSUME NEW a, NEW desc, NEW compound \in BOOLEAN, NEW found, CodeOf(desc) \in Appliance[a].status
    PROVE  <<CodeOf(desc)>> \in Try(a, desc, compound, TRUE, found).handled
<1>1. CASE ~Supports(a, desc, found.handled, compound, TRUE)
  <2>1. <<CodeOf(desc)>> \in found.handled
    BY <1>1 DEF Supports, Blocked
  <2> QED
    BY <1>1, <2>1 DEF Try
<1>2. CASE Supports(a, desc, found.handled, compound, TRUE)
  <2>1. Try(a, desc, compound, TRUE, found).handled = RegisterHandled(desc, found.handled, compound)
    BY <1>2 DEF Try
  <2> QED
    BY <2>1, Registered
<1> QED
  BY <1>1, <1>2

LEMMA PassGrows ==
    ASSUME NEW a, NEW descs \in Seq(Descriptor), NEW compound \in BOOLEAN, NEW first \in BOOLEAN, NEW before
    PROVE  /\ Grows(before, Pass(a, descs, compound, first, before), ToSet(descs), Appliance[a].described)
           /\ first => Tried(a, Pass(a, descs, compound, first, before).handled, ToSet(descs))
<1>1. DOMAIN descs = 1..Len(descs) /\ Len(descs) \in Nat
  OBVIOUS
<1>2. PICK h : Passed(a, descs, compound, first, before, h) /\ Pass(a, descs, compound, first, before) = h[Len(descs)]
  BY PassSteps
<1>3. h[0] = before /\ \A k \in 1..Len(descs) : h[k] = Try(a, descs[k], compound, first, h[k - 1])
  BY <1>2 DEF Passed
<1> DEFINE Handled(k) == \A i \in 1..k : CodeOf(descs[i]) \in Appliance[a].status => <<CodeOf(descs[i])>> \in h[k].handled
           T == {k \in Nat : k <= Len(descs) => /\ Grows(before, h[k], ToSet(descs), Appliance[a].described)
                                                /\ first => Handled(k)}
<1>4. 0 \in T
  <2>1. Grows(before, h[0], ToSet(descs), Appliance[a].described)
    BY <1>3, GrowsSelf
  <2> QED
    BY <2>1
<1>5. ASSUME NEW k \in Nat, k \in T PROVE k + 1 \in T
  <2> SUFFICES ASSUME k + 1 <= Len(descs)
               PROVE  Grows(before, h[k + 1], ToSet(descs), Appliance[a].described) /\ (first => Handled(k + 1))
    OBVIOUS
  <2>1. k + 1 \in 1..Len(descs) /\ (k + 1) - 1 = k /\ k <= Len(descs)
    BY <1>1
  <2>2. PICK desc \in ToSet(descs) : desc = descs[k + 1]
    BY <1>1, <2>1 DEF ToSet
  <2>3. h[k + 1] = Try(a, desc, compound, first, h[k])
    BY <1>3, <2>1, <2>2
  <2>4. Grows(h[k], h[k + 1], ToSet(descs), Appliance[a].described)
    BY <2>3, TryGrows
  <2>5. Grows(before, h[k], ToSet(descs), Appliance[a].described)
    BY <1>5, <2>1
  <2>6. Grows(before, h[k + 1], ToSet(descs), Appliance[a].described)
    BY <2>4, <2>5, GrowsOn
  <2>7. ASSUME first PROVE Handled(k + 1)
    <3>1. first = TRUE
      BY <2>7
    <3>2. h[k].handled \subseteq h[k + 1].handled
      BY <2>4 DEF Grows
    <3>3. Handled(k)
      BY <1>5, <2>1, <2>7
    <3>4. CodeOf(desc) \in Appliance[a].status => <<CodeOf(desc)>> \in h[k + 1].handled
      BY <2>3, <3>1, TryHandles
    <3>5. \A i \in 1..k + 1 : i \in 1..k \/ i = k + 1
      OBVIOUS
    <3> QED
      BY <2>2, <3>2, <3>3, <3>4, <3>5
  <2> QED
    BY <2>6, <2>7
<1>6. Len(descs) \in T
  <2> HIDE DEF T
  <2> QED
    BY <1>1, <1>4, <1>5, NatInduct
<1>7. Grows(before, h[Len(descs)], ToSet(descs), Appliance[a].described) /\ (first => Handled(Len(descs)))
  BY <1>1, <1>6
<1>8. first => Tried(a, h[Len(descs)].handled, ToSet(descs))
  BY <1>1, <1>7 DEF Tried, ToSet
<1> QED
  BY <1>2, <1>7, <1>8

(* Both passes.                                                            *)
LEMMA FoundGrows ==
    ASSUME NEW a, NEW descs, NEW list \in Seq(Descriptor), list = CategoryTable(descs, Appliance[a].category),
           catalogue.compound \in BOOLEAN
    PROVE  /\ Grows([handled |-> handledBy[a], entities |-> entitiesOf[a]], Found(a, descs), ToSet(list),
                    Appliance[a].described)
           /\ Tried(a, Found(a, descs).handled, ToSet(list))
<1>1. PICK before : before = [handled |-> handledBy[a], entities |-> entitiesOf[a]]
  OBVIOUS
<1>2. PICK compound \in BOOLEAN : compound = catalogue.compound
  OBVIOUS
<1>3. PICK one : one = Pass(a, list, compound, TRUE, before)
  OBVIOUS
<1>4. PICK two : two = Pass(a, list, compound, FALSE, one)
  OBVIOUS
<1>5. Found(a, descs) = two
  BY <1>1, <1>2, <1>3, <1>4 DEF Found
<1>6. Grows(before, one, ToSet(list), Appliance[a].described) /\ Tried(a, one.handled, ToSet(list))
  BY <1>3, PassGrows
<1>7. Grows(one, two, ToSet(list), Appliance[a].described)
  BY <1>4, PassGrows
<1>8. Grows(before, two, ToSet(list), Appliance[a].described)
  BY <1>6, <1>7, GrowsOn
<1>9. Tried(a, two.handled, ToSet(list))
  BY <1>6, <1>7 DEF Grows, Tried
<1> QED
  BY <1>1, <1>5, <1>8, <1>9

-----------------------------------------------------------------------------
(* One device                                                              *)

DescsOf(cat, a) == ToSet(CategoryTable(PlatformTable(cat), Appliance[a].category))
Suiting(a) == Appliance[a].status \cap Appliance[a].suited
Official(cat, a, code) == a \in AtSetup /\ ~cat.overridden /\ code \in Appliance[a].official

(* Its descriptors: a key has one code, its own if generic entities suit.  *)
TableFit(a, descs) ==
    OneCode(descs) /\ \A desc \in descs : desc.key \in Suiting(a) => CodeOf(desc) = desc.key

(* Its entities: one of a descriptor has its code handled; a generic one   *)
(* was made for a code that nothing handled when every descriptor had been *)
(* tried, and nothing has handled it since.                                *)
EntitiesTrue(a, handled, entities, descs) ==
    \A e \in entities :
        \/ e.generic = FALSE /\ <<e.code>> \in handled /\ \E desc \in descs : e = Entity(desc)
        \/ /\ e = GenericEntity(e.code) /\ e.generic = TRUE /\ e.code \in Suiting(a)
           /\ <<e.code>> \notin handled /\ Tried(a, handled, descs)

(* A handled code that has a wrapper is shown, by official Tuya or here.   *)
ShownTrue(cat, a, handled, entities) ==
    \A code \in Appliance[a].status \cap Appliance[a].described :
        <<code>> \in handled => Official(cat, a, code) \/ \E e \in entities : e.code = code

(* The descriptors were tried, and the generic entities are there.         *)
Covered(a, handled, entities, descs) ==
    /\ Tried(a, handled, descs)
    /\ \A code \in Suiting(a) \cap Appliance[a].described : <<code>> \in handled \/ \E e \in entities : e.code = code

LEMMA DescsFit ==
    ASSUME NEW cat \in Catalogues, NEW a \in Appliances
    PROVE  /\ TableFit(a, DescsOf(cat, a))
           /\ \A desc \in SourceDescriptors(cat, Appliance[a].category) :
                 \E other \in DescsOf(cat, a) : CodeOf(other) = CodeOf(desc)
<1>1. PICK list, all : /\ list = CategoryTable(PlatformTable(cat), Appliance[a].category)
                       /\ all = SourceDescriptors(cat, Appliance[a].category)
  OBVIOUS
<1>2. Known(list, all) /\ \A desc \in all : CodeOf(desc) \in CodesIn(list)
  BY <1>1, TableCodes
<1>3. OneCode(all) /\ \A desc \in all : desc.key \in Suiting(a) => CodeOf(desc) = desc.key
  BY <1>1, CatalogueAssumption DEF OneCode, Suiting
<1>4. DescsOf(cat, a) = ToSet(list)
  BY <1>1 DEF DescsOf
<1>5. \A desc \in ToSet(list) : AsIn(desc, all)
  BY <1>2 DEF Known
<1>6. OneCode(ToSet(list))
  <2> SUFFICES ASSUME NEW one \in ToSet(list), NEW other \in ToSet(list), one.key = other.key
               PROVE  CodeOf(one) = CodeOf(other)
    BY DEF OneCode
  <2> QED
    BY <1>3, <1>5, KnownCode
<1>7. ASSUME NEW desc \in ToSet(list), desc.key \in Suiting(a) PROVE CodeOf(desc) = desc.key
  <2>1. PICK other \in all : desc.key = other.key /\ desc.dpcode = other.dpcode
    BY <1>5 DEF AsIn
  <2>2. CodeOf(other) = other.key
    BY <1>3, <1>7, <2>1
  <2> QED
    BY <2>1, <2>2 DEF CodeOf
<1>8. \A desc \in all : \E other \in ToSet(list) : CodeOf(other) = CodeOf(desc)
  BY <1>2 DEF CodesIn
<1> QED
  BY <1>1, <1>4, <1>6, <1>7, <1>8 DEF TableFit

LEMMA GrowsTried ==
    ASSUME NEW a, NEW descs, NEW wrapped, NEW before, NEW after, Grows(before, after, descs, wrapped),
           Tried(a, before.handled, descs)
    PROVE  Tried(a, after.handled, descs)
  BY DEF Grows, Tried

(* Trying the descriptors again keeps what was true of the entities ...    *)
LEMMA GrowsTrue ==
    ASSUME NEW a, NEW descs, NEW wrapped, NEW before, NEW after, Grows(before, after, descs, wrapped),
           EntitiesTrue(a, before.handled, before.entities, descs)
    PROVE  EntitiesTrue(a, after.handled, after.entities, descs)
<1>1. before.handled \subseteq after.handled
  BY DEF Grows
<1>2. SUFFICES ASSUME NEW e \in after.entities
      PROVE \/ e.generic = FALSE /\ <<e.code>> \in after.handled /\ \E desc \in descs : e = Entity(desc)
            \/ /\ e = GenericEntity(e.code) /\ e.generic = TRUE /\ e.code \in Suiting(a)
               /\ <<e.code>> \notin after.handled /\ Tried(a, after.handled, descs)
  BY DEF EntitiesTrue
<1>3. CASE e \notin before.entities
  <2>1. PICK desc \in descs : e = Entity(desc) /\ <<CodeOf(desc)>> \in after.handled
    BY <1>3 DEF Grows
  <2>2. e.generic = FALSE /\ e.code = CodeOf(desc)
    BY <2>1 DEF Entity
  <2> QED
    BY <2>1, <2>2
<1>4. CASE e \in before.entities
  <2>1. CASE e.generic = FALSE /\ <<e.code>> \in before.handled /\ \E desc \in descs : e = Entity(desc)
    BY <1>1, <2>1
  <2>2. CASE /\ e = GenericEntity(e.code) /\ e.generic = TRUE /\ e.code \in Suiting(a)
             /\ <<e.code>> \notin before.handled /\ Tried(a, before.handled, descs)
    <3>1. Tried(a, after.handled, descs)
      BY <2>2, GrowsTried
    <3>2. <<e.code>> \notin after.handled
      <4> SUFFICES ASSUME <<e.code>> \in after.handled PROVE FALSE
        OBVIOUS
      <4>1. PICK desc \in descs : <<e.code>> = <<CodeOf(desc)>> \/ <<e.code>> = <<desc.key, desc.dpcode>>
        BY <2>2 DEF Grows
      <4>2. \A x, y, z : <<x>> # <<y, z>> /\ (<<x>> = <<y>> => x = y)
        <5>1. \A x, y, z : Len(<<x>>) = 1 /\ Len(<<y, z>>) = 2 /\ <<x>>[1] = x
          OBVIOUS
        <5> QED
          BY <5>1
      <4>3. CodeOf(desc) = e.code
        BY <4>1, <4>2
      <4>4. e.code \in Appliance[a].status
        BY <2>2 DEF Suiting
      <4> QED
        BY <2>2, <4>3, <4>4 DEF Tried
    <3> QED
      BY <2>2, <3>1, <3>2
  <2> QED
    BY <1>4, <2>1, <2>2 DEF EntitiesTrue
<1> QED
  BY <1>3, <1>4

(* An entity that has the key of a descriptor shows its code.              *)
LEMMA KeyShows ==
    ASSUME NEW a, NEW descs, TableFit(a, descs), NEW handled, NEW entities, EntitiesTrue(a, handled, entities, descs),
           NEW e \in entities, NEW desc \in descs, e.key = desc.key
    PROVE  e.code = CodeOf(desc)
<1>1. CASE e.generic = FALSE /\ \E other \in descs : e = Entity(other)
  <2>1. PICK other \in descs : e = Entity(other)
    BY <1>1
  <2>2. e.key = other.key /\ e.code = CodeOf(other)
    BY <2>1 DEF Entity
  <2>3. CodeOf(other) = CodeOf(desc)
    BY <2>2 DEF TableFit, OneCode
  <2> QED
    BY <2>2, <2>3
<1>2. CASE e = GenericEntity(e.code) /\ e.code \in Suiting(a)
  <2>1. e.key = e.code
    BY <1>2 DEF GenericEntity
  <2>2. CodeOf(desc) = desc.key
    BY <1>2, <2>1 DEF TableFit
  <2> QED
    BY <2>1, <2>2
<1> QED
  BY <1>1, <1>2 DEF EntitiesTrue

(* ... and what is handled is shown.                                       *)
LEMMA GrowsShown ==
    ASSUME NEW cat, NEW a, NEW descs, TableFit(a, descs), NEW before, NEW after,
           Grows(before, after, descs, Appliance[a].described),
           EntitiesTrue(a, before.handled, before.entities, descs), ShownTrue(cat, a, before.handled, before.entities)
    PROVE  ShownTrue(cat, a, after.handled, after.entities)
<1>1. before.entities \subseteq after.entities
  BY DEF Grows
<1>2. EntitiesTrue(a, after.handled, after.entities, descs)
  BY GrowsTrue
<1>3. SUFFICES ASSUME NEW code \in Appliance[a].status \cap Appliance[a].described, <<code>> \in after.handled
      PROVE  Official(cat, a, code) \/ \E e \in after.entities : e.code = code
  BY DEF ShownTrue
<1>4. CASE <<code>> \in before.handled
  BY <1>1, <1>4 DEF ShownTrue
<1>5. CASE <<code>> \notin before.handled
  <2>1. PICK desc \in descs : /\ <<code>> = <<CodeOf(desc)>> \/ <<code>> = <<desc.key, desc.dpcode>>
                              /\ CodeOf(desc) \in Appliance[a].described => \E e \in after.entities : e.key = desc.key
    BY <1>3, <1>5 DEF Grows
  <2>2. \A x, y, z : <<x>> # <<y, z>> /\ (<<x>> = <<y>> => x = y)
    <3>1. \A x, y, z : Len(<<x>>) = 1 /\ Len(<<y, z>>) = 2 /\ <<x>>[1] = x
      OBVIOUS
    <3> QED
      BY <3>1
  <2>3. CodeOf(desc) = code
    BY <2>1, <2>2
  <2>4. PICK e \in after.entities : e.key = desc.key
    BY <2>1, <2>3
  <2>5. e.code = CodeOf(desc)
    BY <1>2, <2>4, KeyShows
  <2> QED
    BY <2>3, <2>5
<1> QED
  BY <1>4, <1>5

LEMMA GrowsCovered ==
    ASSUME NEW a, NEW descs, NEW wrapped, NEW before, NEW after, Grows(before, after, descs, wrapped),
           Covered(a, before.handled, before.entities, descs)
    PROVE  Covered(a, after.handled, after.entities, descs)
<1>1. Tried(a, after.handled, descs)
  BY GrowsTried DEF Covered
<1>2. before.handled \subseteq after.handled /\ before.entities \subseteq after.entities
  BY DEF Grows
<1> QED
  BY <1>1, <1>2 DEF Covered

(* The generic entities of a device whose descriptors were tried.          *)
LEMMA GenericTrue ==
    ASSUME NEW a, NEW descs, TableFit(a, descs), Tried(a, handledBy[a], descs),
           EntitiesTrue(a, handledBy[a], entitiesOf[a], descs)
    PROVE  /\ entitiesOf[a] \subseteq WithGeneric(a)
           /\ EntitiesTrue(a, handledBy[a], WithGeneric(a), descs)
           /\ Covered(a, handledBy[a], WithGeneric(a), descs)
<1> DEFINE Free(code) == \A other \in entitiesOf[a] : other.key # code
<1>1. PICK entities, handled : entities = entitiesOf[a] /\ handled = handledBy[a]
  OBVIOUS
<1>2. PICK more : more = WithGeneric(a)
  OBVIOUS
<1>3. /\ entities \subseteq more
      /\ \A code \in Suiting(a) \cap Appliance[a].described :
            <<code>> \notin handled /\ (\A other \in entities : other.key # code) => GenericEntity(code) \in more
      /\ \A e \in more \ entities : \E code \in Suiting(a) : e = GenericEntity(code) /\ <<code>> \notin handled
  BY <1>1, <1>2 DEF WithGeneric, GenericCodes, Suiting
<1>4. ASSUME NEW e \in more
      PROVE \/ e.generic = FALSE /\ <<e.code>> \in handled /\ \E desc \in descs : e = Entity(desc)
            \/ /\ e = GenericEntity(e.code) /\ e.generic = TRUE /\ e.code \in Suiting(a)
               /\ <<e.code>> \notin handled /\ Tried(a, handled, descs)
  <2>1. CASE e \in entities
    BY <1>1, <2>1 DEF EntitiesTrue
  <2>2. CASE e \notin entities
    <3>1. PICK code \in Suiting(a) : e = GenericEntity(code) /\ <<code>> \notin handled
      BY <1>3, <2>2
    <3>2. e.code = code /\ e.generic = TRUE
      BY <3>1 DEF GenericEntity
    <3> QED
      BY <1>1, <3>1, <3>2
  <2> QED
    BY <2>1, <2>2
<1>5. EntitiesTrue(a, handled, more, descs)
  BY <1>4 DEF EntitiesTrue
<1>6. ASSUME NEW code \in Suiting(a) \cap Appliance[a].described, <<code>> \notin handled
      PROVE  \E e \in more : e.code = code
  <2>1. CASE \A other \in entities : other.key # code
    <3>1. GenericEntity(code) \in more
      BY <1>3, <1>6, <2>1
    <3>2. GenericEntity(code).code = code
      BY DEF GenericEntity
    <3> QED
      BY <3>1, <3>2
  <2>2. CASE \E other \in entities : other.key = code
    <3>1. PICK other \in entities : other.key = code
      BY <2>2
    <3>2. CASE other.generic = FALSE /\ \E desc \in descs : other = Entity(desc)
      <4>1. PICK desc \in descs : other = Entity(desc)
        BY <3>2
      <4>2. other.key = desc.key /\ other.code = CodeOf(desc)
        BY <4>1 DEF Entity
      <4>3. CodeOf(desc) = desc.key
        BY <3>1, <4>2 DEF TableFit
      <4> QED
        BY <1>3, <3>1, <4>2, <4>3
    <3>3. CASE other = GenericEntity(other.code)
      <4>1. other.key = other.code
        BY <3>3 DEF GenericEntity
      <4> QED
        BY <1>3, <3>1, <4>1
    <3> QED
      BY <1>1, <3>2, <3>3 DEF EntitiesTrue
  <2> QED
    BY <2>1, <2>2
<1>7. Covered(a, handled, more, descs)
  BY <1>1, <1>6 DEF Covered
<1> QED
  BY <1>1, <1>2, <1>3, <1>5, <1>7

LEMMA MoreShown ==
    ASSUME NEW cat, NEW a, NEW handled, NEW entities, NEW more, entities \subseteq more,
           ShownTrue(cat, a, handled, entities)
    PROVE  ShownTrue(cat, a, handled, more)
  BY DEF ShownTrue

-----------------------------------------------------------------------------
(* The inductive invariant                                                 *)

Call == [kind : {"discover", "generic", "remove", "remotes", "cameras"}, devices : SUBSET Appliances]
Bindings == {NoBinding} \cup [step : {"fetch", "announce"}, device : Appliances]
Beginning == {"register", "parsers", "platforms"}

FoundTyped ==
    /\ setup \in Stages /\ catalogue \in Catalogues
    /\ inMap \subseteq Appliances /\ unbound \subseteq inMap
    /\ toRun["early"] \in Seq(Call) /\ toRun["last"] \in Seq(Call) /\ jobs \in Seq(Call)
    /\ \A job \in ToSet(jobs) : job.kind \in {"discover", "generic", "remove"}
    /\ turn \in [priority : Priorities, next : Nat]
    /\ turn.next \in 1..Len(toRun[turn.priority]) + 1
    /\ binder \in [Binders -> Bindings]

(* Before the platform is set up nothing listens and nothing is shown;     *)
(* from then on its table is the merged one.                               *)
AtFirst ==
    /\ setup \in Beginning =>
          /\ inMap = AtSetup /\ \A a \in Appliances : entitiesOf[a] = {}
          /\ toRun["early"] = <<>> /\ toRun["last"] = <<>> /\ jobs = <<>>
          /\ \A b \in Binders : binder[b] = NoBinding
    /\ setup \notin {"register", "parsers"} => table = PlatformTable(catalogue)

OfficialHandled ==
    setup # "register" =>
        \A a \in Appliances : \A code : Official(catalogue, a, code) => <<code>> \in handledBy[a]

DevicesTrue ==
    \A a \in Appliances :
        /\ EntitiesTrue(a, handledBy[a], entitiesOf[a], DescsOf(catalogue, a))
        /\ a \notin unbound => ShownTrue(catalogue, a, handledBy[a], entitiesOf[a])

(* What waits to be called: the devices are in the master map; those that  *)
(* are to get generic entities have had every descriptor tried; those that *)
(* are to be taken away are removed.                                       *)
CallTrue(call) ==
    /\ call.devices \subseteq inMap
    /\ call.kind = "generic" => \A a \in call.devices : Tried(a, handledBy[a], DescsOf(catalogue, a))
    /\ call.kind = "remove" => call.devices \subseteq unbound
AllCalls == ToSet(toRun["early"]) \cup ToSet(toRun["last"]) \cup ToSet(jobs)
CallsTrue ==
    /\ \A call \in AllCalls : CallTrue(call)
    /\ \A b \in Binders : binder[b].step = "announce" => binder[b].device \in inMap

(* A device without its entities is announced, to be discovered or to get  *)
(* its generic entities.                                                   *)
LeftOf(queue, n) == {queue[i] : i \in {j \in DOMAIN queue : j >= n}}
Left == LeftOf(toRun["last"], IF turn.priority = "last" THEN turn.next ELSE 1)
Due == ToSet(jobs) \cup (IF setup = "ready" THEN {} ELSE Left)
Planned(a) ==
    \/ Covered(a, handledBy[a], entitiesOf[a], DescsOf(catalogue, a))
    \/ \E b \in Binders : binder[b].step = "announce" /\ binder[b].device = a
    \/ \E job \in ToSet(jobs) : job.kind = "discover" /\ a \in job.devices
    \/ \E call \in Due : call.kind = "generic" /\ a \in call.devices
AllPlanned == setup \notin Beginning => \A a \in inMap \ unbound : Planned(a)

FoundInv == FoundTyped /\ AtFirst /\ OfficialHandled /\ DevicesTrue /\ CallsTrue /\ AllPlanned

(* Queues.                                                                 *)
LEMMA HeadAndRest ==
    ASSUME NEW S, NEW queue \in Seq(S), queue # <<>>
    PROVE  /\ Head(queue) \in ToSet(queue) /\ Tail(queue) \in Seq(S)
           /\ ToSet(queue) = {Head(queue)} \cup ToSet(Tail(queue))
<1>1. PICK rest : rest = Tail(queue)
  OBVIOUS
<1>2. Len(queue) \in Nat /\ Len(queue) # 0 /\ DOMAIN queue = 1..Len(queue)
  OBVIOUS
<1>3. rest \in Seq(S) /\ Len(rest) = Len(queue) - 1
  BY <1>1, <1>2
<1>4. DOMAIN rest = 1..(Len(queue) - 1)
  BY <1>3
<1>5. \A i \in 1..(Len(queue) - 1) : rest[i] = queue[i + 1]
  BY <1>1, <1>2
<1>6. Head(queue) = queue[1] /\ 1 \in DOMAIN queue
  BY <1>2
<1>7. ASSUME NEW x \in ToSet(queue) PROVE x \in {Head(queue)} \cup ToSet(rest)
  <2>1. PICK i \in DOMAIN queue : x = queue[i]
    BY DEF ToSet
  <2>2. CASE i = 1
    BY <1>6, <2>1, <2>2
  <2>3. CASE i # 1
    <3>1. i - 1 \in 1..(Len(queue) - 1) /\ (i - 1) + 1 = i
      BY <1>2, <2>1, <2>3
    <3>2. rest[i - 1] = x
      BY <1>5, <2>1, <3>1
    <3> QED
      BY <1>4, <3>1, <3>2 DEF ToSet
  <2> QED
    BY <2>2, <2>3
<1>8. ASSUME NEW x \in ToSet(rest) PROVE x \in ToSet(queue)
  <2>1. PICK i \in 1..(Len(queue) - 1) : x = rest[i]
    BY <1>4 DEF ToSet
  <2>2. i + 1 \in DOMAIN queue
    BY <1>2
  <2> QED
    BY <1>5, <2>1, <2>2 DEF ToSet
<1>9. Head(queue) \in ToSet(queue)
  BY <1>6 DEF ToSet
<1> QED
  BY <1>1, <1>3, <1>7, <1>8, <1>9

LEMMA JoinedSet ==
    ASSUME NEW S, NEW one \in Seq(S), NEW two \in Seq(S)
    PROVE  one \o two \in Seq(S) /\ ToSet(one \o two) = ToSet(one) \cup ToSet(two)
<1>1. PICK both : both = one \o two
  OBVIOUS
<1>2. /\ Len(one) \in Nat /\ Len(two) \in Nat /\ DOMAIN one = 1..Len(one) /\ DOMAIN two = 1..Len(two)
      /\ both \in Seq(S) /\ Len(both) = Len(one) + Len(two)
  BY <1>1
<1>3. DOMAIN both = 1..(Len(one) + Len(two))
  BY <1>2
<1>4. \A i \in 1..(Len(one) + Len(two)) : both[i] = IF i <= Len(one) THEN one[i] ELSE two[i - Len(one)]
  BY <1>1, <1>2
<1>5. ASSUME NEW x \in ToSet(both) PROVE x \in ToSet(one) \cup ToSet(two)
  <2>1. PICK i \in 1..(Len(one) + Len(two)) : x = both[i]
    BY <1>3 DEF ToSet
  <2>2. CASE i <= Len(one)
    <3>1. i \in DOMAIN one
      BY <1>2, <2>2
    <3> QED
      BY <1>4, <2>1, <2>2, <3>1 DEF ToSet
  <2>3. CASE ~(i <= Len(one))
    <3>1. i - Len(one) \in DOMAIN two
      BY <1>2, <2>3
    <3> QED
      BY <1>4, <2>1, <2>3, <3>1 DEF ToSet
  <2> QED
    BY <2>2, <2>3
<1>6. ASSUME NEW x \in ToSet(one) PROVE x \in ToSet(both)
  <2>1. PICK i \in DOMAIN one : x = one[i]
    BY DEF ToSet
  <2>2. i \in 1..(Len(one) + Len(two)) /\ i <= Len(one)
    BY <1>2, <2>1
  <2> QED
    BY <1>3, <1>4, <2>1, <2>2 DEF ToSet
<1>7. ASSUME NEW x \in ToSet(two) PROVE x \in ToSet(both)
  <2>1. PICK i \in DOMAIN two : x = two[i]
    BY DEF ToSet
  <2>2. i + Len(one) \in 1..(Len(one) + Len(two)) /\ ~(i + Len(one) <= Len(one)) /\ (i + Len(one)) - Len(one) = i
    BY <1>2, <2>1
  <2> QED
    BY <1>3, <1>4, <2>1, <2>2 DEF ToSet
<1> QED
  BY <1>1, <1>2, <1>5, <1>6, <1>7

LEMMA NoneSet == \A S : <<>> \in Seq(S) /\ ToSet(<<>>) = {}
  BY DEF ToSet

LEMMA OneSet ==
    ASSUME NEW S, NEW one \in S, NEW list, list = <<one>>
    PROVE  list \in Seq(S) /\ ToSet(list) = {one}
<1>1. list \in Seq(S) /\ list[1] = one /\ DOMAIN list = {1}
  OBVIOUS
<1> QED
  BY <1>1 DEF ToSet

LEMMA PairSet ==
    ASSUME NEW S, NEW one \in S, NEW two \in S, NEW pair, pair = <<one, two>>
    PROVE  pair \in Seq(S) /\ ToSet(pair) = {one, two}
<1>1. pair \in Seq(S) /\ Len(pair) = 2 /\ pair[1] = one /\ pair[2] = two
  OBVIOUS
<1>2. DOMAIN pair = 1..2
  BY <1>1
<1>3. DOMAIN pair = {1, 2}
  BY <1>2
<1> QED
  BY <1>1, <1>3 DEF ToSet

(* What is left of a queue: all that is appended, and after each call the  *)
(* rest.                                                                   *)
LEMMA LeftGrows ==
    ASSUME NEW S, NEW one \in Seq(S), NEW two \in Seq(S), NEW n \in 1..Len(one) + 1
    PROVE  LeftOf(one, n) \subseteq LeftOf(one \o two, n) /\ ToSet(two) \subseteq LeftOf(one \o two, n)
<1>1. PICK both : both = one \o two
  OBVIOUS
<1>2. /\ Len(one) \in Nat /\ Len(two) \in Nat /\ DOMAIN one = 1..Len(one) /\ DOMAIN two = 1..Len(two)
      /\ both \in Seq(S) /\ Len(both) = Len(one) + Len(two)
  BY <1>1
<1>3. DOMAIN both = 1..(Len(one) + Len(two))
  BY <1>2
<1>4. \A i \in 1..(Len(one) + Len(two)) : both[i] = IF i <= Len(one) THEN one[i] ELSE two[i - Len(one)]
  BY <1>1, <1>2
<1>5. n \in Nat
  BY <1>2
<1>6. ASSUME NEW x \in LeftOf(one, n) PROVE x \in LeftOf(both, n)
  <2>1. PICK i \in DOMAIN one : x = one[i] /\ i >= n
    BY DEF LeftOf
  <2>2. i \in 1..(Len(one) + Len(two)) /\ i <= Len(one)
    BY <1>2, <2>1
  <2> QED
    BY <1>3, <1>4, <2>1, <2>2 DEF LeftOf
<1>7. ASSUME NEW x \in ToSet(two) PROVE x \in LeftOf(both, n)
  <2>1. PICK i \in DOMAIN two : x = two[i]
    BY DEF ToSet
  <2>2. /\ i + Len(one) \in 1..(Len(one) + Len(two)) /\ ~(i + Len(one) <= Len(one)) /\ (i + Len(one)) - Len(one) = i
        /\ i + Len(one) >= n
    BY <1>2, <1>5, <2>1
  <2>3. both[i + Len(one)] = x
    BY <1>4, <2>1, <2>2
  <2> QED
    BY <1>3, <2>2, <2>3 DEF LeftOf
<1> QED
  BY <1>1, <1>6, <1>7

LEMMA LeftNext ==
    ASSUME NEW queue, NEW n \in Nat, DOMAIN queue \subseteq Nat, n \in DOMAIN queue
    PROVE  LeftOf(queue, n) \subseteq {queue[n]} \cup LeftOf(queue, n + 1)
<1> SUFFICES ASSUME NEW i \in DOMAIN queue, i >= n, i # n PROVE queue[i] \in LeftOf(queue, n + 1)
  BY DEF LeftOf
<1>1. i >= n + 1
  OBVIOUS
<1> QED
  BY <1>1 DEF LeftOf

LEMMA LeftNone ==
    ASSUME NEW S, NEW queue \in Seq(S), NEW n \in Nat, n > Len(queue) PROVE LeftOf(queue, n) = {}
<1>1. Len(queue) \in Nat /\ DOMAIN queue = 1..Len(queue)
  OBVIOUS
<1>2. \A i \in DOMAIN queue : ~(i >= n)
  BY <1>1
<1> QED
  BY <1>2 DEF LeftOf

-----------------------------------------------------------------------------
(* Steps that several actions take                                         *)

(* What is kept of a device: what is handled, tried and covered.           *)
Keeps(a) ==
    /\ handledBy[a] \subseteq handledBy'[a]
    /\ Tried(a, handledBy[a], DescsOf(catalogue, a)) => Tried(a, handledBy'[a], DescsOf(catalogue, a))
    /\ Covered(a, handledBy[a], entitiesOf[a], DescsOf(catalogue, a))
          => Covered(a, handledBy'[a], entitiesOf'[a], DescsOf(catalogue, a))

LEMMA DiscoverDevices ==
    ASSUME FoundTyped, DevicesTrue, NEW devices, devices \subseteq inMap, table = PlatformTable(catalogue),
           Discover(devices, table), catalogue' = catalogue, unbound' = unbound
    PROVE  /\ DevicesTrue'
           /\ \A a \in Appliances : Keeps(a)
           /\ \A a \in devices : Tried(a, handledBy'[a], DescsOf(catalogue, a))
<1>1. devices \subseteq Appliances /\ devices \cap inMap = devices /\ catalogue \in Catalogues
  BY DEF FoundTyped
<1>2. catalogue.compound \in BOOLEAN
  BY <1>1, CatalogueAssumption
<1>3. ASSUME NEW a \in Appliances
      PROVE  /\ EntitiesTrue(a, handledBy'[a], entitiesOf'[a], DescsOf(catalogue, a))
             /\ a \notin unbound => ShownTrue(catalogue, a, handledBy'[a], entitiesOf'[a])
             /\ Keeps(a)
             /\ a \in devices => Tried(a, handledBy'[a], DescsOf(catalogue, a))
  <2>1. PICK before : before = [handled |-> handledBy[a], entities |-> entitiesOf[a]]
    OBVIOUS
  <2>2. before.handled = handledBy[a] /\ before.entities = entitiesOf[a]
    BY <2>1
  <2>3. PICK after : after = IF a \in devices THEN Found(a, table) ELSE before
    OBVIOUS
  <2>4. handledBy'[a] = after.handled /\ entitiesOf'[a] = after.entities
    BY <1>1, <2>1, <2>3 DEF Discover
  <2>5. PICK descs : descs = DescsOf(catalogue, a)
    OBVIOUS
  <2>6. TableFit(a, descs)
    BY <1>1, <2>5, DescsFit
  <2>7. PICK list : list = CategoryTable(table, Appliance[a].category)
    OBVIOUS
  <2>8. list \in Seq(Descriptor) /\ ToSet(list) = descs
    <3>1. Known(list, SourceDescriptors(catalogue, Appliance[a].category))
      BY <1>1, <2>7, TableCodes
    <3> QED
      BY <2>5, <2>7, <3>1 DEF Known, DescsOf
  <2>9. /\ Grows([handled |-> handledBy[a], entities |-> entitiesOf[a]], Found(a, table), ToSet(list),
                 Appliance[a].described)
        /\ Tried(a, Found(a, table).handled, ToSet(list))
    BY <1>2, <2>7, <2>8, FoundGrows
  <2>10. Grows(before, after, descs, Appliance[a].described) /\ (a \in devices => Tried(a, after.handled, descs))
    BY <2>1, <2>3, <2>8, <2>9, GrowsSelf
  <2>11. EntitiesTrue(a, before.handled, before.entities, descs)
    BY <2>2, <2>5 DEF DevicesTrue
  <2>12. EntitiesTrue(a, after.handled, after.entities, descs)
    BY <2>10, <2>11, GrowsTrue
  <2>13. ASSUME a \notin unbound PROVE ShownTrue(catalogue, a, after.handled, after.entities)
    <3>1. ShownTrue(catalogue, a, before.handled, before.entities)
      BY <2>2, <2>13 DEF DevicesTrue
    <3>2. PICK cat : cat = catalogue
      OBVIOUS
    <3>3. ShownTrue(cat, a, after.handled, after.entities)
      BY <2>6, <2>10, <2>11, <3>1, <3>2, GrowsShown
    <3> QED
      BY <3>2, <3>3
  <2>14. before.handled \subseteq after.handled
    BY <2>10 DEF Grows
  <2>15. Tried(a, before.handled, descs) => Tried(a, after.handled, descs)
    BY <2>10, GrowsTried
  <2>16. Covered(a, before.handled, before.entities, descs) => Covered(a, after.handled, after.entities, descs)
    BY <2>10, GrowsCovered
  <2>17. Keeps(a)
    BY <2>2, <2>4, <2>5, <2>14, <2>15, <2>16 DEF Keeps
  <2> QED
    BY <2>4, <2>5, <2>10, <2>12, <2>13, <2>17
<1>4. DevicesTrue'
  BY <1>3 DEF DevicesTrue
<1> QED
  BY <1>1, <1>3, <1>4

LEMMA GenericDevices ==
    ASSUME FoundTyped, DevicesTrue, NEW devices, devices \subseteq inMap,
           \A a \in devices : Tried(a, handledBy[a], DescsOf(catalogue, a)),
           AddGeneric(devices), catalogue' = catalogue, unbound' = unbound, handledBy' = handledBy
    PROVE  /\ DevicesTrue'
           /\ \A a \in Appliances : Keeps(a)
           /\ \A a \in devices : Covered(a, handledBy'[a], entitiesOf'[a], DescsOf(catalogue, a))
<1>1. devices \subseteq Appliances /\ devices \cap inMap = devices /\ catalogue \in Catalogues
  BY DEF FoundTyped
<1>2. ASSUME NEW a \in Appliances
      PROVE  /\ EntitiesTrue(a, handledBy[a], entitiesOf'[a], DescsOf(catalogue, a))
             /\ a \notin unbound => ShownTrue(catalogue, a, handledBy[a], entitiesOf'[a])
             /\ Keeps(a)
             /\ a \in devices => Covered(a, handledBy[a], entitiesOf'[a], DescsOf(catalogue, a))
  <2>1. PICK descs : descs = DescsOf(catalogue, a)
    OBVIOUS
  <2>2. TableFit(a, descs)
    BY <1>1, <2>1, DescsFit
  <2>3. EntitiesTrue(a, handledBy[a], entitiesOf[a], descs)
    BY <2>1 DEF DevicesTrue
  <2>4. CASE a \in devices
    <3>1. entitiesOf'[a] = WithGeneric(a)
      BY <1>1, <2>4 DEF AddGeneric
    <3>2. Tried(a, handledBy[a], descs)
      BY <2>1, <2>4
    <3>3. /\ entitiesOf[a] \subseteq WithGeneric(a)
          /\ EntitiesTrue(a, handledBy[a], WithGeneric(a), descs)
          /\ Covered(a, handledBy[a], WithGeneric(a), descs)
      BY <2>2, <2>3, <3>2, GenericTrue
    <3>4. a \notin unbound => ShownTrue(catalogue, a, handledBy[a], entitiesOf'[a])
      <4>1. a \notin unbound => ShownTrue(catalogue, a, handledBy[a], entitiesOf[a])
        BY DEF DevicesTrue
      <4>2. PICK cat : cat = catalogue
        OBVIOUS
      <4>3. PICK handled, entities, more : handled = handledBy[a] /\ entities = entitiesOf[a] /\ more = entitiesOf'[a]
        OBVIOUS
      <4>4. ShownTrue(cat, a, handled, entities) => ShownTrue(cat, a, handled, more)
        BY <3>1, <3>3, <4>3, MoreShown
      <4> QED
        BY <4>1, <4>2, <4>3, <4>4
    <3>5. Keeps(a)
      BY <2>1, <3>1, <3>3 DEF Keeps
    <3> QED
      BY <2>1, <3>1, <3>3, <3>4, <3>5
  <2>5. CASE a \notin devices
    <3>1. entitiesOf'[a] = entitiesOf[a]
      BY <1>1, <2>5 DEF AddGeneric
    <3>2. Keeps(a)
      BY <3>1 DEF Keeps
    <3> QED
      BY <2>5, <3>1, <3>2 DEF DevicesTrue
  <2> QED
    BY <2>4, <2>5
<1>3. DevicesTrue'
  BY <1>2 DEF DevicesTrue
<1> QED
  BY <1>1, <1>2, <1>3

(* The callbacks a discovery adds while setup runs.                        *)
LEMMA AddedCalls ==
    ASSUME FoundTyped, NEW devices, devices \subseteq Appliances, AddCallbacks(devices), turn' = turn
    PROVE  /\ toRun'["early"] \in Seq(Call) /\ toRun'["last"] \in Seq(Call)
           /\ turn.next \in 1..Len(toRun'[turn.priority]) + 1
           /\ ToSet(toRun'["early"]) \subseteq ToSet(toRun["early"]) \cup {Callback("remotes", devices)}
           /\ ToSet(toRun'["last"])
                 \subseteq ToSet(toRun["last"]) \cup {Callback("generic", devices), Callback("cameras", devices)}
           /\ setup # "ready" => Left \subseteq Left' /\ Callback("generic", devices) \in Left'
<1>1. /\ toRun["early"] \in Seq(Call) /\ toRun["last"] \in Seq(Call)
      /\ turn.priority \in Priorities /\ turn.next \in 1..Len(toRun[turn.priority]) + 1
  BY DEF FoundTyped
<1>2. CASE setup = "ready"
  <2>1. toRun' = toRun
    BY <1>2 DEF AddCallbacks
  <2> QED
    BY <1>1, <1>2, <2>1
<1>3. CASE setup # "ready"
  <2>1. PICK early, last : early = toRun["early"] /\ last = toRun["last"]
    OBVIOUS
  <2>2. PICK r, g, c : r = Callback("remotes", devices) /\ g = Callback("generic", devices) /\ c = Callback("cameras", devices)
    OBVIOUS
  <2>3. r \in Call /\ g \in Call /\ c \in Call
    BY <2>2 DEF Call, Callback
  <2>4. toRun' = [early |-> Append(early, r), last |-> last \o <<g, c>>]
    BY <1>3, <2>1, <2>2 DEF AddCallbacks
  <2>5. toRun'["early"] = Append(early, r) /\ toRun'["last"] = last \o <<g, c>>
    BY <2>4
  <2>6. early \in Seq(Call) /\ last \in Seq(Call)
    BY <1>1, <2>1
  <2>7. Append(early, r) \in Seq(Call) /\ ToSet(Append(early, r)) = ToSet(early) \cup {r}
    BY <2>3, <2>6, AppendedSet
  <2>9. PICK two : two = <<g, c>>
    OBVIOUS
  <2>10. two \in Seq(Call) /\ ToSet(two) = {g, c}
    BY <2>3, <2>9, PairSet
  <2>11. last \o two \in Seq(Call) /\ ToSet(last \o two) = ToSet(last) \cup {g, c}
    BY <2>6, <2>10, JoinedSet
  <2>12. Len(Append(early, r)) = Len(early) + 1 /\ Len(early) \in Nat
    BY <2>3, <2>6
  <2>13. Len(last \o two) = Len(last) + Len(two) /\ Len(last) \in Nat /\ Len(two) \in Nat
    BY <2>6, <2>10
  <2>14. turn.next \in 1..Len(toRun'[turn.priority]) + 1
    <3>1. CASE turn.priority = "early"
      <4>1. turn.next \in 1..Len(early) + 1 /\ toRun'[turn.priority] = Append(early, r)
        BY <1>1, <2>1, <2>5, <3>1
      <4> QED
        BY <2>12, <4>1
    <3>2. CASE turn.priority = "last"
      <4>1. turn.next \in 1..Len(last) + 1 /\ toRun'[turn.priority] = last \o two
        BY <1>1, <2>1, <2>5, <2>9, <3>2
      <4> QED
        BY <2>13, <4>1
    <3> QED
      BY <1>1, <3>1, <3>2 DEF Priorities
  <2>15. PICK n : n = IF turn.priority = "last" THEN turn.next ELSE 1
    OBVIOUS
  <2>16. n \in 1..Len(last) + 1
    BY <1>1, <2>1, <2>13, <2>15
  <2>17. LeftOf(last, n) \subseteq LeftOf(last \o two, n) /\ ToSet(two) \subseteq LeftOf(last \o two, n)
    BY <2>6, <2>10, <2>16, LeftGrows
  <2>18. Left = LeftOf(last, n) /\ Left' = LeftOf(last \o two, n)
    BY <2>1, <2>5, <2>9, <2>15 DEF Left
  <2> QED
    BY <2>1, <2>2, <2>5, <2>7, <2>9, <2>10, <2>11, <2>14, <2>17, <2>18
<1> QED
  BY <1>2, <1>3

(* What waits to be called may still be called.                            *)
LEMMA CallStays ==
    ASSUME FoundTyped, NEW call, CallTrue(call), \A a \in Appliances : Keeps(a), catalogue' = catalogue,
           inMap \subseteq inMap', unbound \subseteq unbound'
    PROVE  CallTrue(call)'
<1>1. call.devices \subseteq Appliances /\ call.devices \subseteq inMap'
  BY DEF CallTrue, FoundTyped
<1>2. call.kind = "generic" => \A a \in call.devices : Tried(a, handledBy'[a], DescsOf(catalogue, a))
  BY <1>1 DEF CallTrue, Keeps
<1>3. call.kind = "remove" => call.devices \subseteq unbound'
  BY DEF CallTrue
<1> QED
  BY <1>1, <1>2, <1>3 DEF CallTrue

(* A device that is planned for stays so.                                  *)
LEMMA PlannedStays ==
    ASSUME NEW a, Planned(a), catalogue' = catalogue, Keeps(a), binder' = binder,
           \A job \in ToSet(jobs) : job.kind = "discover" /\ a \in job.devices => job \in ToSet(jobs'),
           \A call \in Due : call.kind = "generic" /\ a \in call.devices => call \in Due'
    PROVE  Planned(a)'
<1>1. CASE Covered(a, handledBy[a], entitiesOf[a], DescsOf(catalogue, a))
  <2>1. Covered(a, handledBy'[a], entitiesOf'[a], DescsOf(catalogue, a))
    BY <1>1 DEF Keeps
  <2> QED
    BY <2>1 DEF Planned
<1>2. CASE \E b \in Binders : binder[b].step = "announce" /\ binder[b].device = a
  BY <1>2 DEF Planned
<1>3. CASE \E job \in ToSet(jobs) : job.kind = "discover" /\ a \in job.devices
  BY <1>3 DEF Planned
<1>4. CASE \E call \in Due : call.kind = "generic" /\ a \in call.devices
  BY <1>4 DEF Planned
<1> QED
  BY <1>1, <1>2, <1>3, <1>4 DEF Planned

LEMMA KeepsSelf ==
    ASSUME NEW a, handledBy' = handledBy, entitiesOf' = entitiesOf PROVE Keeps(a)
  BY DEF Keeps

-----------------------------------------------------------------------------
(* Every step keeps the invariant                                          *)

LEMMA NotAnnounced == ASSUME NEW b, binder[b] = NoBinding PROVE binder[b].step # "announce"
  BY DEF NoBinding

LEMMA SameDevices ==
    ASSUME DevicesTrue, catalogue' = catalogue, handledBy' = handledBy, entitiesOf' = entitiesOf, unbound \subseteq unbound'
    PROVE  DevicesTrue'
<1> SUFFICES ASSUME NEW a \in Appliances
             PROVE  /\ EntitiesTrue(a, handledBy[a], entitiesOf[a], DescsOf(catalogue, a))
                    /\ a \notin unbound' => ShownTrue(catalogue, a, handledBy[a], entitiesOf[a])
  BY DEF DevicesTrue
<1> QED
  BY DEF DevicesTrue

LEMMA FoundInitInv == ASSUME FoundInit PROVE FoundInv
<1>1. /\ setup = "register" /\ catalogue \in Catalogues /\ inMap = AtSetup
      /\ handledBy = [a \in Appliances |-> {}] /\ entitiesOf = [a \in Appliances |-> {}]
      /\ turn = [priority |-> "early", next |-> 1] /\ jobs = <<>>
      /\ binder = [b \in Binders |-> NoBinding] /\ unbound = {}
  BY DEF FoundInit
<1>2. toRun["early"] = <<>> /\ toRun["last"] = <<>>
  BY DEF FoundInit, Priorities
<1>3. \A a \in Appliances : handledBy[a] = {} /\ entitiesOf[a] = {}
  BY <1>1
<1>4. ToSet(jobs) = {} /\ ToSet(toRun["early"]) = {} /\ ToSet(toRun["last"]) = {}
  BY <1>1, <1>2, NoneSet
<1>5. \A b \in Binders : binder[b] = NoBinding
  BY <1>1
<1>6. turn.priority = "early" /\ turn.next = 1
  BY <1>1
<1>7. FoundTyped
  <2>1. jobs \in Seq(Call) /\ toRun["early"] \in Seq(Call) /\ toRun["last"] \in Seq(Call)
    BY <1>1, <1>2
  <2>2. turn \in [priority : Priorities, next : Nat]
    BY <1>1 DEF Priorities
  <2>3. turn.next \in 1..Len(toRun[turn.priority]) + 1
    BY <1>2, <1>6
  <2>4. binder \in [Binders -> Bindings]
    BY <1>1 DEF Bindings
  <2>5. setup \in Stages /\ inMap \subseteq Appliances /\ unbound \subseteq inMap
    BY <1>1, ApplianceAssumption DEF Stages
  <2> QED
    BY <1>1, <1>4, <2>1, <2>2, <2>3, <2>4, <2>5 DEF FoundTyped
<1>8. AtFirst
  BY <1>1, <1>2, <1>3, <1>5 DEF AtFirst
<1>9. OfficialHandled
  BY <1>1 DEF OfficialHandled
<1>10. DevicesTrue
  BY <1>3 DEF DevicesTrue, EntitiesTrue, ShownTrue
<1>11. CallsTrue
  BY <1>4, <1>5, NotAnnounced DEF CallsTrue, AllCalls
<1>12. AllPlanned
  BY <1>1 DEF AllPlanned, Beginning
<1> QED
  BY <1>7, <1>8, <1>9, <1>10, <1>11, <1>12 DEF FoundInv

LEMMA RegisterOfficialInv == ASSUME FoundInv, RegisterOfficial PROVE FoundInv'
<1>1. FoundTyped /\ AtFirst /\ CallsTrue
  BY DEF FoundInv
<1>2. /\ setup = "register" /\ setup' = "parsers"
      /\ catalogue' = catalogue /\ table' = table /\ inMap' = inMap /\ entitiesOf' = entitiesOf /\ toRun' = toRun
      /\ turn' = turn /\ jobs' = jobs /\ binder' = binder /\ unbound' = unbound
  BY DEF RegisterOfficial
<1>3. \A a \in Appliances : handledBy'[a] = IF a \in inMap /\ ~catalogue.overridden
                                            THEN {<<code>> : code \in Appliance[a].official} ELSE {}
  BY DEF RegisterOfficial
<1>4. /\ inMap = AtSetup /\ \A a \in Appliances : entitiesOf[a] = {}
      /\ toRun["early"] = <<>> /\ toRun["last"] = <<>> /\ jobs = <<>>
      /\ \A b \in Binders : binder[b] = NoBinding
  BY <1>1, <1>2 DEF AtFirst, Beginning
<1>5. FoundTyped'
  BY <1>1, <1>2 DEF FoundTyped, Stages
<1>6. AtFirst'
  BY <1>2, <1>4 DEF AtFirst
<1>7. OfficialHandled'
  <2> SUFFICES ASSUME NEW a \in Appliances, NEW code, Official(catalogue, a, code) PROVE <<code>> \in handledBy'[a]
    BY <1>2 DEF OfficialHandled
  <2> QED
    BY <1>3, <1>4 DEF Official
<1>8. DevicesTrue'
  <2>1. \A a \in Appliances : EntitiesTrue(a, handledBy'[a], entitiesOf'[a], DescsOf(catalogue', a))
    BY <1>2, <1>4 DEF EntitiesTrue
  <2>2. ASSUME NEW a \in Appliances, NEW code, <<code>> \in handledBy'[a] PROVE Official(catalogue, a, code)
    <3>1. a \in inMap /\ ~catalogue.overridden /\ <<code>> \in {<<c>> : c \in Appliance[a].official}
      BY <1>3, <2>2
    <3>2. \A x, y : <<x>> = <<y>> => x = y
      <4>1. \A x : <<x>>[1] = x
        OBVIOUS
      <4> QED
        BY <4>1
    <3>3. PICK c \in Appliance[a].official : <<code>> = <<c>>
      BY <3>1
    <3>4. code \in Appliance[a].official
      BY <3>2, <3>3
    <3> QED
      BY <1>4, <3>1, <3>4 DEF Official
  <2>3. \A a \in Appliances : ShownTrue(catalogue', a, handledBy'[a], entitiesOf'[a])
    BY <1>2, <2>2 DEF ShownTrue
  <2> QED
    BY <2>1, <2>3 DEF DevicesTrue
<1>9. CallsTrue'
  <2>1. AllCalls' = {}
    BY <1>2, <1>4, NoneSet DEF AllCalls
  <2>2. \A b \in Binders : binder'[b].step # "announce"
    BY <1>2, <1>4, NotAnnounced
  <2> QED
    BY <2>1, <2>2 DEF CallsTrue
<1>10. AllPlanned'
  BY <1>2 DEF AllPlanned, Beginning
<1> QED
  BY <1>5, <1>6, <1>7, <1>8, <1>9, <1>10 DEF FoundInv

LEMMA CallsStay ==
    ASSUME FoundTyped, CallsTrue, \A a \in Appliances : Keeps(a), catalogue' = catalogue,
           inMap \subseteq inMap', unbound \subseteq unbound'
    PROVE  \A call \in AllCalls : CallTrue(call)'
  BY CallStays DEF CallsTrue

LEMMA LoadParsersInv == ASSUME FoundInv, LoadParsers PROVE FoundInv'
<1>1. FoundTyped /\ AtFirst /\ OfficialHandled /\ DevicesTrue /\ CallsTrue
  BY DEF FoundInv
<1>2. /\ setup = "parsers" /\ setup' = "platforms" /\ table' = PlatformTable(catalogue)
      /\ catalogue' = catalogue /\ inMap' = inMap /\ handledBy' = handledBy /\ entitiesOf' = entitiesOf /\ toRun' = toRun
      /\ turn' = turn /\ jobs' = jobs /\ binder' = binder /\ unbound' = unbound
  BY DEF LoadParsers
<1>3. FoundTyped'
  BY <1>1, <1>2 DEF FoundTyped, Stages
<1>4. AtFirst'
  BY <1>1, <1>2 DEF AtFirst, Beginning
<1>5. OfficialHandled'
  BY <1>1, <1>2 DEF OfficialHandled
<1>6. DevicesTrue'
  BY <1>1, <1>2, SameDevices
<1>7. CallsTrue'
  <2>1. \A call \in AllCalls : CallTrue(call)'
    BY <1>1, <1>2, CallsStay, KeepsSelf
  <2>2. AllCalls' = AllCalls
    BY <1>2 DEF AllCalls
  <2> QED
    BY <1>1, <1>2, <2>1, <2>2 DEF CallsTrue
<1>8. AllPlanned'
  BY <1>2 DEF AllPlanned, Beginning
<1> QED
  BY <1>3, <1>4, <1>5, <1>6, <1>7, <1>8 DEF FoundInv

LEMMA SetupPlatformInv == ASSUME FoundInv, SetupPlatform PROVE FoundInv'
<1>1. FoundTyped /\ AtFirst /\ OfficialHandled /\ DevicesTrue /\ CallsTrue
  BY DEF FoundInv
<1>2. /\ setup = "platforms" /\ setup' = "signals" /\ Discover(inMap, table)
      /\ catalogue' = catalogue /\ table' = table /\ inMap' = inMap
      /\ turn' = turn /\ jobs' = jobs /\ binder' = binder /\ unbound' = unbound
  BY DEF SetupPlatform
<1>3. table = PlatformTable(catalogue)
  BY <1>1, <1>2 DEF AtFirst
<1>4. inMap \subseteq Appliances /\ inMap \subseteq inMap
  BY <1>1 DEF FoundTyped
<1>5. PICK devices : devices = inMap
  OBVIOUS
<1>6. /\ DevicesTrue' /\ \A a \in Appliances : Keeps(a)
      /\ \A a \in devices : Tried(a, handledBy'[a], DescsOf(catalogue, a))
  BY <1>1, <1>2, <1>3, <1>4, <1>5, DiscoverDevices
<1>7. AddCallbacks(devices)
  BY <1>2, <1>5 DEF Discover
<1>8. /\ toRun'["early"] \in Seq(Call) /\ toRun'["last"] \in Seq(Call)
      /\ turn.next \in 1..Len(toRun'[turn.priority]) + 1
      /\ ToSet(toRun'["early"]) \subseteq ToSet(toRun["early"]) \cup {Callback("remotes", devices)}
      /\ ToSet(toRun'["last"])
            \subseteq ToSet(toRun["last"]) \cup {Callback("generic", devices), Callback("cameras", devices)}
      /\ setup # "ready" => Left \subseteq Left' /\ Callback("generic", devices) \in Left'
  BY <1>1, <1>2, <1>4, <1>5, <1>7, AddedCalls
<1>9. FoundTyped'
  BY <1>1, <1>2, <1>8 DEF FoundTyped, Stages
<1>10. AtFirst'
  BY <1>2, <1>3 DEF AtFirst, Beginning
<1>11. OfficialHandled'
  BY <1>1, <1>2, <1>6 DEF OfficialHandled, Keeps
<1>12. CallsTrue'
  <2>1. \A call \in AllCalls : CallTrue(call)'
    BY <1>1, <1>2, <1>6, CallsStay
  <2>2. ASSUME NEW kind \in {"remotes", "generic", "cameras"} PROVE CallTrue(Callback(kind, devices))'
    <3>1. PICK call : call = Callback(kind, devices)
      OBVIOUS
    <3>2. call.kind = kind /\ call.devices = devices
      BY <3>1 DEF Callback
    <3>3. CallTrue(call)'
      BY <1>2, <1>5, <1>6, <3>2 DEF CallTrue
    <3> QED
      BY <3>1, <3>3
  <2>3. \A call \in AllCalls' : call \in AllCalls \/ \E kind \in {"remotes", "generic", "cameras"} : call = Callback(kind, devices)
    BY <1>2, <1>8 DEF AllCalls
  <2>4. \A call \in AllCalls' : CallTrue(call)'
    BY <2>1, <2>2, <2>3
  <2> QED
    BY <1>1, <1>2, <2>4 DEF CallsTrue
<1>13. AllPlanned'
  <2> SUFFICES ASSUME NEW a \in inMap PROVE Planned(a)'
    BY <1>2 DEF AllPlanned
  <2>1. Callback("generic", devices) \in Due'
    BY <1>2, <1>8 DEF Due
  <2>2. PICK call : call = Callback("generic", devices)
    OBVIOUS
  <2>3. call.kind = "generic" /\ a \in call.devices
    BY <1>5, <2>2 DEF Callback
  <2> QED
    BY <2>1, <2>2, <2>3 DEF Planned
<1> QED
  BY <1>6, <1>9, <1>10, <1>11, <1>12, <1>13 DEF FoundInv

(* A step of setup that touches no device.                                 *)
LEMMA QuietInv ==
    ASSUME FoundInv, setup \notin Beginning, setup' \in Stages, setup' \notin Beginning,
           catalogue' = catalogue, table' = table, inMap' = inMap, handledBy' = handledBy, entitiesOf' = entitiesOf,
           toRun' = toRun, jobs' = jobs, binder' = binder, unbound' = unbound,
           turn' \in [priority : Priorities, next : Nat], turn'.next \in 1..Len(toRun[turn'.priority]) + 1,
           \A call \in Due : call.kind = "generic" => call \in Due'
    PROVE  FoundInv'
<1>1. FoundTyped /\ AtFirst /\ OfficialHandled /\ DevicesTrue /\ CallsTrue /\ AllPlanned
  BY DEF FoundInv
<1>2. FoundTyped'
  BY <1>1 DEF FoundTyped
<1>3. AtFirst'
  BY <1>1 DEF AtFirst, Beginning
<1>4. OfficialHandled'
  BY <1>1 DEF OfficialHandled, Beginning
<1>5. DevicesTrue'
  BY <1>1, SameDevices
<1>6. CallsTrue'
  <2>1. \A call \in AllCalls : CallTrue(call)'
    BY <1>1, CallsStay, KeepsSelf
  <2>2. AllCalls' = AllCalls
    BY DEF AllCalls
  <2> QED
    BY <1>1, <2>1, <2>2 DEF CallsTrue
<1>7. AllPlanned'
  <2> SUFFICES ASSUME NEW a \in inMap \ unbound PROVE Planned(a)'
    BY DEF AllPlanned
  <2>1. Planned(a)
    BY <1>1 DEF AllPlanned
  <2>2. Keeps(a)
    BY KeepsSelf
  <2>3. \A job \in ToSet(jobs) : job.kind = "discover" /\ a \in job.devices => job \in ToSet(jobs')
    OBVIOUS
  <2> QED
    BY <2>1, <2>2, <2>3, PlannedStays
<1> QED
  BY <1>2, <1>3, <1>4, <1>5, <1>6, <1>7 DEF FoundInv

LEMMA StartCallbacksInv == ASSUME FoundInv, StartCallbacks PROVE FoundInv'
<1>1. FoundTyped
  BY DEF FoundInv
<1>2. /\ setup = "signals" /\ setup' = "callbacks"
      /\ catalogue' = catalogue /\ table' = table /\ inMap' = inMap /\ handledBy' = handledBy /\ entitiesOf' = entitiesOf
      /\ toRun' = toRun /\ turn' = turn /\ jobs' = jobs /\ binder' = binder /\ unbound' = unbound
  BY DEF StartCallbacks
<1>3. setup \notin Beginning /\ setup' \in Stages /\ setup' \notin Beginning
  BY <1>2 DEF Beginning, Stages
<1>4. turn' \in [priority : Priorities, next : Nat] /\ turn'.next \in 1..Len(toRun[turn'.priority]) + 1
  BY <1>1, <1>2 DEF FoundTyped
<1>5. Due' = Due
  BY <1>2 DEF Due, Left
<1> QED
  BY <1>2, <1>3, <1>4, <1>5, QuietInv

LEMMA CallbackAnsweredInv == ASSUME FoundInv, CallbackAnswered PROVE FoundInv'
<1>1. FoundTyped
  BY DEF FoundInv
<1>2. /\ setup = "waiting" /\ setup' = "callbacks"
      /\ catalogue' = catalogue /\ table' = table /\ inMap' = inMap /\ handledBy' = handledBy /\ entitiesOf' = entitiesOf
      /\ toRun' = toRun /\ turn' = turn /\ jobs' = jobs /\ binder' = binder /\ unbound' = unbound
  BY DEF CallbackAnswered
<1>3. setup \notin Beginning /\ setup' \in Stages /\ setup' \notin Beginning
  BY <1>2 DEF Beginning, Stages
<1>4. turn' \in [priority : Priorities, next : Nat] /\ turn'.next \in 1..Len(toRun[turn'.priority]) + 1
  BY <1>1, <1>2 DEF FoundTyped
<1>5. Due' = Due
  BY <1>2 DEF Due, Left
<1> QED
  BY <1>2, <1>3, <1>4, <1>5, QuietInv

LEMMA NextPriorityInv == ASSUME FoundInv, NextPriority PROVE FoundInv'
<1>1. FoundTyped
  BY DEF FoundInv
<1>2. /\ setup = "callbacks" /\ setup' = setup /\ turn.priority = "early" /\ turn' = [priority |-> "last", next |-> 1]
      /\ catalogue' = catalogue /\ table' = table /\ inMap' = inMap /\ handledBy' = handledBy /\ entitiesOf' = entitiesOf
      /\ toRun' = toRun /\ jobs' = jobs /\ binder' = binder /\ unbound' = unbound
  BY DEF NextPriority, PriorityOver
<1>3. setup \notin Beginning /\ setup' \in Stages /\ setup' \notin Beginning
  BY <1>2 DEF Beginning, Stages
<1>4. turn'.priority = "last" /\ turn'.next = 1 /\ turn' \in [priority : Priorities, next : Nat]
  BY <1>2 DEF Priorities
<1>5. turn'.next \in 1..Len(toRun[turn'.priority]) + 1
  <2>1. Len(toRun["last"]) \in Nat
    BY <1>1 DEF FoundTyped
  <2> QED
    BY <1>4, <2>1
<1>6. Due' = Due
  BY <1>2, <1>4 DEF Due, Left
<1> QED
  BY <1>2, <1>3, <1>4, <1>5, <1>6, QuietInv

LEMMA LoadingFinalizedInv == ASSUME FoundInv, LoadingFinalized PROVE FoundInv'
<1>1. FoundTyped
  BY DEF FoundInv
<1>2. /\ setup = "callbacks" /\ setup' = "ready" /\ turn.priority = "last" /\ turn.next > Len(toRun["last"])
      /\ catalogue' = catalogue /\ table' = table /\ inMap' = inMap /\ handledBy' = handledBy /\ entitiesOf' = entitiesOf
      /\ toRun' = toRun /\ turn' = turn /\ jobs' = jobs /\ binder' = binder /\ unbound' = unbound
  BY DEF LoadingFinalized, PriorityOver
<1>3. setup \notin Beginning /\ setup' \in Stages /\ setup' \notin Beginning
  BY <1>2 DEF Beginning, Stages
<1>4. turn' \in [priority : Priorities, next : Nat] /\ turn'.next \in 1..Len(toRun[turn'.priority]) + 1
  BY <1>1, <1>2 DEF FoundTyped
<1>5. PICK queue, n : queue = toRun["last"] /\ n = turn.next
  OBVIOUS
<1>6. queue \in Seq(Call) /\ n \in Nat /\ n > Len(queue)
  BY <1>1, <1>2, <1>5 DEF FoundTyped
<1>7. LeftOf(queue, n) = {}
  BY <1>6, LeftNone
<1>8. Left = {}
  BY <1>2, <1>5, <1>7 DEF Left
<1>9. Due = ToSet(jobs) /\ Due' = ToSet(jobs)
  BY <1>2, <1>8 DEF Due
<1> QED
  BY <1>2, <1>3, <1>4, <1>9, QuietInv

LEMMA TurnNext ==
    ASSUME FoundTyped, turn.next \in DOMAIN toRun[turn.priority], turn' = [turn EXCEPT !.next = @ + 1], toRun' = toRun
    PROVE  /\ turn' \in [priority : Priorities, next : Nat] /\ turn'.next \in 1..Len(toRun[turn'.priority]) + 1
           /\ toRun[turn.priority][turn.next] \in AllCalls
           /\ Left \subseteq {toRun[turn.priority][turn.next]} \cup Left'
<1>1. /\ toRun["early"] \in Seq(Call) /\ toRun["last"] \in Seq(Call)
      /\ turn \in [priority : Priorities, next : Nat]
  BY DEF FoundTyped
<1>2. PICK p, n, queue : p = turn.priority /\ n = turn.next /\ queue = toRun[p]
  OBVIOUS
<1>3. p \in {"early", "last"} /\ n \in Nat
  BY <1>1, <1>2 DEF Priorities
<1>4. queue \in Seq(Call) /\ n \in DOMAIN queue
  BY <1>1, <1>2, <1>3
<1>5. turn'.priority = p /\ turn'.next = n + 1 /\ turn' \in [priority : Priorities, next : Nat]
  BY <1>1, <1>2
<1>6. Len(queue) \in Nat /\ DOMAIN queue = 1..Len(queue)
  BY <1>4
<1>7. n + 1 \in 1..Len(queue) + 1
  BY <1>3, <1>4, <1>6
<1>8. queue[n] \in ToSet(queue)
  BY <1>4 DEF ToSet
<1>9. queue[n] \in AllCalls
  BY <1>2, <1>3, <1>8 DEF AllCalls
<1>10. LeftOf(queue, n) \subseteq {queue[n]} \cup LeftOf(queue, n + 1)
  BY <1>3, <1>4, <1>6, LeftNext
<1>11. Left \subseteq {queue[n]} \cup Left'
  <2>1. CASE p = "last"
    <3>1. Left = LeftOf(queue, n) /\ Left' = LeftOf(queue, n + 1)
      BY <1>2, <1>5, <2>1 DEF Left
    <3> QED
      BY <1>10, <3>1
  <2>2. CASE p = "early"
    <3>1. Left = LeftOf(toRun["last"], 1) /\ Left' = LeftOf(toRun["last"], 1)
      BY <1>2, <1>5, <2>2 DEF Left
    <3> QED
      BY <3>1
  <2> QED
    BY <1>3, <2>1, <2>2
<1> QED
  BY <1>2, <1>5, <1>7, <1>9, <1>11

LEMMA RunCallbackInv == ASSUME FoundInv, RunCallback PROVE FoundInv'
<1>1. FoundTyped /\ AtFirst /\ OfficialHandled /\ DevicesTrue /\ CallsTrue /\ AllPlanned
  BY DEF FoundInv
<1>2. PICK callback : callback = toRun[turn.priority][turn.next]
  OBVIOUS
<1>3. /\ setup = "callbacks" /\ turn.next \in DOMAIN toRun[turn.priority] /\ turn' = [turn EXCEPT !.next = @ + 1]
      /\ catalogue' = catalogue /\ table' = table /\ inMap' = inMap /\ handledBy' = handledBy
      /\ toRun' = toRun /\ jobs' = jobs /\ binder' = binder /\ unbound' = unbound
      /\ \/ callback.kind = "generic" /\ AddGeneric(callback.devices) /\ setup' = setup
         \/ callback.kind # "generic" /\ setup' = "waiting" /\ entitiesOf' = entitiesOf
  BY <1>2 DEF RunCallback
<1>4. setup \notin Beginning /\ setup' \in Stages /\ setup' \notin Beginning
  BY <1>3 DEF Beginning, Stages
<1>5. /\ turn' \in [priority : Priorities, next : Nat] /\ turn'.next \in 1..Len(toRun[turn'.priority]) + 1
      /\ callback \in AllCalls /\ Left \subseteq {callback} \cup Left'
  BY <1>1, <1>2, <1>3, TurnNext
<1>6. \A call \in Due : call = callback \/ call \in Due'
  BY <1>3, <1>5 DEF Due
<1>7. CASE callback.kind # "generic"
  <2>1. \A call \in Due : call.kind = "generic" => call \in Due'
    BY <1>6, <1>7
  <2>2. entitiesOf' = entitiesOf
    BY <1>3, <1>7
  <2> QED
    BY <1>3, <1>4, <1>5, <2>1, <2>2, QuietInv
<1>8. CASE callback.kind = "generic"
  <2>1. AddGeneric(callback.devices) /\ setup' = setup
    BY <1>3, <1>8
  <2>2. PICK devices : devices = callback.devices
    OBVIOUS
  <2>3. devices \subseteq inMap /\ \A a \in devices : Tried(a, handledBy[a], DescsOf(catalogue, a))
    BY <1>1, <1>5, <1>8, <2>2 DEF CallsTrue, CallTrue
  <2>4. AddGeneric(devices)
    BY <2>1, <2>2
  <2>5. /\ DevicesTrue' /\ \A a \in Appliances : Keeps(a)
        /\ \A a \in devices : Covered(a, handledBy'[a], entitiesOf'[a], DescsOf(catalogue, a))
    BY <1>1, <1>3, <2>3, <2>4, GenericDevices
  <2>6. FoundTyped'
    BY <1>1, <1>3, <1>4, <1>5 DEF FoundTyped
  <2>7. AtFirst'
    BY <1>1, <1>3, <1>4 DEF AtFirst, Beginning
  <2>8. OfficialHandled'
    BY <1>1, <1>3, <1>4 DEF OfficialHandled, Beginning
  <2>9. CallsTrue'
    <3>1. \A call \in AllCalls : CallTrue(call)'
      BY <1>1, <1>3, <2>5, CallsStay
    <3>2. AllCalls' = AllCalls
      BY <1>3 DEF AllCalls
    <3> QED
      BY <1>1, <1>3, <3>1, <3>2 DEF CallsTrue
  <2>10. AllPlanned'
    <3> SUFFICES ASSUME NEW a \in inMap \ unbound PROVE Planned(a)'
      BY <1>3 DEF AllPlanned
    <3>1. CASE a \in devices
      <4>1. Covered(a, handledBy'[a], entitiesOf'[a], DescsOf(catalogue', a))
        BY <1>3, <2>5, <3>1
      <4> QED
        BY <4>1 DEF Planned
    <3>2. CASE a \notin devices
      <4>1. Planned(a)
        BY <1>1, <1>4 DEF AllPlanned
      <4>2. Keeps(a)
        BY <1>1, <2>5 DEF FoundTyped
      <4>3. \A job \in ToSet(jobs) : job.kind = "discover" /\ a \in job.devices => job \in ToSet(jobs')
        BY <1>3
      <4>4. \A call \in Due : call.kind = "generic" /\ a \in call.devices => call \in Due'
        BY <1>6, <2>2, <3>2
      <4> QED
        BY <1>3, <4>1, <4>2, <4>3, <4>4, PlannedStays
    <3> QED
      BY <3>1, <3>2
  <2> QED
    BY <2>5, <2>6, <2>7, <2>8, <2>9, <2>10 DEF FoundInv
<1> QED
  BY <1>7, <1>8

(* The event loop takes a job.                                             *)
LEMMA RunJobInv == ASSUME FoundInv, RunJob PROVE FoundInv'
<1>1. FoundTyped /\ AtFirst /\ OfficialHandled /\ DevicesTrue /\ CallsTrue /\ AllPlanned
  BY DEF FoundInv
<1>2. PICK job, rest : job = Head(jobs) /\ rest = Tail(jobs)
  OBVIOUS
<1>3. /\ setup \in {"signals", "waiting", "ready"} /\ jobs # <<>>
      /\ setup' = setup /\ catalogue' = catalogue /\ table' = table /\ inMap' = inMap /\ turn' = turn
      /\ binder' = binder /\ unbound' = unbound
  BY DEF RunJob
<1>4. jobs \in Seq(Call)
  BY <1>1 DEF FoundTyped
<1>5. job \in ToSet(jobs) /\ rest \in Seq(Call) /\ ToSet(jobs) = {job} \cup ToSet(rest)
  BY <1>2, <1>3, <1>4, HeadAndRest
<1>6. setup \notin Beginning
  BY <1>3 DEF Beginning
<1>7. PICK devices : devices = job.devices
  OBVIOUS
<1>8. job \in AllCalls /\ CallTrue(job)
  BY <1>1, <1>5 DEF CallsTrue, AllCalls
<1>9. devices \subseteq inMap /\ devices \subseteq Appliances
  BY <1>1, <1>7, <1>8 DEF CallTrue, FoundTyped
<1>10. AtFirst'
  BY <1>1, <1>3, <1>6 DEF AtFirst, Beginning
<1>11. CASE job.kind = "discover"
  <2>1. PICK more : more = GenericJob(devices)
    OBVIOUS
  <2>2. Discover(devices, table) /\ jobs' = rest \o more
    BY <1>2, <1>7, <1>11, <2>1 DEF RunJob
  <2>3. table = PlatformTable(catalogue)
    BY <1>1, <1>6 DEF AtFirst, Beginning
  <2>4. /\ DevicesTrue' /\ \A a \in Appliances : Keeps(a)
        /\ \A a \in devices : Tried(a, handledBy'[a], DescsOf(catalogue, a))
    BY <1>1, <1>3, <1>9, <2>2, <2>3, DiscoverDevices
  <2>5. AddCallbacks(devices)
    BY <2>2 DEF Discover
  <2>6. /\ toRun'["early"] \in Seq(Call) /\ toRun'["last"] \in Seq(Call)
        /\ turn.next \in 1..Len(toRun'[turn.priority]) + 1
        /\ ToSet(toRun'["early"]) \subseteq ToSet(toRun["early"]) \cup {Callback("remotes", devices)}
        /\ ToSet(toRun'["last"])
              \subseteq ToSet(toRun["last"]) \cup {Callback("generic", devices), Callback("cameras", devices)}
        /\ setup # "ready" => Left \subseteq Left' /\ Callback("generic", devices) \in Left'
    BY <1>1, <1>3, <1>9, <2>5, AddedCalls
  <2>7. PICK g : g = Callback("generic", devices)
    OBVIOUS
  <2>8. g \in Call /\ g.kind = "generic" /\ g.devices = devices
    BY <1>9, <2>7 DEF Call, Callback
  <2>9. /\ more \in Seq(Call) /\ ToSet(more) \subseteq {g}
        /\ setup = "ready" => g \in ToSet(more)
    <3>1. CASE setup = "ready"
      <4>1. more = <<g>>
        BY <2>1, <2>7, <3>1 DEF GenericJob
      <4>2. more \in Seq(Call) /\ ToSet(more) = {g}
        BY <2>8, <4>1, OneSet
      <4> QED
        BY <4>2
    <3>2. CASE setup # "ready"
      <4>1. more = <<>>
        BY <2>1, <3>2 DEF GenericJob
      <4> QED
        BY <3>2, <4>1, NoneSet
    <3> QED
      BY <3>1, <3>2
  <2>10. jobs' \in Seq(Call) /\ ToSet(jobs') = ToSet(rest) \cup ToSet(more)
    BY <1>5, <2>2, <2>9, JoinedSet
  <2>11. FoundTyped'
    <3>1. \A j \in ToSet(jobs') : j.kind \in {"discover", "generic", "remove"}
      BY <1>1, <1>5, <2>8, <2>9, <2>10 DEF FoundTyped
    <3> QED
      BY <1>1, <1>3, <2>6, <2>10, <3>1 DEF FoundTyped
  <2>12. OfficialHandled'
    BY <1>1, <1>3, <2>4 DEF OfficialHandled, Keeps
  <2>13. CallsTrue'
    <3>1. \A call \in AllCalls : CallTrue(call)'
      BY <1>1, <1>3, <2>4, CallsStay
    <3>2. ASSUME NEW kind \in {"remotes", "generic", "cameras"} PROVE CallTrue(Callback(kind, devices))'
      <4>1. PICK call : call = Callback(kind, devices)
        OBVIOUS
      <4>2. call.kind = kind /\ call.devices = devices
        BY <4>1 DEF Callback
      <4>3. CallTrue(call)'
        BY <1>3, <1>9, <2>4, <4>2 DEF CallTrue
      <4> QED
        BY <4>1, <4>3
    <3>3. \A call \in AllCalls' : call \in AllCalls \/ \E kind \in {"remotes", "generic", "cameras"} : call = Callback(kind, devices)
      BY <1>5, <2>6, <2>7, <2>9, <2>10 DEF AllCalls
    <3>4. \A call \in AllCalls' : CallTrue(call)'
      BY <3>1, <3>2, <3>3
    <3> QED
      BY <1>1, <1>3, <3>4 DEF CallsTrue
  <2>14. AllPlanned'
    <3> SUFFICES ASSUME NEW a \in inMap \ unbound PROVE Planned(a)'
      BY <1>3 DEF AllPlanned
    <3>1. CASE a \in devices
      <4>1. g \in Due'
        BY <1>3, <2>6, <2>7, <2>9, <2>10 DEF Due
      <4> QED
        BY <2>8, <3>1, <4>1 DEF Planned
    <3>2. CASE a \notin devices
      <4>1. Planned(a)
        BY <1>1, <1>6 DEF AllPlanned
      <4>2. Keeps(a)
        BY <1>1, <2>4 DEF FoundTyped
      <4>3. \A j \in ToSet(jobs) : j.kind = "discover" /\ a \in j.devices => j \in ToSet(jobs')
        BY <1>5, <1>7, <2>10, <3>2
      <4>4. \A call \in Due : call.kind = "generic" /\ a \in call.devices => call \in Due'
        BY <1>3, <1>5, <1>7, <2>6, <2>10, <3>2 DEF Due
      <4> QED
        BY <1>3, <4>1, <4>2, <4>3, <4>4, PlannedStays
    <3> QED
      BY <3>1, <3>2
  <2> QED
    BY <1>10, <2>4, <2>11, <2>12, <2>13, <2>14 DEF FoundInv
<1>12. CASE job.kind # "discover"
  <2>1. handledBy' = handledBy /\ toRun' = toRun /\ jobs' = rest
    BY <1>2, <1>12 DEF RunJob
  <2>2. FoundTyped'
    BY <1>1, <1>3, <1>5, <2>1 DEF FoundTyped
  <2>3. OfficialHandled'
    BY <1>1, <1>3, <2>1 DEF OfficialHandled
  <2>4. AllCalls' \subseteq AllCalls
    BY <1>5, <2>1 DEF AllCalls
  <2>5. ASSUME NEW call \in AllCalls PROVE CallTrue(call)'
    BY <1>1, <1>3, <2>1 DEF CallsTrue, CallTrue
  <2>6. CallsTrue'
    BY <1>1, <1>3, <2>4, <2>5 DEF CallsTrue
  <2>7. Left' = Left
    BY <1>3, <2>1 DEF Left
  <2>8. \A call \in Due : call = job \/ call \in Due'
    BY <1>3, <1>5, <2>1, <2>7 DEF Due
  <2>9. CASE job.kind = "generic"
    <3>1. AddGeneric(devices)
      BY <1>2, <1>7, <2>9 DEF RunJob
    <3>2. \A a \in devices : Tried(a, handledBy[a], DescsOf(catalogue, a))
      BY <1>7, <1>8, <2>9 DEF CallTrue
    <3>3. /\ DevicesTrue' /\ \A a \in Appliances : Keeps(a)
          /\ \A a \in devices : Covered(a, handledBy'[a], entitiesOf'[a], DescsOf(catalogue, a))
      BY <1>1, <1>3, <1>9, <2>1, <3>1, <3>2, GenericDevices
    <3>4. AllPlanned'
      <4> SUFFICES ASSUME NEW a \in inMap \ unbound PROVE Planned(a)'
        BY <1>3 DEF AllPlanned
      <4>1. CASE a \in devices
        <5>1. Covered(a, handledBy'[a], entitiesOf'[a], DescsOf(catalogue', a))
          BY <1>3, <3>3, <4>1
        <5> QED
          BY <5>1 DEF Planned
      <4>2. CASE a \notin devices
        <5>1. Planned(a)
          BY <1>1, <1>6 DEF AllPlanned
        <5>2. Keeps(a)
          BY <1>1, <3>3 DEF FoundTyped
        <5>3. \A j \in ToSet(jobs) : j.kind = "discover" /\ a \in j.devices => j \in ToSet(jobs')
          BY <1>5, <1>7, <2>1, <4>2
        <5>4. \A call \in Due : call.kind = "generic" /\ a \in call.devices => call \in Due'
          BY <1>7, <2>8, <4>2
        <5> QED
          BY <1>3, <5>1, <5>2, <5>3, <5>4, PlannedStays
      <4> QED
        BY <4>1, <4>2
    <3> QED
      BY <1>10, <2>2, <2>3, <2>6, <3>3, <3>4 DEF FoundInv
  <2>10. CASE job.kind # "generic"
    <3>1. job.kind = "remove" /\ entitiesOf' = [a \in Appliances |-> IF a \in devices THEN {} ELSE entitiesOf[a]]
      BY <1>2, <1>7, <1>12, <2>10 DEF RunJob
    <3>2. devices \subseteq unbound
      BY <1>7, <1>8, <3>1 DEF CallTrue
    <3>3. DevicesTrue'
      <4> SUFFICES ASSUME NEW a \in Appliances
                   PROVE  /\ EntitiesTrue(a, handledBy[a], entitiesOf'[a], DescsOf(catalogue, a))
                          /\ a \notin unbound => ShownTrue(catalogue, a, handledBy[a], entitiesOf'[a])
        BY <1>3, <2>1 DEF DevicesTrue
      <4>1. CASE a \in devices
        <5>1. entitiesOf'[a] = {}
          BY <3>1, <4>1
        <5> QED
          BY <3>2, <4>1, <5>1 DEF EntitiesTrue
      <4>2. CASE a \notin devices
        <5>1. entitiesOf'[a] = entitiesOf[a]
          BY <3>1, <4>2
        <5> QED
          BY <1>1, <5>1 DEF DevicesTrue
      <4> QED
        BY <4>1, <4>2
    <3>4. AllPlanned'
      <4> SUFFICES ASSUME NEW a \in inMap \ unbound PROVE Planned(a)'
        BY <1>3 DEF AllPlanned
      <4>1. a \notin devices /\ a \in Appliances
        BY <1>1, <3>2 DEF FoundTyped
      <4>2. Planned(a)
        BY <1>1, <1>6 DEF AllPlanned
      <4>3. Keeps(a)
        BY <2>1, <3>1, <4>1 DEF Keeps
      <4>4. \A j \in ToSet(jobs) : j.kind = "discover" /\ a \in j.devices => j \in ToSet(jobs')
        BY <1>5, <1>7, <2>1, <4>1
      <4>5. \A call \in Due : call.kind = "generic" /\ a \in call.devices => call \in Due'
        BY <1>7, <2>8, <4>1
      <4> QED
        BY <1>3, <4>2, <4>3, <4>4, <4>5, PlannedStays
    <3> QED
      BY <1>10, <2>2, <2>3, <2>6, <3>3, <3>4 DEF FoundInv
  <2> QED
    BY <2>9, <2>10
<1> QED
  BY <1>11, <1>12

(* A step of another thread, or a removal.                                 *)
LEMMA OutsideInv ==
    ASSUME FoundInv, setup \notin Beginning, setup' = setup,
           catalogue' = catalogue, table' = table, handledBy' = handledBy, entitiesOf' = entitiesOf,
           toRun' = toRun, turn' = turn,
           inMap \subseteq inMap', inMap' \subseteq Appliances, unbound \subseteq unbound', unbound' \subseteq inMap',
           jobs' \in Seq(Call), ToSet(jobs) \subseteq ToSet(jobs'),
           \A job \in ToSet(jobs') : job \in ToSet(jobs) \/ (job.kind \in {"discover", "remove"} /\ CallTrue(job)'),
           binder' \in [Binders -> Bindings],
           \A b \in Binders : binder'[b].step = "announce" => binder'[b].device \in inMap',
           \A a \in inMap, b \in Binders : binder[b].step = "announce" /\ binder[b].device = a => Planned(a)',
           \A a \in inMap' \ inMap : Planned(a)'
    PROVE  FoundInv'
<1>1. FoundTyped /\ AtFirst /\ OfficialHandled /\ DevicesTrue /\ CallsTrue /\ AllPlanned
  BY DEF FoundInv
<1>2. FoundTyped'
  BY <1>1 DEF FoundTyped
<1>3. AtFirst'
  BY <1>1 DEF AtFirst, Beginning
<1>4. OfficialHandled'
  BY <1>1 DEF OfficialHandled
<1>5. DevicesTrue'
  BY <1>1, SameDevices
<1>6. CallsTrue'
  <2>1. \A call \in AllCalls : CallTrue(call)'
    BY <1>1, CallsStay, KeepsSelf
  <2>2. \A call \in AllCalls' : call \in AllCalls \/ CallTrue(call)'
    BY DEF AllCalls
  <2> QED
    BY <2>1, <2>2 DEF CallsTrue
<1>7. AllPlanned'
  <2> SUFFICES ASSUME NEW a \in inMap' \ unbound' PROVE Planned(a)'
    BY DEF AllPlanned
  <2>1. CASE a \notin inMap
    BY <2>1
  <2>2. CASE a \in inMap
    <3>1. Planned(a)
      BY <1>1, <2>2 DEF AllPlanned
    <3>2. Due \subseteq Due'
      BY DEF Due, Left
    <3>3. CASE Covered(a, handledBy[a], entitiesOf[a], DescsOf(catalogue, a))
      BY <3>3 DEF Planned
    <3>4. CASE \E b \in Binders : binder[b].step = "announce" /\ binder[b].device = a
      BY <2>2, <3>4
    <3>5. CASE \E job \in ToSet(jobs) : job.kind = "discover" /\ a \in job.devices
      BY <3>5 DEF Planned
    <3>6. CASE \E call \in Due : call.kind = "generic" /\ a \in call.devices
      BY <3>2, <3>6 DEF Planned
    <3> QED
      BY <3>1, <3>3, <3>4, <3>5, <3>6 DEF Planned
  <2> QED
    BY <2>1, <2>2
<1> QED
  BY <1>2, <1>3, <1>4, <1>5, <1>6, <1>7 DEF FoundInv

LEMMA BindingIs ==
    ASSUME NEW b \in Binders, binder \in [Binders -> Bindings]
    PROVE  /\ binder[b].step \in {"none", "fetch", "announce"}
           /\ binder[b].step = "none" <=> binder[b] = NoBinding
           /\ binder[b].step # "none" => binder[b].device \in Appliances /\ binder[b] \in Bindings
<1>1. CASE binder[b] = NoBinding
  BY <1>1 DEF NoBinding
<1>2. CASE binder[b] \in [step : {"fetch", "announce"}, device : Appliances]
  <2>1. NoBinding.step = "none"
    BY DEF NoBinding
  <2> QED
    BY <1>2, <2>1 DEF Bindings
<1> QED
  BY <1>1, <1>2 DEF Bindings

LEMMA BindInv == ASSUME FoundInv, NEW b \in Binders, Bind(b) PROVE FoundInv'
<1>1. FoundTyped /\ CallsTrue /\ AllPlanned
  BY DEF FoundInv
<1>2. /\ Listening /\ binder[b] = NoBinding
      /\ setup' = setup /\ catalogue' = catalogue /\ table' = table /\ inMap' = inMap /\ handledBy' = handledBy
      /\ entitiesOf' = entitiesOf /\ toRun' = toRun /\ turn' = turn /\ jobs' = jobs /\ unbound' = unbound
  BY DEF Bind
<1>3. PICK a \in Appliances \ inMap : binder' = [binder EXCEPT ![b] = [step |-> "fetch", device |-> a]]
  BY DEF Bind
<1>4. PICK new : new = [step |-> "fetch", device |-> a]
  OBVIOUS
<1>5. new \in Bindings /\ new.step = "fetch"
  BY <1>4 DEF Bindings
<1>6. binder \in [Binders -> Bindings]
  BY <1>1 DEF FoundTyped
<1>7. /\ binder' \in [Binders -> Bindings] /\ binder'[b] = new
      /\ \A c \in Binders : c # b => binder'[c] = binder[c]
  BY <1>3, <1>4, <1>5, <1>6
<1>8. setup \notin Beginning
  BY <1>2 DEF Beginning, Listening
<1>9. binder[b].step # "announce"
  BY <1>2, NotAnnounced
<1>10. \A c \in Binders : binder'[c].step = "announce" => binder'[c].device \in inMap'
  BY <1>1, <1>2, <1>5, <1>7 DEF CallsTrue
<1>11. ASSUME NEW x \in inMap, NEW c \in Binders, binder[c].step = "announce" /\ binder[c].device = x PROVE Planned(x)'
  <2>1. c # b
    BY <1>9, <1>11
  <2>2. binder'[c].step = "announce" /\ binder'[c].device = x
    BY <1>7, <1>11, <2>1
  <2> QED
    BY <2>2 DEF Planned
<1>12. jobs' \in Seq(Call) /\ inMap' \subseteq Appliances /\ unbound' \subseteq inMap'
  BY <1>1, <1>2 DEF FoundTyped
<1>13. /\ inMap \subseteq inMap' /\ unbound \subseteq unbound' /\ ToSet(jobs) \subseteq ToSet(jobs')
       /\ inMap' \ inMap = {} /\ \A job \in ToSet(jobs') : job \in ToSet(jobs)
  BY <1>2
<1>14. \A x \in inMap' \ inMap : Planned(x)'
  BY <1>13
<1>15. \A j \in ToSet(jobs') : j \in ToSet(jobs) \/ (j.kind \in {"discover", "remove"} /\ CallTrue(j)')
  BY <1>13
<1> QED
  BY <1>2, <1>7, <1>8, <1>10, <1>11, <1>12, <1>13, <1>14, <1>15, OutsideInv

LEMMA JoinInv == ASSUME FoundInv, NEW b \in Binders, Join(b) PROVE FoundInv'
<1>1. FoundTyped /\ AtFirst /\ CallsTrue
  BY DEF FoundInv
<1>2. /\ binder[b].step = "fetch"
      /\ setup' = setup /\ catalogue' = catalogue /\ table' = table /\ handledBy' = handledBy
      /\ entitiesOf' = entitiesOf /\ toRun' = toRun /\ turn' = turn /\ jobs' = jobs /\ unbound' = unbound
      /\ inMap' = inMap \cup {binder[b].device} /\ binder' = [binder EXCEPT ![b].step = "announce"]
  BY DEF Join
<1>3. binder \in [Binders -> Bindings]
  BY <1>1 DEF FoundTyped
<1>4. PICK old, a : old = binder[b] /\ a = binder[b].device
  OBVIOUS
<1>5. old \in [step : {"fetch", "announce"}, device : Appliances] /\ a = old.device
  <2>1. NoBinding.step = "none"
    BY DEF NoBinding
  <2> QED
    BY <1>2, <1>3, <1>4, <2>1 DEF Bindings
<1>6. PICK new : new = [old EXCEPT !.step = "announce"]
  OBVIOUS
<1>7. new \in Bindings /\ new.step = "announce" /\ new.device = a /\ a \in Appliances
  BY <1>5, <1>6 DEF Bindings
<1>8. binder' = [binder EXCEPT ![b] = new]
  BY <1>2, <1>4, <1>6
<1>9. /\ binder' \in [Binders -> Bindings] /\ binder'[b] = new
      /\ \A c \in Binders : c # b => binder'[c] = binder[c]
  BY <1>3, <1>7, <1>8
<1>10. setup \notin Beginning
  <2>1. binder[b] # NoBinding
    BY <1>2 DEF NoBinding
  <2> QED
    BY <1>1, <2>1 DEF AtFirst
<1>11. inMap' = inMap \cup {a}
  BY <1>2, <1>4
<1>12. \A c \in Binders : binder'[c].step = "announce" => binder'[c].device \in inMap'
  BY <1>1, <1>7, <1>9, <1>11 DEF CallsTrue
<1>13. ASSUME NEW x \in inMap, NEW c \in Binders, binder[c].step = "announce" /\ binder[c].device = x PROVE Planned(x)'
  <2>1. c # b
    BY <1>2, <1>13
  <2>2. binder'[c].step = "announce" /\ binder'[c].device = x
    BY <1>9, <1>13, <2>1
  <2> QED
    BY <2>2 DEF Planned
<1>14. ASSUME NEW x \in inMap' \ inMap PROVE Planned(x)'
  <2>1. binder'[b].step = "announce" /\ binder'[b].device = x
    BY <1>7, <1>9, <1>11, <1>14
  <2> QED
    BY <2>1 DEF Planned
<1>15. jobs' \in Seq(Call) /\ inMap' \subseteq Appliances /\ unbound' \subseteq inMap'
  BY <1>1, <1>2, <1>7, <1>11 DEF FoundTyped
<1>16. /\ inMap \subseteq inMap' /\ unbound \subseteq unbound' /\ ToSet(jobs) \subseteq ToSet(jobs')
       /\ \A job \in ToSet(jobs') : job \in ToSet(jobs)
  BY <1>2, <1>11
<1>17. \A j \in ToSet(jobs') : j \in ToSet(jobs) \/ (j.kind \in {"discover", "remove"} /\ CallTrue(j)')
  BY <1>16
<1> QED
  BY <1>2, <1>9, <1>10, <1>12, <1>13, <1>14, <1>15, <1>16, <1>17, OutsideInv

LEMMA AnnounceInv == ASSUME FoundInv, NEW b \in Binders, Announce(b) PROVE FoundInv'
<1>1. FoundTyped /\ AtFirst /\ CallsTrue
  BY DEF FoundInv
<1>2. /\ binder[b].step = "announce"
      /\ setup' = setup /\ catalogue' = catalogue /\ table' = table /\ inMap' = inMap /\ handledBy' = handledBy
      /\ entitiesOf' = entitiesOf /\ toRun' = toRun /\ turn' = turn /\ unbound' = unbound
      /\ jobs' = Append(jobs, Callback("discover", {binder[b].device})) /\ binder' = [binder EXCEPT ![b] = NoBinding]
  BY DEF Announce
<1>3. binder \in [Binders -> Bindings] /\ jobs \in Seq(Call) /\ inMap \subseteq Appliances /\ unbound \subseteq inMap
  BY <1>1 DEF FoundTyped
<1>4. PICK a : a = binder[b].device
  OBVIOUS
<1>5. a \in inMap /\ a \in Appliances
  BY <1>1, <1>2, <1>3, <1>4 DEF CallsTrue
<1>6. PICK job : job = Callback("discover", {a})
  OBVIOUS
<1>7. job \in Call /\ job.kind = "discover" /\ job.devices = {a}
  BY <1>5, <1>6 DEF Call, Callback
<1>8. jobs' = Append(jobs, job)
  BY <1>2, <1>4, <1>6
<1>9. jobs' \in Seq(Call) /\ ToSet(jobs') = ToSet(jobs) \cup {job}
  BY <1>3, <1>7, <1>8, AppendedSet
<1>10. CallTrue(job)'
  BY <1>2, <1>5, <1>7 DEF CallTrue
<1>11. /\ binder' \in [Binders -> Bindings] /\ binder'[b] = NoBinding
       /\ \A c \in Binders : c # b => binder'[c] = binder[c]
  BY <1>2, <1>3 DEF Bindings
<1>12. setup \notin Beginning
  <2>1. binder[b] # NoBinding
    BY <1>2 DEF NoBinding
  <2> QED
    BY <1>1, <2>1 DEF AtFirst
<1>13. \A c \in Binders : binder'[c].step = "announce" => binder'[c].device \in inMap'
  <2>1. NoBinding.step # "announce"
    BY DEF NoBinding
  <2> QED
    BY <1>1, <1>2, <1>11, <2>1 DEF CallsTrue
<1>14. ASSUME NEW x \in inMap, NEW c \in Binders, binder[c].step = "announce" /\ binder[c].device = x PROVE Planned(x)'
  <2>1. CASE c # b
    <3>1. binder'[c].step = "announce" /\ binder'[c].device = x
      BY <1>11, <1>14, <2>1
    <3> QED
      BY <3>1 DEF Planned
  <2>2. CASE c = b
    <3>1. job \in ToSet(jobs') /\ job.kind = "discover" /\ x \in job.devices
      BY <1>4, <1>7, <1>9, <1>14, <2>2
    <3> QED
      BY <3>1 DEF Planned
  <2> QED
    BY <2>1, <2>2
<1>15. \A j \in ToSet(jobs') : j \in ToSet(jobs) \/ (j.kind \in {"discover", "remove"} /\ CallTrue(j)')
  BY <1>7, <1>9, <1>10
<1>16. /\ inMap \subseteq inMap' /\ inMap' \subseteq Appliances /\ unbound \subseteq unbound' /\ unbound' \subseteq inMap'
       /\ ToSet(jobs) \subseteq ToSet(jobs') /\ inMap' \ inMap = {}
  BY <1>2, <1>3, <1>9
<1>17. \A x \in inMap' \ inMap : Planned(x)'
  BY <1>16
<1> QED
  BY <1>2, <1>9, <1>11, <1>12, <1>13, <1>14, <1>15, <1>16, <1>17, OutsideInv

LEMMA UnbindInv == ASSUME FoundInv, NEW a \in Appliances, Unbind(a) PROVE FoundInv'
<1>1. FoundTyped /\ CallsTrue
  BY DEF FoundInv
<1>2. /\ Listening /\ a \in inMap \ unbound
      /\ setup' = setup /\ catalogue' = catalogue /\ table' = table /\ inMap' = inMap /\ handledBy' = handledBy
      /\ entitiesOf' = entitiesOf /\ toRun' = toRun /\ turn' = turn /\ binder' = binder
      /\ unbound' = unbound \cup {a} /\ jobs' = Append(jobs, Callback("remove", {a}))
  BY DEF Unbind
<1>3. binder \in [Binders -> Bindings] /\ jobs \in Seq(Call) /\ inMap \subseteq Appliances /\ unbound \subseteq inMap
  BY <1>1 DEF FoundTyped
<1>4. PICK job : job = Callback("remove", {a})
  OBVIOUS
<1>5. job \in Call /\ job.kind = "remove" /\ job.devices = {a}
  BY <1>4 DEF Call, Callback
<1>6. jobs' \in Seq(Call) /\ ToSet(jobs') = ToSet(jobs) \cup {job}
  <2>1. jobs' = Append(jobs, job)
    BY <1>2, <1>4
  <2> QED
    BY <1>3, <1>5, <2>1, AppendedSet
<1>7. CallTrue(job)'
  BY <1>2, <1>5 DEF CallTrue
<1>8. setup \notin Beginning
  BY <1>2 DEF Beginning, Listening
<1>9. \A c \in Binders : binder'[c].step = "announce" => binder'[c].device \in inMap'
  BY <1>1, <1>2 DEF CallsTrue
<1>10. ASSUME NEW x \in inMap, NEW c \in Binders, binder[c].step = "announce" /\ binder[c].device = x PROVE Planned(x)'
  <2>1. binder'[c].step = "announce" /\ binder'[c].device = x
    BY <1>2, <1>10
  <2> QED
    BY <2>1 DEF Planned
<1>11. \A j \in ToSet(jobs') : j \in ToSet(jobs) \/ (j.kind \in {"discover", "remove"} /\ CallTrue(j)')
  BY <1>5, <1>6, <1>7
<1>12. /\ binder' \in [Binders -> Bindings] /\ inMap \subseteq inMap' /\ inMap' \subseteq Appliances
       /\ unbound \subseteq unbound' /\ unbound' \subseteq inMap' /\ inMap' \ inMap = {}
  BY <1>2, <1>3
<1>13. ToSet(jobs) \subseteq ToSet(jobs')
  BY <1>6
<1>14. \A x \in inMap' \ inMap : Planned(x)'
  BY <1>12
<1> QED
  BY <1>2, <1>6, <1>8, <1>9, <1>10, <1>11, <1>12, <1>13, <1>14, OutsideInv

LEMMA FoundStutter == ASSUME FoundInv, UNCHANGED foundVars PROVE FoundInv'
<1>1. /\ setup' = setup /\ catalogue' = catalogue /\ table' = table /\ inMap' = inMap /\ handledBy' = handledBy
      /\ entitiesOf' = entitiesOf /\ toRun' = toRun /\ turn' = turn /\ jobs' = jobs /\ binder' = binder
      /\ unbound' = unbound
  BY DEF foundVars
<1>2. FoundTyped' = FoundTyped /\ AtFirst' = AtFirst /\ OfficialHandled' = OfficialHandled
  BY <1>1 DEF FoundTyped, AtFirst, OfficialHandled
<1>3. DevicesTrue' = DevicesTrue
  BY <1>1 DEF DevicesTrue
<1>4. CallsTrue' = CallsTrue
  BY <1>1 DEF CallsTrue, CallTrue, AllCalls
<1>5. AllPlanned' = AllPlanned
  BY <1>1 DEF AllPlanned, Planned, Due, Left
<1> QED
  BY <1>2, <1>3, <1>4, <1>5 DEF FoundInv

LEMMA FoundNextInv == ASSUME FoundInv, [FoundNext]_foundVars PROVE FoundInv'
<1>1. CASE \E b \in Binders : Bind(b) \/ Join(b) \/ Announce(b)
  BY <1>1, BindInv, JoinInv, AnnounceInv
<1>2. CASE \E a \in Appliances : Unbind(a)
  BY <1>2, UnbindInv
<1>3. CASE UNCHANGED foundVars
  BY <1>3, FoundStutter
<1>4. CASE RegisterOfficial \/ LoadParsers \/ SetupPlatform
  BY <1>4, RegisterOfficialInv, LoadParsersInv, SetupPlatformInv
<1>5. CASE StartCallbacks \/ RunCallback \/ CallbackAnswered \/ NextPriority \/ LoadingFinalized
  BY <1>5, StartCallbacksInv, RunCallbackInv, CallbackAnsweredInv, NextPriorityInv, LoadingFinalizedInv
<1>6. CASE RunJob
  BY <1>6, RunJobInv
<1> QED
  BY <1>1, <1>2, <1>3, <1>4, <1>5, <1>6 DEF FoundNext

-----------------------------------------------------------------------------
(* What follows for the codes                                              *)

(* One code of a device whose entities are there.                          *)
LEMMA CodeShown ==
    ASSUME NEW cat, NEW a, NEW descs, NEW handled, NEW entities,
           EntitiesTrue(a, handled, entities, descs), ShownTrue(cat, a, handled, entities),
           Covered(a, handled, entities, descs),
           NEW code \in Appliance[a].status \cap Appliance[a].described,
           Official(cat, a, code) => <<code>> \in handled,
           NEW ours, \A e : e \in ours <=> e \in entities /\ e.code = code,
           NEW generic, \A e : e \in generic <=> e \in ours /\ e.generic
    PROVE  /\ generic # {} => ours = generic /\ ~Official(cat, a, code)
           /\ (\E desc \in descs : CodeOf(desc) = code) => generic = {} /\ (ours # {} \/ Official(cat, a, code))
           /\ code \in Appliance[a].suited => ours # {} \/ Official(cat, a, code)
<1>1. \A e \in ours : \/ e.generic = FALSE /\ <<code>> \in handled
                      \/ e.generic = TRUE /\ <<code>> \notin handled
  BY DEF EntitiesTrue
<1>2. <<code>> \in handled => generic = {}
  BY <1>1
<1>3. <<code>> \notin handled => ours = generic
  BY <1>1
<1>4. <<code>> \in handled => Official(cat, a, code) \/ ours # {}
  BY DEF ShownTrue
<1>5. (\E desc \in descs : CodeOf(desc) = code) => <<code>> \in handled
  BY DEF Covered, Tried
<1>6. code \in Appliance[a].suited => <<code>> \in handled \/ ours # {}
  BY DEF Covered, Suiting
<1> QED
  BY <1>2, <1>3, <1>4, <1>5, <1>6

LEMMA FoundImplies == ASSUME FoundInv PROVE FoundTypeOK /\ CodesShown
<1>1. FoundTyped /\ OfficialHandled /\ DevicesTrue /\ AllPlanned
  BY DEF FoundInv
<1>2. FoundTypeOK
  <2>1. \A a \in Appliances : \A e \in entitiesOf[a] : e.generic \in BOOLEAN
    BY <1>1 DEF DevicesTrue, EntitiesTrue
  <2>2. turn.priority \in Priorities
    BY <1>1 DEF FoundTyped
  <2> QED
    BY <1>1, <2>1, <2>2 DEF FoundTypeOK, FoundTyped
<1>3. CodesShown
  <2>1. SUFFICES ASSUME Settled, NEW a \in inMap \ unbound, NEW code \in Appliance[a].status \cap Appliance[a].described
        PROVE  LET ours == {e \in entitiesOf[a] : e.code = code}
                   generic == {e \in ours : e.generic}
                   official == a \in AtSetup /\ ~catalogue.overridden /\ code \in Appliance[a].official
               IN  /\ generic # {} => ours = generic /\ ~official
                   /\ HasDescriptor(a, code) => generic = {} /\ (ours # {} \/ official)
                   /\ code \in Appliance[a].suited => ours # {} \/ official
    BY DEF CodesShown
  <2>2. setup = "ready" /\ jobs = <<>> /\ \A b \in Binders : binder[b] = NoBinding
    BY <2>1 DEF Settled
  <2>3. a \in Appliances /\ a \in inMap /\ a \notin unbound /\ catalogue \in Catalogues
    BY <1>1, <2>1 DEF FoundTyped
  <2>4. PICK cat, descs, handled, entities : /\ cat = catalogue /\ descs = DescsOf(catalogue, a)
                                             /\ handled = handledBy[a] /\ entities = entitiesOf[a]
    OBVIOUS
  <2>5. EntitiesTrue(a, handled, entities, descs) /\ ShownTrue(cat, a, handled, entities)
    BY <1>1, <2>3, <2>4 DEF DevicesTrue
  <2>6. Covered(a, handled, entities, descs)
    <3>1. Planned(a)
      BY <1>1, <2>2, <2>3 DEF AllPlanned, Beginning
    <3>2. ToSet(jobs) = {} /\ Due = {}
      BY <2>2, NoneSet DEF Due
    <3>3. \A b \in Binders : binder[b].step # "announce"
      BY <2>2, NotAnnounced
    <3> QED
      BY <2>4, <3>1, <3>2, <3>3 DEF Planned
  <2>7. Official(cat, a, code) => <<code>> \in handled
    BY <1>1, <2>2, <2>3, <2>4 DEF OfficialHandled
  <2>8. PICK ours, generic : ours = {e \in entities : e.code = code} /\ generic = {e \in ours : e.generic}
    OBVIOUS
  <2>9. /\ generic # {} => ours = generic /\ ~Official(cat, a, code)
        /\ (\E desc \in descs : CodeOf(desc) = code) => generic = {} /\ (ours # {} \/ Official(cat, a, code))
        /\ code \in Appliance[a].suited => ours # {} \/ Official(cat, a, code)
    <3>1. \A e : e \in ours <=> e \in entities /\ e.code = code
      BY <2>8
    <3>2. \A e : e \in generic <=> e \in ours /\ e.generic
      BY <2>8
    <3> QED
      BY <2>1, <2>5, <2>6, <2>7, <3>1, <3>2, CodeShown
  <2>10. HasDescriptor(a, code) => \E desc \in descs : CodeOf(desc) = code
    <3> SUFFICES ASSUME NEW desc \in SourceDescriptors(catalogue, Appliance[a].category), CodeOf(desc) = code
                 PROVE  \E other \in descs : CodeOf(other) = code
      BY DEF HasDescriptor
    <3> QED
      BY <2>3, <2>4, DescsFit
  <2> QED
    BY <2>4, <2>8, <2>9, <2>10 DEF Official
<1> QED
  BY <1>2, <1>3

(* The entities and what is on its way are typed as the code keeps them,   *)
(* and the queue of callbacks is never read past its end.                  *)
THEOREM FoundTypesTrue == FoundSpec => []FoundTypeOK
<1>1. FoundInit => FoundInv
  BY FoundInitInv
<1>2. FoundInv /\ [FoundNext]_foundVars => FoundInv'
  BY FoundNextInv
<1>3. FoundInv => FoundTypeOK
  BY FoundImplies
<1> QED
  BY <1>1, <1>2, <1>3, PTL DEF FoundSpec

(* However many devices, descriptors and threads there are: once setup is  *)
(* over and nothing is on its way, every code entities can be made for is  *)
(* shown, by its descriptors' entities or else by one generic entity.      *)
THEOREM EveryCodeShown == FoundSpec => []CodesShown
<1>1. FoundInit => FoundInv
  BY FoundInitInv
<1>2. FoundInv /\ [FoundNext]_foundVars => FoundInv'
  BY FoundNextInv
<1>3. FoundInv => CodesShown
  BY FoundImplies
<1> QED
  BY <1>1, <1>2, <1>3, PTL DEF FoundSpec
=============================================================================
