----------------------------- MODULE ConfigFlow -----------------------------
(***************************************************************************)
(* The dialogs of the integration: the login by a QR code that makes an    *)
(* entry or renews its token (TuyaConfigFlow), and the options dialogs of  *)
(* an entry (TuyaOptionFlow), which write the options of the entry and the *)
(* settings of single entities.                                            *)
(*                                                                         *)
(* An options dialog reads the options and the manager of the entry once,  *)
(* when it opens, and writes what it read back with its change; the entry  *)
(* is reloaded after every change.  A setting is a number, None is no      *)
(* setting; what a form carries is one value.                              *)
(***************************************************************************)
EXTENDS Naturals, FiniteSets

CONSTANTS
    Dialogs,    \* options dialogs that may be open
    MaxWrites,  \* bound: values entered
    MaxLogins   \* bound: QR codes asked for

ASSUME ConfigAssumption == IsFiniteSet(Dialogs) /\ MaxWrites \in Nat /\ MaxLogins \in Nat

VARIABLES
    login,      \* the login dialog: its step, its QR code, whether it is for an entry
    entry,      \* the entry: token, options, whether it is loaded
    settings,   \* settings[k]: what the storage holds for the entity of kind k
    dialog,     \* dialog[d]: an options dialog: its step and what it read when it opened
    writes,     \* values entered so far
    kept,       \* history: what the last completed form of each group entered
    crossed     \* history: the entry changed while an options dialog was open

flowVars == <<login, entry, settings, dialog, writes, kept, crossed>>

Kinds == {"climate", "lock", "cover"}
AppTypes == <<"custom", "tuyaSmart", "smartlife">>
NoSetting == 0
NoDialog == [step |-> "none"]
NoLogin == [step |-> "none", qr |-> "none", renews |-> FALSE]
NoEntry == [exists |-> FALSE, token |-> 0, api |-> [id |-> 0, app |-> "none"], hub |-> 0,
            loaded |-> FALSE]

FlowInit ==
    /\ login = NoLogin /\ entry = NoEntry
    /\ settings = [k \in Kinds |-> NoSetting]
    /\ dialog = [d \in Dialogs |-> NoDialog]
    /\ writes = [values |-> 0, logins |-> 0]
    /\ kept = [api |-> NoEntry.api, hub |-> 0, settings |-> settings]
    /\ crossed = FALSE

Opened == {d \in Dialogs : dialog[d] # NoDialog}
Enters(n) == writes.values < MaxWrites /\ n = writes.values + 1 /\ writes' = [writes EXCEPT !.values = n]

\* The entry is written: Home Assistant reloads it, and other dialogs hold what it was.
Rewritten(e, others) ==
    /\ entry' = [e EXCEPT !.loaded = FALSE]
    /\ crossed' = (crossed \/ others # {})

-----------------------------------------------------------------------------
(* The login dialog. *)

\* __async_get_qr_code: a refused code leaves the last QR code in place.
GetQrCode(next, error) ==
    /\ writes.logins < MaxLogins /\ writes' = [writes EXCEPT !.logins = @ + 1]
    /\ \/ login' = [login EXCEPT !.step = next, !.qr = "shown"]
       \/ login' = [login EXCEPT !.step = error]
    /\ UNCHANGED <<entry, settings, dialog, kept, crossed>>

\* async_step_user and async_step_reauth
StartLogin ==
    /\ login = NoLogin
    /\ login' = [NoLogin EXCEPT !.step = IF entry.exists THEN "reauth" ELSE "user",
                                !.renews = entry.exists]
    /\ UNCHANGED <<entry, settings, dialog, writes, kept, crossed>>

\* The user code is sent; the reauthentication sends the one of the entry first.
UserCode == login.step \in {"user", "code"} /\ GetQrCode("scan", login.step)
Reauth == login.step = "reauth" /\ GetQrCode("scan", "code")

ScanQrCode ==
    /\ login.step = "scan" /\ login.qr = "shown"
    /\ login' = [login EXCEPT !.qr = "scanned"]
    /\ UNCHANGED <<entry, settings, dialog, writes, kept, crossed>>

\* async_step_scan, login_result refused: a new QR code, or the old one again.
ScanFails == login.step = "scan" /\ GetQrCode("scan", "scan")

\* ... or granted: the entry gets the token, or the API is asked for first.
ScanSucceeds ==
    /\ login.step = "scan" /\ login.qr = "scanned"
    /\ IF login.renews
         THEN /\ login' = NoLogin
              /\ Rewritten([entry EXCEPT !.token = writes.logins], Opened)
         ELSE login' = [login EXCEPT !.step = "api"] /\ UNCHANGED <<entry, crossed>>
    /\ UNCHANGED <<settings, dialog, writes, kept>>

\* _try_login_open_api takes the first type of account the cloud accepts.
FirstAccepted(accepted) ==
    AppTypes[CHOOSE i \in 1..3 : AppTypes[i] \in accepted
                                   /\ \A j \in 1..(i - 1) : AppTypes[j] \notin accepted]

\* The choices of the form: without the API, or with what the cloud accepts (none: an error).
ApiChoices(n) ==
    {[id |-> n, app |-> "none"]}
      \cup {[id |-> n, app |-> FirstAccepted(a)] : a \in (SUBSET {AppTypes[i] : i \in 1..3}) \ {{}}}

\* async_step_configure_api of the login: the entry is made.
CreateEntry ==
    /\ login.step = "api"
    /\ \E n \in 1..MaxWrites : Enters(n) /\ \E api \in ApiChoices(n) :
         /\ entry' = [NoEntry EXCEPT !.exists = TRUE, !.token = writes.logins, !.api = api]
         /\ kept' = [kept EXCEPT !.api = api, !.hub = 0]
    /\ login' = NoLogin
    /\ UNCHANGED <<settings, dialog, crossed>>

-----------------------------------------------------------------------------
(* The entry. *)

LoadEntry ==
    /\ entry.exists /\ ~entry.loaded
    /\ entry' = [entry EXCEPT !.loaded = TRUE]
    /\ UNCHANGED <<login, settings, dialog, writes, kept, crossed>>

-----------------------------------------------------------------------------
(* The options dialogs. *)

\* TuyaOptionFlow.__init__; the menus lead to the form of one group.  The forms of an
\* entity need a manager (the entry was loaded) and the entity.
OpenDialog(d) ==
    /\ dialog[d] = NoDialog /\ entry.exists
    /\ \E step \in {"api", "hub"} \cup (IF entry.loaded THEN Kinds ELSE {}) :
         dialog' = [dialog EXCEPT ![d] = [step |-> step, api |-> entry.api, hub |-> entry.hub]]
    /\ UNCHANGED <<login, entry, settings, writes, kept, crossed>>

\* A form without an answer, an error in it, or an abort.
CancelDialog(d) ==
    /\ dialog[d] # NoDialog
    /\ dialog' = [dialog EXCEPT ![d] = NoDialog]
    /\ UNCHANGED <<login, entry, settings, writes, kept, crossed>>

Form(d, step) == dialog[d] # NoDialog /\ dialog[d].step = step /\ entry.exists
Closes(d) == dialog' = [dialog EXCEPT ![d] = NoDialog]

\* Mutant: the other groups of options are not carried over.
ApiOptionsAlone(d, api) == [entry EXCEPT !.api = api, !.hub = 0]

\* async_step_configure_api keeps the other groups.
ApiOptions(d, api) == [entry EXCEPT !.api = api, !.hub = dialog[d].hub]

SaveApi(d) ==
    /\ Form(d, "api")
    /\ \E n \in 1..MaxWrites : Enters(n) /\ \E api \in ApiChoices(n) :
         /\ Rewritten(ApiOptions(d, api), Opened \ {d})
         /\ kept' = [kept EXCEPT !.api = api]
    /\ Closes(d)
    /\ UNCHANGED <<login, settings>>

\* async_step_hub_settings; a custom plan without a limit is an error of the form.
SaveHub(d) ==
    /\ Form(d, "hub")
    /\ \E n \in 1..MaxWrites :
         /\ Enters(n)
         /\ Rewritten([entry EXCEPT !.api = dialog[d].api, !.hub = n], Opened \ {d})
         /\ kept' = [kept EXCEPT !.hub = n]
    /\ Closes(d)
    /\ UNCHANGED <<login, settings>>

\* The form of an entity of one kind is completed: the settings of the entity are replaced
\* in its store (a value of nothing is no setting), then the options are written back as
\* they were read.
SaveSetting(d, k) ==
    /\ Form(d, k)
    /\ \E n \in 1..MaxWrites : Enters(n) /\ \E value \in {NoSetting, n} :
         /\ settings' = [settings EXCEPT ![k] = value]
         /\ kept' = [kept EXCEPT !.settings[k] = value]
    /\ Rewritten([entry EXCEPT !.api = dialog[d].api, !.hub = dialog[d].hub], Opened \ {d})
    /\ Closes(d)
    /\ UNCHANGED login

\* async_step_climate_device_settings: a multiplicator of 0 is none.
ClimateSettings(d) == SaveSetting(d, "climate")
\* async_step_lock_device_settings: an unlock time below 0.1 s is none.
LockSettings(d) == SaveSetting(d, "lock")
\* async_step_cover_device_settings: an opening time of at most 0.1 s is none; the one
\* setting goes to every cover of the device.
CoverSettings(d) == SaveSetting(d, "cover")

-----------------------------------------------------------------------------
FlowNext ==
    \/ StartLogin \/ UserCode \/ Reauth \/ ScanQrCode \/ ScanFails \/ ScanSucceeds \/ CreateEntry
    \/ LoadEntry
    \/ \E d \in Dialogs : \/ OpenDialog(d) \/ CancelDialog(d) \/ SaveApi(d) \/ SaveHub(d)
                          \/ ClimateSettings(d) \/ LockSettings(d) \/ CoverSettings(d)

FlowSpec == FlowInit /\ [][FlowNext]_flowVars

-----------------------------------------------------------------------------
(* Properties. *)

FlowTypeOK ==
    /\ login \in [step : {"none", "user", "reauth", "code", "scan", "api"},
                  qr : {"none", "shown", "scanned"}, renews : BOOLEAN]
    /\ entry.exists \in BOOLEAN /\ entry.token \in 0..MaxLogins /\ entry.hub \in 0..MaxWrites
    /\ entry.api.id \in 0..MaxWrites /\ entry.api.app \in {AppTypes[i] : i \in 1..3} \cup {"none"}
    /\ settings \in [Kinds -> 0..MaxWrites]
    /\ \A d \in Opened : dialog[d].step \in {"api", "hub"} \cup Kinds
    /\ crossed \in BOOLEAN

\* A form changes what it shows and nothing else: whatever dialogs were opened, left,
\* refused or completed, the options of the entry and the settings of its entities are
\* what was entered last for each of them, unless the entry changed under an open
\* dialog (which then writes back what it had read).
SettingsKept ==
    crossed \/ (/\ entry.exists => entry.api = kept.api /\ entry.hub = kept.hub
                /\ settings = kept.settings)
=============================================================================
