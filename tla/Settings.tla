------------------------------ MODULE Settings ------------------------------
(***************************************************************************)
(* The settings: the file of the main process (settings.ts and the         *)
(* handlers of index.ts that change it), the copy in each window's         *)
(* settings store, and the draft of the settings dialog.  A save writes    *)
(* all sections from a window's copy, and nothing tells a window what the  *)
(* main process or another window has written since.                       *)
(*                                                                         *)
(* A section's value is the number of the change that made it; 0 is its    *)
(* default.  Some sections stand for several of the same kind.             *)
(***************************************************************************)
EXTENDS Naturals, Sequences
CONSTANTS Window,
          MaxChanges,  \* bound: changes the user makes
          MaxCalls,    \* bound: calls of a window under way
          MaxFaults    \* bound: failed writes and files edited by hand

Fields == {"fields", "prompts"}  \* of the dialog only
Profiles == "profiles"           \* the instances offered as applications
Section == Fields \cup {Profiles, "sound", "focusKey", "saved"}
  \* focusKey: keybindings.workspaceFocus; saved: what the main process adds,
  \* connections with their port forwards and recent directories

VARIABLES
  file,     \* settings.json
  health,   \* it is "good", "unreadable" (or missing), or "invalid": JSON
            \* whose classifier settings do not parse
  store,    \* useSettingsStore.settings of a window
  loaded,   \* isLoaded
  offered,  \* the instances registered as applications
  draft,    \* the dialog: open, localSettings and the sections edited there
  calls,    \* a window's calls of the main process, in order
  latest,   \* history: each section's last change that was saved
  held,     \* history: the sections that were changed while an older copy
            \* was held elsewhere
  changes, faults
vars == <<file, health, store, loaded, offered, draft, calls, latest, held,
          changes, faults>>

Defaults == [s \in Section |-> 0]
Closed == [open |-> FALSE, at |-> Defaults, edited |-> {}]

Init ==
  /\ file = Defaults /\ health = "unreadable"
  /\ store = [w \in Window |-> Defaults]
  /\ loaded = [w \in Window |-> FALSE]
  /\ offered = [w \in Window |-> 0]
  /\ draft = [w \in Window |-> Closed]
  /\ calls = [w \in Window |-> <<>>]
  /\ latest = Defaults /\ held = {}
  /\ changes = 0 /\ faults = 0

-----------------------------------------------------------------------------
(* The main process.                                                       *)

(* migrateKeybindings knows five of the six actions.                       *)
MigrateKeybindings(f) == [f EXCEPT !.focusKey = 0]

(* loadSettings: a file it cannot parse is replaced by the defaults; one   *)
(* whose classifier settings are invalid stays and the call throws.        *)
Loads == health # "invalid"
Loaded == IF health = "good" THEN MigrateKeybindings(file) ELSE Defaults

(* saveSettings.                                                           *)
SaveSettings(what) == file' = what /\ health' = "good"

Fault == faults < MaxFaults /\ faults' = faults + 1

Change(n) == changes < MaxChanges /\ n = changes + 1 /\ changes' = n

Copied == \E w \in Window : loaded[w] \/ calls[w] # <<>>

(* A read-modify-write of the main process: onSshSaveConnection,           *)
(* onSshRemoveSavedConnection, syncSavedPortForwards, onDialogSelectFolder.*)
MainChangesSaved ==
  /\ Loads
  /\ \E n \in 1..MaxChanges :
       /\ Change(n)
       /\ SaveSettings([Loaded EXCEPT !.saved = n])
       /\ latest' = [(IF health = "good" THEN latest ELSE Defaults) EXCEPT !.saved = n]
  /\ held' = IF ~Copied THEN held ELSE IF health = "good" THEN held \cup {"saved"} ELSE Section
  /\ UNCHANGED <<store, loaded, offered, draft, calls, faults>>

Pending(w) == {i \in DOMAIN calls[w] : calls[w][i].reply = "none"}
Next1(w) == CHOOSE i \in Pending(w) : \A j \in Pending(w) : i <= j

Answer(w, i, reply, what) ==
  calls' = [calls EXCEPT ![w][i].reply = reply, ![w][i].what = what]

(* onSettingsLoad.                                                         *)
HandleLoad(w) ==
  /\ Pending(w) # {}
  /\ LET i == Next1(w) IN
       /\ calls[w][i].kind = "load"
       /\ IF Loads
            THEN /\ Answer(w, i, "done", Loaded)
                 /\ IF health = "good" THEN UNCHANGED <<file, health, latest, held>>
                    ELSE /\ SaveSettings(Defaults) /\ latest' = Defaults
                         /\ held' = IF \E v \in Window : loaded[v] THEN Section ELSE held
            ELSE /\ Answer(w, i, "failed", Defaults)
                 /\ held' = Section \* the window goes on with the defaults
                 /\ UNCHANGED <<file, health, latest>>
  /\ UNCHANGED <<store, loaded, offered, draft, changes, faults>>

(* onSettingsSave.                                                         *)
HandleSave(w) ==
  /\ Pending(w) # {}
  /\ LET i == Next1(w)
         c == calls[w][i]
         changed == {s \in Section : file[s] # c.what[s]}
         stale == {s \in changed : c.kind # "dialog" /\ draft[w].open /\ draft[w].at[s] # c.what[s]}
     IN  /\ c.kind # "load"
         /\ \/ /\ SaveSettings(c.what)
               /\ Answer(w, i, "done", c.what)
               /\ latest' = [s \in Section |-> IF s \in c.own THEN c.what[s] ELSE latest[s]]
               /\ held' = held \cup stale \cup
                    IF \E v \in Window \ {w} : loaded[v] \/ calls[v] # <<>> THEN changed ELSE {}
               /\ UNCHANGED faults
            \/ Fault /\ Answer(w, i, "failed", c.what) /\ UNCHANGED <<file, health, latest, held>>
  /\ UNCHANGED <<store, loaded, offered, draft, changes>>

(* Somebody edits the file by hand, or a write was torn.                   *)
HandEdit ==
  /\ Fault
  /\ health' \in {"unreadable", "invalid"}
  /\ UNCHANGED <<file, store, loaded, offered, draft, calls, latest, held, changes>>

-----------------------------------------------------------------------------
(* The settings store of a window.                                         *)

Call(w, kind, what, own) ==
  /\ Len(calls[w]) < MaxCalls
  /\ calls' = [calls EXCEPT ![w] = Append(@, [kind |-> kind, what |-> what, own |-> own, reply |-> "none"])]
  /\ held' = held \cup {s \in Section \ own :
                 \E i \in DOMAIN calls[w] : s \in calls[w][i].own /\ calls[w][i].what[s] # what[s]}

(* init: the window shows nothing else until the reply.                    *)
Start(w) ==
  /\ ~loaded[w] /\ calls[w] = <<>>
  /\ Call(w, "load", Defaults, {})
  /\ UNCHANGED <<file, health, store, loaded, offered, draft, latest, changes, faults>>

Saving(w) == \E i \in DOMAIN calls[w] : calls[w][i].kind = "sound"

(* toggleSound, refused while one is being saved.                          *)
ToggleSound(w) ==
  /\ loaded[w] /\ ~Saving(w)
  /\ \E n \in 1..MaxChanges :
       Change(n) /\ Call(w, "sound", [store[w] EXCEPT !.sound = n], {"sound"})
  /\ UNCHANGED <<file, health, store, loaded, offered, draft, latest, faults>>

(* updateSetting, called by the prompt debuggers.                          *)
UpdateSetting(w) ==
  /\ loaded[w]
  /\ \E n \in 1..MaxChanges :
       Change(n) /\ Call(w, "field", [store[w] EXCEPT !.prompts = n], {"prompts"})
  /\ UNCHANGED <<file, health, store, loaded, offered, draft, latest, faults>>

(* saveSettings and loadSettings register the instances, toggleSound does  *)
(* not.                                                                    *)
Registers(kind) == kind # "sound"

(* The reply.  A saved dialog closes, one whose save failed stays open.    *)
Reply(w) ==
  /\ calls[w] # <<>> /\ Head(calls[w]).reply # "none"
  /\ calls' = [calls EXCEPT ![w] = Tail(@)]
  /\ LET c == Head(calls[w]) done == c.reply = "done" IN
       /\ loaded' = [loaded EXCEPT ![w] = TRUE]
       /\ store' = IF done THEN [store EXCEPT ![w] = c.what] ELSE store
       /\ offered' = IF done /\ Registers(c.kind)
                       THEN [offered EXCEPT ![w] = c.what[Profiles]] ELSE offered
       /\ draft' = IF done /\ c.kind = "dialog" THEN [draft EXCEPT ![w].open = FALSE] ELSE draft
  /\ UNCHANGED <<file, health, latest, held, changes, faults>>

-----------------------------------------------------------------------------
(* The dialog.                                                             *)

OpenDialogKept(w) == \* a slip: the draft of the last time is shown again
  /\ loaded[w] /\ ~draft[w].open
  /\ draft' = [draft EXCEPT ![w].open = TRUE, ![w].edited = {}]
  /\ UNCHANGED <<file, health, store, loaded, offered, calls, latest, held, changes, faults>>

OpenDialog(w) ==
  /\ loaded[w] /\ ~draft[w].open
  /\ draft' = [draft EXCEPT ![w] = [open |-> TRUE, at |-> store[w], edited |-> {}]]
  /\ held' = held \cup UNION {calls[w][i].own : i \in DOMAIN calls[w]}
  /\ UNCHANGED <<file, health, store, loaded, offered, calls, latest, changes, faults>>

Edit(w, s, value) ==
  /\ draft[w].open
  /\ draft' = [draft EXCEPT ![w].at[s] = value, ![w].edited = @ \cup {s}]
  /\ UNCHANGED <<file, health, store, loaded, offered, calls, latest, held, faults>>

(* A field of the general, terminal, sandbox, appearance, GitHub and debug *)
(* tabs.                                                                   *)
EditField(w) == \E n \in 1..MaxChanges : Change(n) /\ Edit(w, "fields", n)

(* A model, a prompt, a criterion; "Reset to default" takes it back.       *)
EditPrompt(w) == \E n \in 1..MaxChanges : Change(n) /\ Edit(w, "prompts", n)
ResetPrompt(w) == draft[w].at.prompts # 0 /\ Edit(w, "prompts", 0) /\ UNCHANGED changes

(* An instance is added, changed or deleted: harnesses, terminal profiles, *)
(* runners, web apps, browsers.                                            *)
EditProfiles(w) == \E n \in 1..MaxChanges : Change(n) /\ Edit(w, Profiles, n)

(* A key is recorded for an action.                                        *)
RecordKey(w) == \E n \in 1..MaxChanges : Change(n) /\ Edit(w, "focusKey", n)

CloseDialog(w) ==
  /\ draft[w].open
  /\ draft' = [draft EXCEPT ![w].open = FALSE]
  /\ UNCHANGED <<file, health, store, loaded, offered, calls, latest, held, changes, faults>>

(* handleSave.                                                             *)
SaveDialog(w) ==
  /\ draft[w].open /\ \A i \in DOMAIN calls[w] : calls[w][i].what # draft[w].at
  /\ Call(w, "dialog", draft[w].at, draft[w].edited)
  /\ UNCHANGED <<file, health, store, loaded, offered, draft, latest, changes, faults>>

Next ==
  \/ MainChangesSaved \/ HandEdit
  \/ \E w \in Window :
       \/ HandleLoad(w) \/ HandleSave(w) \/ Start(w) \/ Reply(w) \/ ToggleSound(w)
       \/ UpdateSetting(w) \/ OpenDialog(w) \/ EditField(w) \/ EditPrompt(w)
       \/ ResetPrompt(w) \/ EditProfiles(w) \/ RecordKey(w) \/ CloseDialog(w) \/ SaveDialog(w)

Spec == Init /\ [][Next]_vars

-----------------------------------------------------------------------------
(* A change that was saved is in the file until its section is changed     *)
(* again, although every save writes all sections: what is lost is what    *)
(* was changed while somebody held an older copy of it, and the focus key, *)
(* which no load returns.                                                  *)
ChangesSurvive ==
  health = "good" => \A s \in Section \ (held \cup {"focusKey"}) : file[s] = latest[s]

(* A window at rest offers the profiles of its settings.                   *)
ProfilesOffered ==
  \A w \in Window : loaded[w] /\ calls[w] = <<>> =>
    offered[w] = store[w][Profiles] \/ Profiles \in held
=============================================================================
