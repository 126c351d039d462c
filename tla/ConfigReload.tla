----------------------------- MODULE ConfigReload -----------------------------
(***************************************************************************)
(* Where the configuration is read: the daemon's own copy, replaced by the *)
(* evictor after SIGHUP and by any connection that asks for a reload; the  *)
(* copy that mgd-kde keeps of its sections; the file as its user and       *)
(* `mgctl calibrate --passive-apply` write it; and the suggestion of the   *)
(* calibrator, which every load lays over the file.  Of a file's text the  *)
(* two lower tiers of [psi] and the presence of [[protect]] are kept.      *)
(***************************************************************************)
EXTENDS Integers

CONSTANTS
    Texts,      \* what the user may write into ~/.config/mgd/priorities.toml
    Default,    \* PsiThresholds::default(), the lower two
    System,     \* the text of /etc/mgd/priorities.toml, or Absent
    Suggested,  \* elevated_pct as the calibrator may suggest it
    Absent, Broken,  \* no file; text that is not TOML
    Nothing,    \* no copy
    MaxEdits,   \* bound: changes of the files
    MaxTold     \* bound: ConfigReload on their way to mgd-kde

Content == [elevated : Nat, high : Nat, protects : BOOLEAN]

TextsAssumption ==
    /\ Texts \subseteq Content /\ System \in Content \cup {Absent}
    /\ Default \in [elevated : Nat \ {0}, high : Nat] /\ Default.elevated < Default.high
    /\ Absent # Broken /\ {Absent, Broken, Nothing} \cap Content = {}
EditsAssumption ==
    Suggested \subseteq Nat \ {0} /\ MaxEdits \in Nat /\ MaxTold \in Nat \ {0}

VARIABLES
    user,       \* the file in the home directory
    sug,        \* elevated_pct in calibration_suggestion.toml, or 0
    cell,       \* CONFIG
    flag,       \* RELOAD_CONFIG
    reload,     \* for the evictor and a connection, the step of config::reload it is at
    got,        \* and what it holds
    copy,       \* PLUGIN_CONFIG
    reading,    \* what mgd-kde has read, with the lock of PLUGIN_CONFIG held
    told,       \* ConfigReload that mgd-kde has not handled
    apply,      \* the step of --passive-apply
    patch,      \* the text it is going to write
    edits, edited, beside  \* history: changes; one since the last request; two reloads at once

fileVars   == <<user, sug, edits, edited>>
daemonVars == <<cell, flag, reload, got, beside>>
pluginVars == <<copy, reading, told>>
applyVars  == <<apply, patch>>
configVars == <<fileVars, daemonVars, pluginVars, applyVars>>

Reloaders == {"evictor", "connection"}

-----------------------------------------------------------------------------
Text(psi, protects) ==
    [elevated |-> psi.elevated, high |-> psi.high, protects |-> protects]

Empty   == Text(Default, FALSE)
Builtin == Text(Default, TRUE)

\* compile: tiers that are not increasing are given up as a whole.
Compile(f) == IF 0 < f.elevated /\ f.elevated < f.high THEN f ELSE Text(Default, f.protects)

\* The file that is read, whatever is in it.
Source(u) == IF u # Absent THEN u ELSE IF System # Absent THEN System ELSE Builtin

\* The rest of load; no suggestion is laid over the built-in text after an error.
Load(f, s) ==
    IF f = Broken THEN Builtin
    ELSE IF s = 0 THEN Compile(f) ELSE [Compile(f) EXCEPT !.elevated = s]

\* load_plugin_config_from_disk goes on to the next file after an error.
Found(u) == IF u \in Content THEN u ELSE IF System \in Content THEN System ELSE Empty

\* patch_psi_block, on nothing if the file cannot be read.
Patched(u, s) ==
    IF u = Broken THEN Broken
    ELSE [(IF u = Absent THEN Empty ELSE u) EXCEPT !.elevated = s]

-----------------------------------------------------------------------------
Init ==
    /\ user \in Texts \cup {Absent} /\ sug \in Suggested \cup {0}
    /\ cell = Load(Source(user), sug) /\ flag = FALSE
    /\ reload = [r \in Reloaders |-> "idle"] /\ got = [r \in Reloaders |-> Nothing]
    /\ copy = Nothing /\ reading = Nothing /\ told = 0
    /\ apply = "idle" /\ patch = Nothing
    /\ edits = 0 /\ edited = FALSE /\ beside = FALSE

Changed == edits < MaxEdits /\ edits' = edits + 1 /\ edited' = TRUE

Edit(u) ==
    /\ Changed /\ u # user /\ user' = u
    /\ UNCHANGED <<sug, daemonVars, pluginVars, applyVars>>

\* flush_calibration of the maintenance manager.
Suggest(s) ==
    /\ Changed /\ s # sug /\ sug' = s
    /\ UNCHANGED <<user, daemonVars, pluginVars, applyVars>>

Hup ==
    /\ flag' = TRUE /\ edited' = FALSE
    /\ UNCHANGED <<user, sug, edits, cell, reload, got, beside, pluginVars, applyVars>>

Begin(r) ==
    /\ reload[r] = "idle" /\ reload' = [reload EXCEPT ![r] = "read"]
    /\ beside' = \E o \in Reloaders \ {r} : reload[o] # "idle"

\* The swap of the flag comes before the load.
Take ==
    /\ flag /\ flag' = FALSE /\ Begin("evictor")
    /\ UNCHANGED <<fileVars, cell, got, pluginVars, applyVars>>

Connect ==
    /\ Begin("connection") /\ edited' = FALSE
    /\ apply' = IF apply = "reload" THEN "idle" ELSE apply
    /\ UNCHANGED <<user, sug, edits, flag, cell, got, patch, pluginVars>>

Read(r) ==
    /\ reload[r] = "read" /\ reload' = [reload EXCEPT ![r] = "overlay"]
    /\ got' = [got EXCEPT ![r] = Source(user)]
    /\ UNCHANGED <<fileVars, cell, flag, beside, pluginVars, applyVars>>

Overlay(r) ==
    /\ reload[r] = "overlay" /\ reload' = [reload EXCEPT ![r] = "store"]
    /\ got' = [got EXCEPT ![r] = Load(got[r], sug)]
    /\ UNCHANGED <<fileVars, cell, flag, beside, pluginVars, applyVars>>

\* A flag that is put down only when the load is done.
StoreResets(r) ==
    /\ reload[r] = "store" /\ reload' = [reload EXCEPT ![r] = "tell"]
    /\ cell' = got[r] /\ got' = [got EXCEPT ![r] = Nothing] /\ flag' = FALSE
    /\ UNCHANGED <<fileVars, beside, pluginVars, applyVars>>

Store(r) ==
    /\ reload[r] = "store" /\ reload' = [reload EXCEPT ![r] = "tell"]
    /\ cell' = got[r] /\ got' = [got EXCEPT ![r] = Nothing]
    /\ UNCHANGED <<fileVars, flag, beside, pluginVars, applyVars>>

\* broadcast_config_reload
Tell(r) ==
    /\ reload[r] = "tell" /\ reload' = [reload EXCEPT ![r] = "idle"]
    /\ told < MaxTold /\ told' = told + 1
    /\ UNCHANGED <<fileVars, cell, flag, got, beside, copy, reading, applyVars>>

\* load_plugin_config, under the lock from the look at the cache to the store.
PluginRead ==
    /\ copy = Nothing /\ reading = Nothing /\ reading' = Found(user)
    /\ UNCHANGED <<fileVars, daemonVars, copy, told, applyVars>>

PluginStore ==
    /\ reading # Nothing /\ copy' = reading /\ reading' = Nothing
    /\ UNCHANGED <<fileVars, daemonVars, told, applyVars>>

PluginDrop ==
    /\ told > 0 /\ told' = told - 1
    /\ reading = Nothing /\ copy' = Nothing
    /\ UNCHANGED <<fileVars, daemonVars, reading, applyVars>>

\* do_passive_apply, whose write first empties the file.
ApplyRead ==
    /\ apply = "idle" /\ sug # 0 /\ edits < MaxEdits
    /\ patch' = Patched(user, sug) /\ apply' = "truncate"
    /\ UNCHANGED <<fileVars, daemonVars, pluginVars>>

ApplyTruncate ==
    /\ apply = "truncate" /\ apply' = "write"
    /\ user' = Empty /\ edited' = TRUE
    /\ UNCHANGED <<sug, edits, patch, daemonVars, pluginVars>>

ApplyWrite ==
    /\ apply = "write" /\ apply' = "reload"
    /\ user' = patch /\ patch' = Nothing /\ edited' = TRUE /\ edits' = edits + 1
    /\ UNCHANGED <<sug, daemonVars, pluginVars>>

ApplyDies ==
    /\ apply # "idle" /\ apply' = "idle" /\ patch' = Nothing
    /\ UNCHANGED <<fileVars, daemonVars, pluginVars>>

\* The daemon and its plugins are killed, and started again.
Restart ==
    /\ cell' = Load(Source(user), sug) /\ flag' = FALSE
    /\ reload' = [r \in Reloaders |-> "idle"] /\ got' = [r \in Reloaders |-> Nothing]
    /\ copy' = Nothing /\ reading' = Nothing /\ told' = 0
    /\ edited' = FALSE /\ beside' = FALSE
    /\ UNCHANGED <<user, sug, edits, applyVars>>

Files    == (\E u \in Texts \cup {Absent, Broken} : Edit(u)) \/ (\E s \in Suggested : Suggest(s))
Requests == Hup \/ Take \/ Connect
Reload   == \E r \in Reloaders : Read(r) \/ Overlay(r) \/ Store(r) \/ Tell(r)
Plugin   == PluginRead \/ PluginStore \/ PluginDrop
Apply    == ApplyRead \/ ApplyTruncate \/ ApplyWrite \/ ApplyDies

Next == Files \/ Requests \/ Reload \/ Plugin \/ Apply \/ Restart

-----------------------------------------------------------------------------
(* Properties *)

\* No request is waiting or under way, and no file has changed since the last.
Quiet == ~flag /\ ~edited /\ \A r \in Reloaders : reload[r] = "idle"

\* A request is never lost: after the last of them, however it fell among the steps of a
\* reload before it, the daemon has what is on disk (lifecycle.rs:15-16, config/mod.rs:26-30);
\* unless two reloads ran at once.
NewestHeld == Quiet /\ ~beside => cell = Load(Source(user), sug)

\* Nor is one lost on mgd-kde, for which reloads may run at once (mgd-kde/src/main.rs:94-96,
\* 177-185).
CopyCurrent ==
    Quiet /\ told = 0 /\ reading = Nothing /\ copy # Nothing => copy = Found(user)

\* Not so: the tiers increase (psi.rs:315-322), and reloads at once settle as one does.
TiersIncrease == 0 < cell.elevated /\ cell.elevated < cell.high
NewestHeldAlways == Quiet => cell = Load(Source(user), sug)

Spec == Init /\ [][Next]_configVars
=============================================================================
