------------------------------- MODULE Settings -------------------------------
(***************************************************************************)
(* The switches and media restrictions of one chat, which administrators   *)
(* change by command, by the settings panel and from the moderation log,   *)
(* and which the guards read.                                              *)
(*                                                                         *)
(* Every change reads a key, computes and writes it.  Only                 *)
(* SettingsChain.Go holds Bot.mu meanwhile; the panel, ToggleSetting and   *)
(* the restrictions do not.                                                *)
(*                                                                         *)
(* A tap on the panel puts the panel's layout into the chat's session and  *)
(* a dialog on display; a tap on the dialog switches, paints the light in  *)
(* that layout, and displays it again.  The session holds a pointer: two   *)
(* taps may paint the same layout, and taps that were made on a display    *)
(* before the present one are handled all the same.                        *)
(***************************************************************************)
EXTENDS Naturals, FiniteSets

CONSTANTS
    Admins,      \* the handlers that change something at the same time
    Switches,    \* keys of local settings, group_config_<chat>_<key>
    OnByDefault, \* those registered with defaultVal true
    Scopes,      \* keys of restrictions: the group, and users
    Media,       \* kinds of media
    MaxOps,      \* bound: number of changes
    MaxPanels    \* bound: number of panels sent, and of dialogs opened

VARIABLES
    store,    \* the keys; "none" is an absent switch, {} an absent restriction
    mutex,    \* Bot.mu: who holds it for writing, or "free"
    ops,      \* per administrator the change under way, or Idle
    captured, \* the session's custom_settings_markup: a layout
    layouts,  \* the lights of the layouts
    taps,     \* per administrator the tap on a dialog that is handled, or NoTap
    panels,   \* history: the lights that were ever on display
    dialogs,  \* history: the switches of the dialogs that were ever on display
    writes,   \* history: number of writes of each switch
    want,     \* history: the keys as the changes, one after the other, leave them
    overlaid, \* history: keys of which two changes, not both Toggles, have overlapped
    crowded,  \* history: switches of which two taps were handled at the same time
    used, tapped \* bound counters

settingVars ==
    <<store, mutex, ops, captured, layouts, taps, panels, dialogs, writes, want, overlaid, crowded, used, tapped>>

-----------------------------------------------------------------------------
Keys == Switches \cup Scopes
Light(b) == IF b THEN "on" ELSE "off"
Not(light) == Light(light = "off")

\* A value that is not a bool counts as the default.
Active(k, value) == IF value \in {"on", "off"} THEN value ELSE Light(k \in OnByDefault)

\* A light, and which write of its switch it tells of.
Lit(is, of) == [is |-> is, of |-> of]
Lights == [k \in Switches |-> Lit(Active(k, store[k]), writes[k])]

\* As many layouts as can be in use, with one to spare.
Layouts == {0} \cup 1..Cardinality(Admins)

Idle == [what |-> "idle"]
Op(what, k, arg) == [what |-> what, key |-> k, arg |-> arg, saw |-> store[k]]

NoTap == [at |-> "none"]
Tap(at, k, layout) == [at |-> at, key |-> k, layout |-> layout]
Free(a) == ops[a] = Idle /\ taps[a] = NoTap

\* The value that a change writes.
New(op, value) ==
    CASE op.what \in {"flip", "confirm"} -> Not(Active(op.key, value))
      [] op.what = "set" -> IF op.arg = "" THEN Not(Active(op.key, value)) ELSE op.arg
      [] op.what = "block" -> value \cup op.arg
      [] op.what = "allow" -> value \ op.arg

InitSettings ==
    /\ store = [k \in Keys |-> IF k \in Switches THEN "none" ELSE {}]
    /\ mutex = "free"
    /\ ops = [a \in Admins |-> Idle] /\ taps = [a \in Admins |-> NoTap]
    /\ writes = [k \in Switches |-> 0]
    /\ captured = 0 /\ layouts = [i \in Layouts |-> Lights]
    /\ panels = {Lights} /\ dialogs = {}
    /\ want = store
    /\ overlaid = {} /\ crowded = {}
    /\ used = 0 /\ tapped = 0

\* a has read the key of op.
Read(a, op) ==
    /\ ops[a] = Idle /\ used < MaxOps
    /\ used' = used + 1
    /\ ops' = [ops EXCEPT ![a] = op]
    /\ overlaid' = overlaid \cup
          {k \in {op.key} : \E b \in Admins \ {a} :
              ops[b] # Idle /\ ops[b].key = k /\ {op.what, ops[b].what} # {"flip"}}
    /\ UNCHANGED <<store, writes, want>>

\* A write of k makes the lights that tell of an earlier one old.
Counts(k) == writes' = [j \in Switches |-> IF j = k THEN writes[j] + 1 ELSE writes[j]]

\* One write without a read before it.
Write(k, value) ==
    /\ used < MaxOps
    /\ used' = used + 1
    /\ store' = [store EXCEPT ![k] = value]
    /\ want' = [want EXCEPT ![k] = value]
    /\ overlaid' = overlaid \cup {j \in {k} : \E b \in Admins : ops[b] # Idle /\ ops[b].key = j}
    /\ Counts(k)
    /\ UNCHANGED ops

-----------------------------------------------------------------------------
(***************************************************************************)
(* Switches                                                                *)
(***************************************************************************)
\* What a change that the panel has no part in leaves alone.
panelVars == <<captured, layouts, taps, panels, dialogs, crowded, tapped>>

\* Mutation of Toggle: it reads before it takes the lock.
ToggleUnlocked(a) ==
    /\ Free(a)
    /\ \E k \in Switches : Read(a, Op("flip", k, ""))
    /\ UNCHANGED <<mutex, panelVars>>

\* Settings().Toggle(key).Go(): under Bot.mu until the write is done.
Toggle(a) ==
    /\ Free(a) /\ mutex = "free"
    /\ mutex' = a
    /\ \E k \in Switches : Read(a, Op("flip", k, ""))
    /\ UNCHANGED panelVars

\* /toggle key state: without a state it flips; "on" and "off" with their
\* synonyms; anything else is stored as the text of a duration.
ToggleSetting(a) ==
    /\ Free(a)
    /\ \E k \in Switches, state \in {"", "on", "off", "30s"} : Read(a, Op("set", k, state))
    /\ UNCHANGED <<mutex, panelVars>>

\* _sys_modlog, config_toggle: the log's button switches off.
Revert ==
    /\ \E k \in Switches : Write(k, "off")
    /\ UNCHANGED <<mutex, panelVars>>

-----------------------------------------------------------------------------
(***************************************************************************)
(* The panel                                                               *)
(***************************************************************************)
\* SendSettings and SettingBtn: a new panel with the present lights.
SendSettings ==
    /\ tapped < MaxPanels /\ tapped' = tapped + 1
    /\ panels' = panels \cup {Lights}
    /\ UNCHANGED <<store, mutex, ops, captured, layouts, taps, dialogs, writes, want, overlaid, crowded, used>>

\* The layouts that the session or a handler has a pointer to.
InUse == {captured} \cup {taps[a].layout : a \in {b \in Admins : taps[b] # NoTap}}

\* _sys_cfg: a button of a panel, as it was on display when it was tapped, is put into the
\* session in a layout of its own, and the dialog on display.
Click ==
    /\ tapped < MaxPanels /\ tapped' = tapped + 1
    /\ \E i \in Layouts, lights \in panels :
          /\ i \notin InUse /\ \A j \in Layouts : j < i => j \in InUse
          /\ layouts' = [layouts EXCEPT ![i] = lights]
          /\ captured' = i
    /\ \E k \in Switches : dialogs' = dialogs \cup {k}
    /\ UNCHANGED <<store, mutex, ops, taps, panels, writes, want, overlaid, crowded, used>>

\* _sys_cfg_confirm: the handler takes the session's layout.  The dialog stays until the
\* layout is displayed, and can be tapped again.
Confirm(a) ==
    /\ Free(a)
    /\ \E k \in dialogs :
          \/ /\ taps' = [taps EXCEPT ![a] = Tap("yes", k, captured)]
             /\ crowded' = crowded \cup
                    {j \in {k} : \E b \in Admins \ {a} : taps[b] # NoTap /\ taps[b].key = j}
          \/ taps' = [taps EXCEPT ![a] = Tap("no", "none", captured)] /\ UNCHANGED crowded
    /\ UNCHANGED <<store, mutex, ops, captured, layouts, panels, dialogs, writes, want, overlaid, used, tapped>>

\* "yes" reads the switch, to write what it is not.
Press(a) ==
    /\ taps[a].at = "yes"
    /\ Read(a, Op("confirm", taps[a].key, ""))
    /\ UNCHANGED <<mutex, panelVars>>

\* Mutation of Paint: the light of the captured panel is not set.
PaintBlind(a) ==
    /\ taps[a].at = "paint"
    /\ taps' = [taps EXCEPT ![a].at = "show"]
    /\ UNCHANGED <<store, mutex, ops, captured, layouts, panels, dialogs, writes, want, overlaid, crowded, used, tapped>>

\* After the write the light in the layout is set.  Two handlers may do so at the same time;
\* the texts with one light or the other have the same length, so that one of them is there.
Paint(a) ==
    /\ taps[a].at = "paint"
    /\ layouts' = [layouts EXCEPT ![taps[a].layout][taps[a].key] = taps[a].light]
    /\ taps' = [taps EXCEPT ![a].at = "show"]
    /\ UNCHANGED <<store, mutex, ops, captured, panels, dialogs, writes, want, overlaid, crowded, used, tapped>>

\* The layout is displayed in the dialog's place, or the request fails.  Displays that
\* come late, or twice, add none to those that ever were.
Show(a) ==
    /\ taps[a].at \in {"show", "no"}
    /\ taps' = [taps EXCEPT ![a] = NoTap]
    /\ panels' \in {panels, panels \cup {layouts[taps[a].layout]}}
    /\ UNCHANGED <<store, mutex, ops, captured, layouts, dialogs, writes, want, overlaid, crowded, used, tapped>>

-----------------------------------------------------------------------------
(***************************************************************************)
(* Restrictions: /restrict and /unrestrict, for the group or one user.     *)
(***************************************************************************)
Words == Media \cup {"all", "unknown"}

\* A word that names no media makes the whole command fail; none at all means all.
Restrict(a) ==
    /\ Free(a)
    /\ \E s \in Scopes, words \in SUBSET (Words \ {"unknown"}) :
          Read(a, Op("block", s, IF words = {} THEN {"all"} ELSE words))
    /\ UNCHANGED <<mutex, panelVars>>

\* Words that name no media are skipped; none at all clears.
Unrestrict(a) ==
    /\ \/ Free(a) /\ \E s \in Scopes, words \in SUBSET Words \ {{}} : Read(a, Op("allow", s, words))
       \/ \E s \in Scopes : Write(s, {})
    /\ UNCHANGED <<mutex, panelVars>>

-----------------------------------------------------------------------------
\* The write of the change that a has under way; a tap that is confirmed goes on to its light.
Finish(a) ==
    /\ ops[a] # Idle
    /\ LET op == ops[a]
           value == New(op, op.saw)
       IN  /\ store' = [store EXCEPT ![op.key] = value]
           /\ want' = [want EXCEPT ![op.key] = New(op, want[op.key])]
           /\ Counts(op.key)
           /\ mutex' = IF op.what = "flip" THEN "free" ELSE mutex
           /\ taps' = IF op.what = "confirm"
                      THEN [taps EXCEPT ![a] = [at |-> "paint", key |-> op.key, layout |-> @.layout,
                                                light |-> Lit(value, writes'[op.key])]]
                      ELSE taps
    /\ ops' = [ops EXCEPT ![a] = Idle]
    /\ UNCHANGED <<captured, layouts, panels, dialogs, overlaid, crowded, used, tapped>>

SettingsNext ==
    \/ \E a \in Admins : \/ Toggle(a) \/ ToggleSetting(a) \/ Confirm(a) \/ Press(a) \/ Paint(a)
                         \/ Show(a) \/ Restrict(a) \/ Unrestrict(a) \/ Finish(a)
    \/ SendSettings \/ Click \/ Revert

-----------------------------------------------------------------------------
(***************************************************************************)
(* Properties                                                              *)
(***************************************************************************)
\* The variables have their types.
SettingsTypeOK ==
    /\ \A k \in Switches : store[k] \in {"none", "on", "off", "30s"}
    /\ \A s \in Scopes : store[s] \subseteq Media \cup {"all"}
    /\ mutex \in Admins \cup {"free"}
    /\ captured \in Layouts /\ DOMAIN layouts = Layouts
    /\ \A lights \in panels \cup {layouts[i] : i \in Layouts} :
          \A k \in Switches : lights[k].is \in {"on", "off"} /\ lights[k].of <= writes[k]
    /\ \A a \in Admins : taps[a].at \in {"none", "yes", "paint", "show", "no"}

\* A key of which no two changes overlapped holds what the changes say one after
\* the other, each made whole; two Toggles do not even lose one another.
LoneChangesHold ==
    \A k \in Keys : k \notin overlaid => store[k] = want[k]

\* A light that tells of the last write of its switch tells what the key counts for, on
\* every panel that ever was on display; and who confirms a tap while nobody else has one of the
\* same switch under way displays the light of his own write, whatever else is tapped,
\* painted and displayed meanwhile.
LightsTellTruth ==
    /\ \A lights \in panels : \A k \in Switches :
          lights[k].of = writes[k] => lights[k].is = Active(k, store[k])
    /\ \A a \in Admins :
          taps[a].at = "show" /\ taps[a].key \notin crowded =>
              layouts[taps[a].layout][taps[a].key] = taps[a].light
=============================================================================
