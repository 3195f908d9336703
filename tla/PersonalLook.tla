----------------------------- MODULE PersonalLook -----------------------------
(***************************************************************************)
(* What an operator sets for the own dashboard: a theme (adminTheme.tsx on *)
(* dashboard_theme.go) and the navigation preferences (navPrefs.tsx on     *)
(* admin_settings.go), chosen in AdminStudio.tsx and NavCustomizer.tsx.    *)
(* Both providers live as long as the console is open for one account; the *)
(* preferences also live in the memory of the page, across accounts.  A    *)
(* theme that is chosen is shown before it is stored, and the last answer  *)
(* comes back when it is not.                                              *)
(***************************************************************************)
EXTENDS Naturals

CONSTANTS
    Users,
    Styles,     \* what accent, font, radius and pack make of a theme
    Choices,    \* preferences: values of each of the two categories
    Default,    \* ... among them DEFAULTS
    MaxCalls,   \* bounds how many requests for the theme overlap
    MaxActs,    \* bounds how often the operator opens the console or changes something
    None        \* follow_brand; nothing stored

Bounds == MaxCalls \in Nat /\ MaxActs \in Nat /\ None \notin Choices /\ Default \in Choices

VARIABLES
    row,        \* admin_settings: theme and preferences of each user
    user,       \* whose console is open, or None
    look,       \* mode and adminTheme: None follows the brand
    snapshot,   \* snapshotRef
    saving,
    call,       \* requests for the theme
    memory,     \* memoryPrefs, or DEFAULTS as long as there are none
    prefs,      \* prefs of the provider
    load,       \* the request for the preferences of each console that opened
    puts,       \* writes of preferences on their way
    acts,       \* what MaxActs bounds
    chosen,     \* history: the preferences as last edited in this console, or None
    overtaken   \* history: which of theme and preferences the server may hold otherwise

theme == <<look, snapshot, saving, call>>
nav == <<memory, prefs, load, puts, chosen>>
vars == <<row, user, acts, theme, nav, overtaken>>

\* A personal theme: light or dark, and the rest.
Looks == [dark : BOOLEAN, style : Styles]

Categories == {"navigation", "admin_studio"}
Prefs == [Categories -> Choices]
Stored == [Categories -> Choices \cup {None}]
Unset == [c \in Categories |-> None]
Defaults == [c \in Categories |-> Default]
Slots == 1..MaxCalls
Free == [op |-> None, who |-> None, look |-> None, step |-> "free"]
NoLoad == [step |-> "none", got |-> Unset, fresh |-> FALSE]

Busy == \E c \in Slots : call[c] # Free
Act == acts < MaxActs /\ acts' = acts + 1
Overtake(what, when) == overtaken' = overtaken \cup (IF when THEN {what} ELSE {})

-----------------------------------------------------------------------------
(* The console opens and closes *)

Request(op, l) == [op |-> op, who |-> user', look |-> l, step |-> "sent"]
Send(c, op, l) ==
    /\ call[c] = Free
    /\ call' = [call EXCEPT ![c] = Request(op, l)]

\* AdminConsoleScope mounts: both providers load.
OpenConsole(u, c) ==
    /\ Act
    /\ user = None /\ user' = u
    /\ look' = None /\ snapshot' = None /\ saving' = FALSE
    /\ Send(c, "load", None)
    /\ prefs' = memory
    /\ load[u].step = "none"
    /\ load' = [load EXCEPT ![u] = [step |-> "sent", got |-> Unset, fresh |-> TRUE]]
    /\ chosen' = None
    /\ overtaken' = IF Busy THEN {"theme"} ELSE {}
    /\ UNCHANGED <<row, memory, puts>>

\* ... and unmounts; what was sent goes on without it.
CloseConsole ==
    /\ user # None /\ user' = None
    /\ call' = [c \in Slots |-> IF call[c].op \in {"load", "refresh"} THEN Free ELSE call[c]]
    /\ UNCHANGED <<acts, row, look, snapshot, saving, nav, overtaken>>

-----------------------------------------------------------------------------
(* Personal theme *)

\* persistPersonal and clear: shown at once.
setAdminTheme(c, l) ==
    /\ user # None /\ user' = user
    /\ look' = l /\ saving' = TRUE
    /\ Send(c, IF l = None THEN "delete" ELSE "put", l)
    /\ UNCHANGED snapshot

Choose(c, l) == Act /\ setAdminTheme(c, l) /\ Overtake("theme", Busy) /\ UNCHANGED <<row, nav>>

\* themeLocked, and the buttons that look at saving.
Editable == look # None /\ ~saving

handleScheme(c) == Editable /\ Choose(c, [look EXCEPT !.dark = ~@])
handleAccent(c, s) == Editable /\ Choose(c, [look EXCEPT !.style = s])
handleFont(c, s) == Editable /\ Choose(c, [look EXCEPT !.style = s])
FollowBrand(c) == Editable /\ Choose(c, None)

\* The light/dark switch of the header does not look at saving, and starts from
\* the theme last answered: what is being saved is not in it.
Switched == [(IF snapshot = None THEN look ELSE snapshot) EXCEPT !.dark = ~look.dark]
handleThemeToggle(c) == look # None /\ Switched # snapshot /\ Choose(c, Switched)

Answered(c, ops) == call[c].op \in ops /\ call[c].step \in {"ok", "error"}
Mine(c) == call[c].who = user

\* Mutant: what was shown stays.
Unreverted == look

\* revertOptimistic
Reverted == snapshot

applyResponse(c) == look' = call[c].look /\ snapshot' = call[c].look

\* The answer to a save.  The event makes the console of the moment refresh.
SettleSave(c) ==
    /\ Answered(c, {"put", "delete"}) /\ user' = user
    /\ IF ~Mine(c) THEN UNCHANGED <<look, snapshot, saving>>
       ELSE /\ saving' = FALSE
            /\ IF call[c].step = "ok" THEN applyResponse(c) ELSE look' = Reverted /\ UNCHANGED snapshot
    /\ call' = [call EXCEPT ![c] = IF call[c].step = "ok" /\ user # None THEN Request("refresh", None) ELSE Free]
    /\ Overtake("theme", ~Mine(c) \/ \E d \in Slots \ {c} : call[d] # Free)
    /\ UNCHANGED <<acts, row, nav>>

\* load: without an answer the dashboard follows the brand; refresh: nothing changes.
SettleRead(c) ==
    /\ Answered(c, {"load", "refresh"})
    /\ IF call[c].step = "ok" \/ call[c].op = "load" THEN applyResponse(c) ELSE UNCHANGED <<look, snapshot>>
    /\ call' = [call EXCEPT ![c] = Free]
    /\ Overtake("theme", (call[c].step = "error" /\ call[c].op = "load") \/ \E d \in Slots \ {c} : call[d] # Free)
    /\ UNCHANGED <<acts, row, user, saving, nav>>

-----------------------------------------------------------------------------
(* Navigation preferences *)

\* Mutant: what goes out is what was in memory before.
PutsOfBefore(p) == {[who |-> user, cat |-> c, val |-> memory[c]] : c \in Categories}

\* Both categories go out, whichever changed; nobody waits for the answers.
PutsOf(p) == {[who |-> user, cat |-> c, val |-> p[c]] : c \in Categories}

\* prefsWriteGen goes up, so that no load under way may touch the result.
write(p) ==
    /\ memory' = p /\ prefs' = p /\ chosen' = p
    /\ load' = [u \in Users |-> [load[u] EXCEPT !.fresh = FALSE]]
    /\ puts' = puts \cup PutsOf(p)

Prefer(p) ==
    /\ Act
    /\ user # None
    /\ write(p)
    /\ Overtake("prefs", puts # {})
    /\ UNCHANGED <<row, user, theme>>

setPrefs(c, v) == Prefer([memory EXCEPT ![c] = v])

\* Switches, presets, favourites and sections; "Reset" sets both categories.
\* The cover of a dashboard that follows the brand stops the mouse, not the keyboard.
NavCustomizer(v) == setPrefs("navigation", v)
reset == Prefer(Defaults)

MessageTheme(v) == look # None /\ setPrefs("admin_studio", v)

-----------------------------------------------------------------------------
(* A theme and the radius of the preferences with it *)

Dress(c, l, v) ==
    /\ Act
    /\ setAdminTheme(c, l)
    /\ write([memory EXCEPT !["admin_studio"] = v])
    /\ overtaken' = overtaken \cup (IF puts # {} THEN {"prefs"} ELSE {}) \cup (IF Busy THEN {"theme"} ELSE {})
    /\ UNCHANGED row

\* Enable Custom starts from a pack.
EnableCustom(c, l, v) == look = None /\ ~saving /\ Dress(c, l, v)
handlePack(c, l, v) == Editable /\ Dress(c, l, v)

\* The radius buttons and "Reset Personal" do not look at saving either.
handlePersonalRadius(c, s, v) == look # None /\ Dress(c, [look EXCEPT !.style = s], v)
ResetPersonal(c, l, v) == look # None /\ Dress(c, l, v)

-----------------------------------------------------------------------------
(* The preferences come *)

\* Mutant: the generation is not looked at.
UsableAlways(l) == TRUE

\* genAtStart = prefsWriteGen
Usable(l) == l.fresh

\* What is stored goes over what is in memory, also when the console that asked
\* has closed; then nothing of it is shown.
SettleLoad(u) ==
    /\ load[u].step = "answered"
    /\ LET base == [c \in Categories |-> IF load[u].got[c] = None THEN memory[c] ELSE load[u].got[c]]
       IN IF Usable(load[u]) /\ load[u].got # Unset
          THEN memory' = base /\ prefs' = IF user = u THEN base ELSE prefs
          ELSE UNCHANGED <<memory, prefs>>
    /\ load' = [load EXCEPT ![u] = NoLoad]
    /\ UNCHANGED <<acts, row, user, theme, puts, chosen, overtaken>>

-----------------------------------------------------------------------------
(* The server *)

Serve(c, got) == call' = [call EXCEPT ![c].step = "ok", ![c].look = got]

GetTheme(c) ==
    /\ call[c].op \in {"load", "refresh"} /\ call[c].step = "sent"
    /\ Serve(c, row[call[c].who].theme)
    /\ UNCHANGED <<acts, row, user, look, snapshot, saving, nav, overtaken>>

StoreTheme(c) ==
    /\ call[c].op \in {"put", "delete"} /\ call[c].step = "sent"
    /\ row' = [row EXCEPT ![call[c].who].theme = call[c].look]
    /\ Serve(c, call[c].look)
    /\ UNCHANGED <<acts, user, look, snapshot, saving, nav, overtaken>>

\* The request fails; or the answer is lost, and what was stored stays.
FailTheme(c) ==
    /\ call[c].step \in {"sent", "ok"}
    /\ call' = [call EXCEPT ![c].step = "error", ![c].look = None]
    /\ Overtake("theme", call[c].step = "ok" /\ call[c].op \in {"put", "delete"})
    /\ UNCHANGED <<acts, row, user, look, snapshot, saving, nav>>

\* Two GETs, each may fail.
GetPrefs(u) ==
    /\ load[u].step = "sent"
    /\ \E failed \in SUBSET Categories :
         load' = [load EXCEPT ![u].step = "answered",
                              ![u].got = [c \in Categories |-> IF c \in failed THEN None ELSE row[u].prefs[c]]]
    /\ UNCHANGED <<acts, row, user, theme, memory, prefs, puts, chosen, overtaken>>

PutPrefs(m) ==
    /\ row' = [row EXCEPT ![m.who].prefs[m.cat] = m.val]
    /\ puts' = puts \ {m}
    /\ UNCHANGED <<acts, user, theme, memory, prefs, load, chosen, overtaken>>

LosePrefs(m) ==
    /\ puts' = puts \ {m}
    /\ Overtake("prefs", TRUE)
    /\ UNCHANGED <<acts, row, user, theme, memory, prefs, load, chosen>>

-----------------------------------------------------------------------------
Init ==
    /\ row = [u \in Users |-> [theme |-> None, prefs |-> Unset]]
    /\ user = None /\ look = None /\ snapshot = None /\ saving = FALSE
    /\ call = [c \in Slots |-> Free]
    /\ memory = Defaults /\ prefs = Defaults /\ load = [u \in Users |-> NoLoad]
    /\ puts = {} /\ chosen = None /\ overtaken = {} /\ acts = 0

Next ==
    \/ CloseConsole
    \/ \E u \in Users, c \in Slots : OpenConsole(u, c)
    \/ \E c \in Slots : handleScheme(c) \/ FollowBrand(c) \/ handleThemeToggle(c)
    \/ \E c \in Slots, s \in Styles : handleAccent(c, s) \/ handleFont(c, s)
    \/ \E c \in Slots, l \in Looks, v \in Choices : EnableCustom(c, l, v) \/ handlePack(c, l, v) \/ ResetPersonal(c, l, v)
    \/ \E c \in Slots, s \in Styles, v \in Choices : handlePersonalRadius(c, s, v)
    \/ reset \/ \E v \in Choices : NavCustomizer(v) \/ MessageTheme(v)
    \/ \E c \in Slots : SettleSave(c) \/ SettleRead(c) \/ GetTheme(c) \/ StoreTheme(c) \/ FailTheme(c)
    \/ \E u \in Users : GetPrefs(u) \/ SettleLoad(u)
    \/ \E m \in puts : PutPrefs(m) \/ LosePrefs(m)

Spec == Init /\ [][Next]_vars

-----------------------------------------------------------------------------
TypeOK ==
    /\ row \in [Users -> [theme : Looks \cup {None}, prefs : Stored]]
    /\ user \in Users \cup {None} /\ {look, snapshot} \subseteq Looks \cup {None} /\ saving \in BOOLEAN /\ acts \in 0..MaxActs
    /\ call \in [Slots -> [op : {"load", "refresh", "put", "delete", None}, who : Users \cup {None},
                           look : Looks \cup {None}, step : {"free", "sent", "ok", "error"}]]
    /\ {memory, prefs} \subseteq Prefs /\ chosen \in Prefs \cup {None}
    /\ load \in [Users -> [step : {"none", "sent", "answered"}, got : Stored, fresh : BOOLEAN]]
    /\ puts \subseteq [who : Users, cat : Categories, val : Choices]
    /\ overtaken \subseteq {"theme", "prefs"}

\* At rest the dashboard shows the theme that is stored for its operator, also
\* after saves that were refused, unless requests overlapped or an answer was lost.
LookIsStored ==
    (user # None /\ ~Busy /\ "theme" \notin overtaken)
       => look = row[user].theme /\ snapshot = look /\ ~saving

\* What the operator edits stays on screen and in memory: no answer that was
\* asked for earlier takes it back, not even one meant for an account before.
EditsStay == (user # None /\ chosen # None) => prefs = chosen /\ memory = chosen

\* ... and is what the server keeps for the account once every write has arrived.
EditsAreStored ==
    (user # None /\ chosen # None /\ puts = {} /\ "prefs" \notin overtaken)
       => row[user].prefs = chosen
=============================================================================
