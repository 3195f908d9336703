------------------------------ MODULE BrandTheme ------------------------------
(***************************************************************************)
(* The brand theme: one row on the server (theme.go), the copy each        *)
(* browser keeps of it (ThemeProvider.tsx), Brand Studio, which publishes  *)
(* every edit at once (ThemeAppearanceSettings.tsx, BrandStudio.tsx,       *)
(* TokenStudio.tsx), and who may paint the document: public pages show the *)
(* brand, the dashboard the personal theme of the operator if there is one *)
(* (SuperAdminShell.tsx, applyThemeTokens).  Handlers set what React keeps *)
(* and paint at once where they may; the effects of the shell, which hand  *)
(* the document over, run with the rendering after it.  Between the two    *)
(* answers arrive; a click falls on a page that is rendered.               *)
(***************************************************************************)
EXTENDS Naturals, Sequences, SequencesExt

CONSTANTS
    Fields,       \* what an edit changes: accent, font, radius ..., "light" for the scheme
    Saves,        \* saves that may be under way at once
    MaxVersion,   \* bounds how often the row is written
    None

Bounds ==
    "light" \in Fields /\ {"refresh", "poll"} \cap Saves = {} /\ MaxVersion \in Nat \ {0}

VARIABLES
    published,   \* every version of platform_theme so far; the row holds the last
    page,        \* "none", "public", or "dashboard", which has Brand Studio among its pages
    look,        \* adminTheme.tsx: "brand", "own" (isPersonal), or "loading": personal, but not sure
    theme,       \* theme of the provider, and with it the studio's draft
    due,         \* something was set since the shell rendered
    shell,       \* the dashboard as rendered; its theme is globalThemeRef
    owns,        \* who may paint: data-dashboard-shell, personalDashboardOwnsTheme
    document,    \* what <html> is painted with: a brand theme, or None for the personal one
    seen,        \* versionRef
    call,        \* requests of the provider
    publishing,  \* saving: disables "Save Theme" and "Reset Brand"
    preview,     \* history: theme holds something no answer brought
    missed       \* history: the dashboard closed before it had rendered the last theme

paint == <<due, shell, owns, document, missed>>
vars == <<published, page, look, theme, paint, seen, call, publishing, preview>>

\* A theme: the fields that differ from WATCHLINE_DEFAULTS, which is dark.
Theme == [edited : SUBSET Fields]
Defaults == [edited |-> {}]
Light == [edited |-> {"light"}]
Toggled(t) == [t EXCEPT !.edited = IF "light" \in @ THEN @ \ {"light"} ELSE @ \cup {"light"}]

Calls == {"refresh", "poll"} \cup Saves
Idle == [step |-> "idle", body |-> None, got |-> 0, button |-> FALSE]
Get == [Idle EXCEPT !.step = "get"]
Put(t, button) == [step |-> "put", body |-> t, got |-> 0, button |-> button]

Latest == published[Len(published)]

Looks == {"brand", "loading", "own"}
Closed == [open |-> FALSE, look |-> "brand", theme |-> Defaults]

-----------------------------------------------------------------------------
(* The document *)

\* Mutant: the personal theme does not stop the brand.
PaintsAlways(flags, t, opts) ==
    IF flags.shell /\ "force" \notin opts THEN document ELSE t

\* What <html> shows after a theme is applied.
applyThemeTokens(flags, t, opts) ==
    IF \/ flags.personal /\ "allowWhilePersonal" \notin opts
       \/ flags.shell /\ "force" \notin opts
    THEN document ELSE t

\* A rendering follows; without the dashboard it paints nothing.
Touched == due' = (page = "dashboard" \/ shell.open)

\* setTheme, after a handler has painted; a new theme that is painted is not missed.
setTheme(t, opts) ==
    /\ theme' = t /\ Touched
    /\ document' = applyThemeTokens(owns, t, opts) /\ missed' = (missed /\ owns.shell)
    /\ UNCHANGED <<shell, owns>>

effective == IF look = "own" THEN None ELSE theme

\* The dashboard mounts, or renders again: the flags, then the paint.
Mounts ==
    /\ page = "dashboard"
    /\ shell' = [open |-> TRUE, look |-> look, theme |-> theme]
    /\ owns' = [shell |-> TRUE, personal |-> look # "brand"]
    /\ document' = applyThemeTokens(owns', effective, {"force", "allowWhilePersonal"})
    /\ missed' = FALSE /\ UNCHANGED <<look, publishing>>

\* Mutant: the flag of the personal theme falls after the paint.
UnmountsFlagLast ==
    /\ page = "public" /\ shell.open /\ shell' = Closed
    /\ owns' = [shell |-> FALSE, personal |-> FALSE]
    /\ document' = applyThemeTokens([owns EXCEPT !.shell = FALSE], shell.theme, {"force"})
    /\ missed' = (shell.theme # theme)
    /\ look' = "brand" /\ publishing' = FALSE

\* It unmounts: the cleanups give the document back, with the theme that was
\* rendered last.
Unmounts ==
    /\ page = "public" /\ shell.open /\ shell' = Closed
    /\ owns' = [shell |-> FALSE, personal |-> FALSE]
    /\ document' = applyThemeTokens(owns', shell.theme, {"force"})
    /\ missed' = (shell.theme # theme)
    /\ look' = "brand" /\ publishing' = FALSE

\* It closed before it was there.
RendersNothing ==
    /\ page = "public" /\ ~shell.open
    /\ UNCHANGED <<shell, owns, document, missed, look, publishing>>

Render ==
    /\ due /\ due' = FALSE
    /\ Mounts \/ Unmounts \/ RendersNothing
    /\ UNCHANGED <<published, page, theme, seen, call, preview>>

-----------------------------------------------------------------------------
(* Pages *)

\* The provider mounts with the defaults, asks for the theme and starts to poll.
Start ==
    /\ page = "none" /\ page' = "public"
    /\ document' = applyThemeTokens(owns, theme, {})
    /\ call' = [call EXCEPT !["refresh"] = Get]
    /\ UNCHANGED <<published, look, theme, due, shell, owns, missed, seen, publishing, preview>>

\* The dashboard opens, following the brand, or closes.
Go(p) ==
    /\ page \notin {"none", p} /\ page' = p /\ due' = TRUE
    /\ UNCHANGED <<published, look, theme, shell, owns, document, missed, seen, call, publishing, preview>>

\* The personal theme arrives, Enable Custom, Follow Brand Studio, or a refusal
\* of either; another account signs in and has its own loaded.
SwitchPersonal ==
    /\ shell.open /\ look' \in Looks \ {look} /\ due' = TRUE
    /\ UNCHANGED <<published, page, theme, shell, owns, document, missed, seen, call, publishing, preview>>

-----------------------------------------------------------------------------
(* Changes made here *)

Preview(t, opts) == setTheme(t, opts) /\ preview' = TRUE

\* setTheme alone: nothing is sent, the next edit publishes it.
toggleColorMode ==
    /\ page # "none" /\ ~due /\ shell.look = "brand"
    /\ Preview(Toggled(theme), {})
    /\ UNCHANGED <<published, page, look, seen, call, publishing>>

Publish(t, button) ==
    \E s \in Saves :
        /\ call[s] = Idle
        /\ call' = [call EXCEPT ![s] = Put(t, button)]

\* draftRef: the draft follows the provider's theme, unpublished edits included.
Draft == theme

\* patch and handleAccent: shown at once, and saved at once.
patch(f) ==
    /\ shell.open /\ ~due
    /\ LET n == [Draft EXCEPT !.edited = @ \cup {f}] IN Preview(n, {"force"}) /\ Publish(n, FALSE)
    /\ UNCHANGED <<published, page, look, seen, publishing>>

\* Accent, fonts, radius; every token one by one.  Neither looks at saving.
BrandStudio(f) == patch(f)
TokenStudio(f) == patch(f)

handleSave ==
    /\ shell.open /\ ~due /\ ~publishing /\ publishing' = TRUE
    /\ Publish(Draft, TRUE)
    /\ UNCHANGED <<published, page, look, theme, paint, seen, preview>>

handleReset ==
    /\ shell.open /\ ~due /\ ~publishing /\ publishing' = TRUE
    /\ Publish(Defaults, TRUE)
    /\ UNCHANGED <<published, page, look, theme, paint, seen, preview>>

-----------------------------------------------------------------------------
(* Answers *)

Settled(c) == call[c].step \in {"answered", "failed"}

\* Mutant: the version that is remembered never goes down.
AdoptHighest(v) ==
    setTheme(published[v], {}) /\ seen' = (IF v > seen THEN v ELSE seen) /\ preview' = FALSE

\* Mutant: counted by the page instead of read from the answer.
AdoptCounting(v) ==
    setTheme(published[v], {}) /\ seen' = seen + 1 /\ preview' = FALSE

Adopt(v) == setTheme(published[v], {}) /\ seen' = v /\ preview' = FALSE

Ignore == UNCHANGED <<theme, seen, preview, paint>>

Done(c) == call' = [call EXCEPT ![c] = Idle]

\* refresh: without an answer the defaults come back, the version stays.
SettleRefresh ==
    /\ Settled("refresh") /\ Done("refresh")
    /\ IF call["refresh"].step = "answered" THEN Adopt(call["refresh"].got)
                                            ELSE Preview(Defaults, {}) /\ UNCHANGED seen
    /\ UNCHANGED <<published, page, look, publishing>>

save(s) ==
    /\ Settled(s) /\ Done(s)
    /\ IF call[s].step = "answered" THEN Adopt(call[s].got) ELSE Ignore
    /\ publishing' = (publishing /\ ~call[s].button)
    /\ UNCHANGED <<published, page, look>>

\* The timer of the poll; it goes off again after an answer or a failure.
PollTimer ==
    /\ page # "none" /\ call["poll"] = Idle
    /\ call' = [call EXCEPT !["poll"] = Get]
    /\ UNCHANGED <<published, page, look, theme, paint, seen, publishing, preview>>

\* Any other version is taken, an older one too.
PollSettles ==
    /\ Settled("poll") /\ Done("poll")
    /\ IF call["poll"].step = "answered" /\ call["poll"].got # seen
       THEN Adopt(call["poll"].got) ELSE Ignore
    /\ UNCHANGED <<published, page, look, publishing>>

-----------------------------------------------------------------------------
(* The server *)

\* UPDATE platform_theme SET ..., version = version + 1; the provider then asks
\* for the row again.
PutTheme(s) ==
    /\ s \in Saves /\ call[s].step = "put" /\ Len(published) < MaxVersion
    /\ published' = Append(published, call[s].body)
    /\ call' = [call EXCEPT ![s] = [Get EXCEPT !.button = call[s].button]]
    /\ UNCHANGED <<page, look, theme, paint, seen, publishing, preview>>

GetTheme(c) ==
    /\ call[c].step = "get"
    /\ call' = [call EXCEPT ![c].step = "answered", ![c].got = Len(published)]
    /\ UNCHANGED <<published, page, look, theme, paint, seen, publishing, preview>>

\* No answer, or an error.
Fail(c) ==
    /\ call[c].step \in {"put", "get"}
    /\ call' = [call EXCEPT ![c].step = "failed", ![c].body = None]
    /\ UNCHANGED <<published, page, look, theme, paint, seen, publishing, preview>>

\* Another operator publishes.
PublishElsewhere(t) ==
    /\ page # "none" /\ Len(published) < MaxVersion
    /\ published' = Append(published, t)
    /\ UNCHANGED <<page, look, theme, paint, seen, call, publishing, preview>>

-----------------------------------------------------------------------------
Init ==
    /\ published = <<Defaults>> /\ page = "none" /\ look = "brand"
    /\ theme = Defaults /\ seen = 0 /\ document = Defaults
    /\ due = FALSE /\ shell = Closed /\ owns = [shell |-> FALSE, personal |-> FALSE]
    /\ call = [c \in Calls |-> Idle] /\ publishing = FALSE
    /\ preview = FALSE /\ missed = FALSE

Answer(c) == PutTheme(c) \/ GetTheme(c) \/ Fail(c)
Settle == SettleRefresh \/ (\E s \in Saves : save(s)) \/ PollSettles

Next ==
    \/ Start \/ SwitchPersonal \/ Render \/ toggleColorMode \/ handleSave \/ handleReset
    \/ \E p \in {"public", "dashboard"} : Go(p)
    \/ \E f \in Fields : BrandStudio(f) \/ TokenStudio(f)
    \/ Settle \/ PollTimer
    \/ \E c \in Calls : Answer(c)
    \/ PublishElsewhere(Light)

\* The timer of the poll goes off, its calls end and are handled, and of the
\* polls sent for ever some are answered.
Fairness ==
    /\ WF_vars(PollTimer) /\ WF_vars(PollSettles)
    /\ WF_vars(Answer("poll")) /\ SF_vars(GetTheme("poll"))

Spec == Init /\ [][Next]_vars /\ Fairness

-----------------------------------------------------------------------------
TypeOK ==
    /\ published \in BoundedSeq(Theme, MaxVersion) /\ page \in {"none", "public", "dashboard"}
    /\ look \in Looks /\ theme \in Theme /\ seen \in 0..Len(published)
    /\ document \in Theme \cup {None} /\ publishing \in BOOLEAN
    /\ preview \in BOOLEAN /\ missed \in BOOLEAN /\ due \in BOOLEAN
    /\ shell \in [open : BOOLEAN, look : Looks, theme : Theme]
    /\ owns \in [shell : BOOLEAN, personal : BOOLEAN]
    /\ \A c \in Calls : /\ call[c].step \in {"idle", "put", "get", "answered", "failed"}
                        /\ call[c].body \in Theme \cup {None} /\ call[c].got \in 0..Len(published)

\* A dashboard that shows a theme of its own never shows the brand, whatever
\* arrives; one that follows the brand shows the provider's theme once it is
\* rendered; public pages show it at once, and again when the dashboard closes,
\* unless it closed before it had rendered that theme.
DocumentShowsItsTheme ==
    /\ shell.open /\ shell.look = "own" => document = None
    /\ shell.open /\ shell.look # "own" /\ ~due => document = theme
    /\ ~shell.open /\ ~missed => document = theme

\* The page shows a theme that is neither the row's nor a change of its own.
Behind == page # "none" /\ ~preview /\ theme # Latest

\* A theme published anywhere reaches every open page, unless it shows an
\* unpublished change of its own.
CatchesUp == Behind ~> ~Behind
=============================================================================
