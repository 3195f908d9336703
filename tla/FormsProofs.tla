----------------------------- MODULE FormsProofs -----------------------------
(***************************************************************************)
(* The screens of WebForms, for any number of tabs, links, fields, saves   *)
(* and versions: what a mailed link does it does once, a reset leaves no   *)
(* older link alive, and the document is painted with the brand exactly    *)
(* where it should be.                                                     *)
(***************************************************************************)
EXTENDS WebForms, Sequences, TLAPS

-----------------------------------------------------------------------------
(* Tabs and rows                                                           *)

TabState == [page : {"closed", "signup", "forgot", "reset", "verify"},
             link : Links!Links \cup {None}, status : {"form", "busy", "done", "failed"},
             step : {"none", "sent", "claimed", "set", "sweeping", "ok", "no"},
             swept : 0..MaxLinks]

LinkRow == [kind : {"verify", "reset", None},
            state : {"unmade", "live", "unusable", "consumed"}]

TabSteps == {"none", "sent", "claimed", "set", "sweeping", "ok", "no"}

\* A tab whose page says that its link worked, or is about to.
Paid(q) == q.link # None /\ (q.step = "ok" \/ q.status = "done")

\* A reset whose transaction holds its link.
Holds(q) == q.step \in {"claimed", "set", "sweeping"}

\* A reset that is committed.
Swept(q) == q.page = "reset" /\ (q.step = "ok" \/ q.status = "done")

\* The page fits its link, and waits for its call.
Fits(q, rows, n) ==
    /\ q.page = "reset" => q.link \in 1..n /\ rows[q.link].kind = "reset"
    /\ q.page = "verify" => q.link \in 1..n /\ rows[q.link].kind = "verify"
    /\ q.page \notin {"reset", "verify"} => q.link = None
    /\ q.step # "none" => q.status = "busy"
    /\ Holds(q) => q.page = "reset"
    /\ q.swept <= n

WellOpened == mailed \subseteq 1..made /\ \A x \in Tabs : Fits(tab[x], link, made)

\* A link that worked is spent, and worked in one tab.
Spent == \A x \in Tabs : Paid(tab[x]) => link[tab[x].link].state = "consumed"
PaidOnce == \A x, y \in Tabs :
    (x # y /\ Paid(tab[x]) /\ Paid(tab[y])) => tab[x].link # tab[y].link

\* A link that a reset holds is still good, and held by one reset.
Claims == \A x \in Tabs : Holds(tab[x]) => link[tab[x].link].state = "live"
ClaimedOnce == \A x, y \in Tabs :
    (x # y /\ Holds(tab[x]) /\ Holds(tab[y])) => tab[x].link # tab[y].link

\* What a committed reset swept is dead.
Dead == \A x \in Tabs, t \in Links!Links :
    (Swept(tab[x]) /\ t <= tab[x].swept) => ~(link[t].state = "live" /\ link[t].kind = "reset")

LinksInv == /\ Links!TypeOK /\ WellOpened
            /\ Spent /\ PaidOnce /\ Claims /\ ClaimedOnce /\ Dead

\* What the pages and the handlers write into a tab, which stays one.
StepTo(q, step) == [q EXCEPT !.step = step]
TurnTo(q, s, step) == [q EXCEPT !.status = s, !.step = step]
SweepTo(q, n) == [q EXCEPT !.step = "sweeping", !.swept = n]

LEMMA StepToFields ==
  ASSUME NEW q \in TabState, NEW step \in TabSteps
  PROVE  /\ StepTo(q, step) \in TabState
         /\ StepTo(q, step).page = q.page /\ StepTo(q, step).link = q.link
         /\ StepTo(q, step).status = q.status /\ StepTo(q, step).step = step
         /\ StepTo(q, step).swept = q.swept
  BY DEF TabState, TabSteps, StepTo

LEMMA TurnToFields ==
  ASSUME NEW q \in TabState, NEW s \in {"busy", "done", "failed"}, NEW step \in TabSteps
  PROVE  /\ TurnTo(q, s, step) \in TabState
         /\ TurnTo(q, s, step).page = q.page /\ TurnTo(q, s, step).link = q.link
         /\ TurnTo(q, s, step).status = s /\ TurnTo(q, s, step).step = step
         /\ TurnTo(q, s, step).swept = q.swept
  BY DEF TabState, TabSteps, TurnTo

LEMMA SweepToFields ==
  ASSUME NEW q \in TabState, NEW n \in 0..MaxLinks
  PROVE  /\ SweepTo(q, n) \in TabState
         /\ SweepTo(q, n).page = q.page /\ SweepTo(q, n).link = q.link
         /\ SweepTo(q, n).status = q.status /\ SweepTo(q, n).step = "sweeping"
         /\ SweepTo(q, n).swept = n
  BY DEF TabState, SweepTo

\* A page that opens.
LEMMA OpenedType ==
  ASSUME NEW p \in {"signup", "forgot", "reset", "verify"}, NEW t \in Links!Links \cup {None}
  PROVE  /\ Links!Opened(p, t) \in TabState
         /\ Links!Opened(p, t).page = p /\ Links!Opened(p, t).link = t
         /\ Links!Opened(p, t).status = "form" /\ Links!Opened(p, t).step = "none"
         /\ Links!Opened(p, t).swept = 0
<1>1. MaxLinks \in Nat
  BY FormsBounds DEF Links!Bounds
<1>2. Links!Closed \in TabState
  BY <1>1 DEF Links!Closed, TabState
<1>3. ASSUME NEW q \in TabState
      PROVE  /\ [q EXCEPT !.page = p, !.link = t] \in TabState
             /\ [q EXCEPT !.page = p, !.link = t].page = p
             /\ [q EXCEPT !.page = p, !.link = t].link = t
             /\ [q EXCEPT !.page = p, !.link = t].status = q.status
             /\ [q EXCEPT !.page = p, !.link = t].step = q.step
             /\ [q EXCEPT !.page = p, !.link = t].swept = q.swept
  BY DEF TabState
<1>4. Links!Closed.status = "form" /\ Links!Closed.step = "none" /\ Links!Closed.swept = 0
  BY DEF Links!Closed
<1>5. QED
  BY <1>2, <1>3, <1>4 DEF Links!Opened

LEMMA LinksTypes ==
  Links!TypeOK <=> /\ owner \in {"none", "unverified", "verified"} /\ made \in 0..MaxLinks
                   /\ link \in [Links!Links -> LinkRow] /\ mailed \subseteq Links!Links
                   /\ tab \in [Tabs -> TabState]
  BY DEF Links!TypeOK, TabState, LinkRow

-----------------------------------------------------------------------------
(* A step of one page                                                      *)

\* The rows stay, and the tab promises no more than before, or claims a link.
LEMMA PageStep ==
  ASSUME LinksInv, NEW x \in Tabs, NEW q \in TabState,
         tab' = [tab EXCEPT ![x] = q], UNCHANGED <<owner, link, made, mailed>>,
         Fits(q, link, made),
         Paid(q) => Paid(tab[x]) /\ q.link = tab[x].link,
         Swept(q) => Swept(tab[x]) /\ q.swept = tab[x].swept,
         Holds(q) => \/ Holds(tab[x]) /\ q.link = tab[x].link
                     \/ /\ link[q.link].state = "live"
                        /\ \A y \in Tabs : Holds(tab[y]) => tab[y].link # q.link
  PROVE  LinksInv'
<1>1. /\ tab \in [Tabs -> TabState]
      /\ tab'[x] = q /\ \A y \in Tabs \ {x} : tab'[y] = tab[y]
  BY LinksTypes DEF LinksInv
<1>2. Links!TypeOK'
  <2>1. tab' \in [Tabs -> TabState]
    BY <1>1
  <2>2. QED
    BY <2>1 DEF LinksInv, Links!TypeOK, TabState
<1>3. WellOpened'
  BY <1>1 DEF LinksInv, WellOpened
<1>4. Spent'
  BY <1>1 DEF LinksInv, Spent
<1>5. PaidOnce'
  BY <1>1 DEF LinksInv, PaidOnce
<1>6. Claims'
  BY <1>1 DEF LinksInv, Claims
<1>7. ClaimedOnce'
  BY <1>1 DEF LinksInv, ClaimedOnce
<1>8. Dead'
  BY <1>1 DEF LinksInv, Dead
<1>9. QED
  BY <1>2, <1>3, <1>4, <1>5, <1>6, <1>7, <1>8 DEF LinksInv

\* What the user and the network do to a page.
LEMMA PagesKeep ==
  ASSUME LinksInv, NEW x \in Tabs,
         \/ Links!SignupPage(x) \/ Links!ForgotPage(x)
         \/ \E t \in Links!Links : Links!ResetPage(x, t) \/ Links!VerifyEmailPage(x, t)
         \/ Links!SignupForm(x) \/ Links!ForgotForm(x) \/ Links!ResetForm(x)
         \/ Links!Settle(x) \/ Links!Lose(x)
  PROVE  LinksInv'
<1>t. /\ tab[x] \in TabState /\ Fits(tab[x], link, made) /\ tab \in [Tabs -> TabState]
      /\ mailed \subseteq 1..made /\ made \in Nat
  BY FormsBounds, LinksTypes DEF LinksInv, WellOpened, Links!Bounds
<1>1. ASSUME NEW p \in {"signup", "forgot"}, Links!Show(x, Links!Opened(p, None))
      PROVE  LinksInv'
  <2> DEFINE q == Links!Opened(p, None)
  <2>1. /\ q \in TabState /\ q.page = p /\ q.link = None /\ q.status = "form"
        /\ q.step = "none" /\ q.swept = 0
    BY OpenedType
  <2>2. tab' = [tab EXCEPT ![x] = q] /\ UNCHANGED <<owner, link, made, mailed>>
    BY <1>1 DEF Links!Show
  <2> HIDE DEF q
  <2>3. Fits(q, link, made) /\ ~Paid(q) /\ ~Swept(q) /\ ~Holds(q)
    BY <1>t, <2>1 DEF Fits, Paid, Swept, Holds
  <2>4. QED
    BY <2>1, <2>2, <2>3, PageStep
<1>2. ASSUME NEW t \in Links!Links, Links!ResetPage(x, t)
      PROVE  LinksInv'
  <2> DEFINE q == Links!Opened("reset", t)
  <2>1. /\ q \in TabState /\ q.page = "reset" /\ q.link = t /\ q.status = "form"
        /\ q.step = "none" /\ q.swept = 0
    BY OpenedType
  <2>2. /\ tab' = [tab EXCEPT ![x] = q] /\ UNCHANGED <<owner, link, made, mailed>>
        /\ t \in mailed /\ link[t].kind = "reset"
    BY <1>2 DEF Links!ResetPage, Links!Show
  <2> HIDE DEF q
  <2>3. Fits(q, link, made) /\ ~Paid(q) /\ ~Swept(q) /\ ~Holds(q)
    BY <1>t, <2>1, <2>2 DEF Fits, Paid, Swept, Holds
  <2>4. QED
    BY <2>1, <2>2, <2>3, PageStep
<1>3. ASSUME NEW t \in Links!Links, Links!VerifyEmailPage(x, t)
      PROVE  LinksInv'
  <2> DEFINE o == Links!Opened("verify", t)
             q == TurnTo(o, "busy", "sent")
  <2>1. /\ o \in TabState /\ o.page = "verify" /\ o.link = t /\ o.swept = 0
    BY OpenedType
  <2>2. /\ tab' = [tab EXCEPT ![x] = q] /\ UNCHANGED <<owner, link, made, mailed>>
        /\ t \in mailed /\ link[t].kind = "verify"
    BY <1>3 DEF Links!VerifyEmailPage, Links!Show, TurnTo
  <2> HIDE DEF o
  <2>3. /\ q \in TabState /\ q.page = "verify" /\ q.link = t /\ q.status = "busy"
        /\ q.step = "sent" /\ q.swept = 0
    BY <2>1, TurnToFields DEF TabSteps
  <2> HIDE DEF q
  <2>4. Fits(q, link, made) /\ ~Paid(q) /\ ~Swept(q) /\ ~Holds(q)
    BY <1>t, <2>2, <2>3 DEF Fits, Paid, Swept, Holds
  <2>5. QED
    BY <2>2, <2>3, <2>4, PageStep
<1>4. ASSUME NEW p, Links!Submit(x, p)
      PROVE  LinksInv'
  <2> DEFINE q == TurnTo(tab[x], "busy", "sent")
  <2>1. tab' = [tab EXCEPT ![x] = q] /\ UNCHANGED <<owner, link, made, mailed>>
    BY <1>4 DEF Links!Submit, Links!Show, TurnTo
  <2>2. /\ q \in TabState /\ q.page = tab[x].page /\ q.link = tab[x].link /\ q.status = "busy"
        /\ q.step = "sent" /\ q.swept = tab[x].swept
    BY <1>t, TurnToFields DEF TabSteps
  <2> HIDE DEF q
  <2>3. Fits(q, link, made) /\ ~Paid(q) /\ ~Swept(q) /\ ~Holds(q)
    BY <1>t, <2>2 DEF Fits, Paid, Swept, Holds
  <2>4. QED
    BY <2>1, <2>2, <2>3, PageStep
<1>5. CASE Links!Settle(x)
  <2> DEFINE s == Links!StatusAfter(x)
             q == TurnTo(tab[x], s, "none")
  <2>1. /\ tab' = [tab EXCEPT ![x] = q] /\ UNCHANGED <<owner, link, made, mailed>>
        /\ s \in {"done", "failed"} /\ (s = "done" => tab[x].step = "ok" \/ tab[x].page = "forgot")
    BY <1>5 DEF Links!Settle, Links!Show, Links!StatusAfter, TurnTo
  <2> HIDE DEF s
  <2>2. /\ q \in TabState /\ q.page = tab[x].page /\ q.link = tab[x].link /\ q.status = s
        /\ q.step = "none" /\ q.swept = tab[x].swept
    BY <1>t, <2>1, TurnToFields DEF TabSteps
  <2> HIDE DEF q
  <2>3. Fits(q, link, made) /\ ~Holds(q)
    BY <1>t, <2>2 DEF Fits, Holds
  <2>4. (Paid(q) => Paid(tab[x])) /\ (Swept(q) => Swept(tab[x]))
    BY <1>t, <2>1, <2>2 DEF Fits, Paid, Swept
  <2>5. QED
    BY <2>1, <2>2, <2>3, <2>4, PageStep
<1>6. CASE Links!Lose(x)
  <2> DEFINE q == StepTo(tab[x], "no")
  <2>1. /\ tab' = [tab EXCEPT ![x] = q] /\ UNCHANGED <<owner, link, made, mailed>>
        /\ tab[x].step # "none"
    BY <1>6 DEF Links!Lose, Links!Show, StepTo
  <2>2. /\ q \in TabState /\ q.page = tab[x].page /\ q.link = tab[x].link
        /\ q.status = tab[x].status /\ q.step = "no" /\ q.swept = tab[x].swept
    BY <1>t, StepToFields DEF TabSteps
  <2> HIDE DEF q
  <2>3. Fits(q, link, made) /\ ~Paid(q) /\ ~Swept(q) /\ ~Holds(q)
    BY <1>t, <2>1, <2>2 DEF Fits, Paid, Swept, Holds
  <2>4. QED
    BY <2>1, <2>2, <2>3, PageStep
<1>7. QED
  BY <1>1, <1>2, <1>3, <1>4, <1>5, <1>6
     DEF Links!SignupPage, Links!ForgotPage, Links!SignupForm, Links!ForgotForm, Links!ResetForm

-----------------------------------------------------------------------------
(* A step of the API                                                       *)

\* Rows are made, expire or are spent; none comes back, and nobody's is touched
\* that a reset holds, but by that reset.
RowsKept(others) ==
    /\ made' \in made..MaxLinks /\ link' \in [Links!Links -> LinkRow] /\ mailed' \subseteq 1..made'
    /\ \A t \in 1..made : /\ link'[t].kind = link[t].kind
                          /\ link'[t].state = "live" => link[t].state = "live"
                          /\ link[t].state = "consumed" => link'[t].state = "consumed"
    /\ \A y \in others : Holds(tab[y]) => link'[tab[y].link].state = "live"

\* What a tab has promised it keeps through such a step.
LEMMA OthersKeep ==
  ASSUME LinksInv, NEW others \in SUBSET Tabs, RowsKept(others), NEW y \in others
  PROVE  /\ Fits(tab[y], link', made')
         /\ Paid(tab[y]) => link'[tab[y].link].state = "consumed"
         /\ Holds(tab[y]) => link'[tab[y].link].state = "live"
         /\ Swept(tab[y]) => \A t \in Links!Links :
               t <= tab[y].swept => ~(link'[t].state = "live" /\ link'[t].kind = "reset")
<1>t. /\ tab[y] \in TabState /\ Fits(tab[y], link, made) /\ made \in Nat /\ MaxLinks \in Nat
      /\ made' \in Nat /\ made <= made' /\ tab[y].swept \in Nat
  BY FormsBounds, LinksTypes DEF LinksInv, WellOpened, Links!Bounds, RowsKept, TabState
<1>1. Fits(tab[y], link', made')
  BY <1>t DEF Fits, RowsKept
<1>2. Paid(tab[y]) => link'[tab[y].link].state = "consumed"
  <2>1. Paid(tab[y]) => tab[y].link \in 1..made
    BY <1>t DEF Fits, Paid, TabState
  <2>2. QED
    BY <2>1 DEF LinksInv, Spent, RowsKept
<1>3. Holds(tab[y]) => link'[tab[y].link].state = "live"
  BY DEF RowsKept
<1>4. ASSUME Swept(tab[y]), NEW t \in Links!Links, t <= tab[y].swept
      PROVE  ~(link'[t].state = "live" /\ link'[t].kind = "reset")
  <2>1. ~(link[t].state = "live" /\ link[t].kind = "reset")
    BY <1>4 DEF LinksInv, Dead
  <2>2. t \in 1..made
    BY <1>t, <1>4 DEF Fits, Links!Links
  <2>3. QED
    BY <2>1, <2>2 DEF RowsKept
<1>5. QED
  BY <1>1, <1>2, <1>3, <1>4

LEMMA RowsStep ==
  ASSUME LinksInv, NEW x \in Tabs, NEW q \in TabState,
         tab' = [tab EXCEPT ![x] = q], RowsKept(Tabs \ {x}),
         owner' \in {"none", "unverified", "verified"},
         Fits(q, link', made'), ~Holds(q),
         Paid(q) => /\ link'[q.link].state = "consumed"
                    /\ \A y \in Tabs \ {x} : Paid(tab[y]) => tab[y].link # q.link,
         Swept(q) => \A t \in Links!Links :
               t <= q.swept => ~(link'[t].state = "live" /\ link'[t].kind = "reset")
  PROVE  LinksInv'
<1>1. /\ tab' \in [Tabs -> TabState]
      /\ tab'[x] = q /\ \A y \in Tabs \ {x} : tab'[y] = tab[y]
  BY LinksTypes DEF LinksInv
<1>2. \A y \in Tabs \ {x} :
         /\ Fits(tab[y], link', made')
         /\ Paid(tab[y]) => link'[tab[y].link].state = "consumed"
         /\ Holds(tab[y]) => link'[tab[y].link].state = "live"
         /\ Swept(tab[y]) => \A t \in Links!Links :
               t <= tab[y].swept => ~(link'[t].state = "live" /\ link'[t].kind = "reset")
  BY OthersKeep
<1>3. Links!TypeOK'
  <2>1. made' \in 0..MaxLinks /\ mailed' \subseteq Links!Links
    BY FormsBounds, LinksTypes DEF LinksInv, RowsKept, Links!Links, Links!Bounds
  <2>2. QED
    BY <1>1, <2>1 DEF RowsKept, Links!TypeOK, TabState, LinkRow
<1>4. WellOpened'
  BY <1>1, <1>2 DEF WellOpened, RowsKept
<1>5. Spent'
  BY <1>1, <1>2 DEF Spent
<1>6. PaidOnce'
  BY <1>1 DEF LinksInv, PaidOnce
<1>7. Claims'
  BY <1>1, <1>2 DEF Claims
<1>8. ClaimedOnce'
  BY <1>1 DEF LinksInv, ClaimedOnce
<1>9. Dead'
  <2>1. ASSUME NEW z \in Tabs, NEW t \in Links!Links, Swept(tab'[z]), t <= tab'[z].swept
        PROVE  ~(link'[t].state = "live" /\ link'[t].kind = "reset")
    BY <1>1, <1>2, <2>1
  <2>2. QED
    BY <2>1 DEF Dead
<1>10. QED
  BY <1>3, <1>4, <1>5, <1>6, <1>7, <1>8, <1>9 DEF LinksInv

LEMMA ExpireKeeps ==
  ASSUME LinksInv, NEW t \in Links!Links, Links!Expire(t)
  PROVE  LinksInv'
<1>t. /\ link \in [Links!Links -> LinkRow] /\ made \in 0..MaxLinks /\ mailed \subseteq 1..made
      /\ MaxLinks \in Nat
      /\ \A y \in Tabs : Fits(tab[y], link, made)
  BY FormsBounds, LinksTypes DEF LinksInv, WellOpened, Links!Bounds
<1>1. /\ link' = [link EXCEPT ![t].state = "unusable"] /\ link[t].state = "live"
      /\ UNCHANGED <<owner, made, mailed, tab>>
      /\ \A y \in Tabs : Holds(tab[y]) => tab[y].link # t
  BY DEF Links!Expire, Links!HoldsLink, Links!InTx, Holds
<1>2. /\ link' \in [Links!Links -> LinkRow]
      /\ link'[t].state = "unusable" /\ link'[t].kind = link[t].kind
      /\ \A u \in Links!Links \ {t} : link'[u] = link[u]
  BY <1>t, <1>1 DEF LinkRow
<1>3. \A u \in 1..made : u \in Links!Links
  BY <1>t DEF Links!Links
<1>4. \A y \in Tabs : Holds(tab[y]) => link'[tab[y].link].state = "live"
  <2>1. ASSUME NEW y \in Tabs, Holds(tab[y])
        PROVE  link'[tab[y].link].state = "live"
    <3>1. tab[y].link \in Links!Links /\ tab[y].link # t
      BY <1>t, <1>1, <1>3, <2>1 DEF Fits
    <3>2. link[tab[y].link].state = "live"
      BY <2>1 DEF LinksInv, Claims
    <3>3. QED
      BY <1>2, <3>1, <3>2
  <2>2. QED
    BY <2>1
<1>5. RowsKept(Tabs)
  BY <1>t, <1>1, <1>2, <1>3, <1>4 DEF RowsKept
<1>6. Links!TypeOK'
  BY <1>1, <1>2 DEF LinksInv, Links!TypeOK, LinkRow
<1>7. WellOpened' /\ Spent' /\ Claims' /\ Dead'
  BY <1>1, <1>5, OthersKeep DEF LinksInv, WellOpened, Spent, Claims, Dead
<1>8. PaidOnce' /\ ClaimedOnce'
  BY <1>1 DEF LinksInv, PaidOnce, ClaimedOnce
<1>9. QED
  BY <1>6, <1>7, <1>8 DEF LinksInv

\* Spending a row, and what a row is.
LEMMA RowFields ==
  ASSUME NEW row \in LinkRow
  PROVE  /\ [row EXCEPT !.state = "consumed"] \in LinkRow
         /\ [row EXCEPT !.state = "consumed"].kind = row.kind
         /\ [row EXCEPT !.state = "consumed"].state = "consumed"
         /\ (row.kind = "reset" /\ row.state = "live")
               => row = [kind |-> "reset", state |-> "live"]
  BY DEF LinkRow

LEMMA Facts ==
  ASSUME LinksInv
  PROVE  /\ link \in [Links!Links -> LinkRow] /\ made \in 0..MaxLinks /\ MaxLinks \in Nat
         /\ owner \in {"none", "unverified", "verified"}
         /\ mailed \subseteq 1..made /\ tab \in [Tabs -> TabState]
         /\ \A y \in Tabs : Fits(tab[y], link, made) /\ tab[y] \in TabState
         /\ \A t \in 1..made : t \in Links!Links
  BY FormsBounds, LinksTypes DEF LinksInv, WellOpened, Links!Bounds, Links!Links

LEMMA StepIs ==
  ASSUME LinksInv, NEW x \in Tabs, NEW step \in TabSteps, Links!Step(x, step)
  PROVE  tab' = [tab EXCEPT ![x] = StepTo(tab[x], step)]
  BY Facts DEF Links!Step, StepTo

LEMMA MailRows ==
  ASSUME LinksInv, NEW k \in {"verify", "reset"}, NEW state \in {"live", "unusable"},
         Links!Mail(k, state)
  PROVE  RowsKept(Tabs)
<1>1. /\ made < MaxLinks /\ made' = made + 1
      /\ link' = [link EXCEPT ![made + 1] = [kind |-> k, state |-> state]]
      /\ mailed' \in {mailed, mailed \cup {made + 1}}
  BY DEF Links!Mail
<1>2. [kind |-> k, state |-> state] \in LinkRow
  BY DEF LinkRow
<1>n. made + 1 \in Links!Links /\ made' \in made..MaxLinks /\ made \in Nat
  BY <1>1, Facts DEF Links!Links
<1>l. /\ link' \in [Links!Links -> LinkRow]
      /\ \A t \in Links!Links : t # made + 1 => link'[t] = link[t]
  BY <1>1, <1>2, <1>n, Facts
<1>3. /\ made' \in made..MaxLinks /\ link' \in [Links!Links -> LinkRow]
      /\ \A t \in 1..made : link'[t] = link[t]
  <2>1. \A t \in 1..made : t # made + 1 /\ t \in Links!Links
    BY <1>n, Facts
  <2>2. QED
    BY <1>n, <1>l, <2>1
<1>4. mailed' \subseteq 1..made'
  BY <1>1, Facts
<1>5. ASSUME NEW y \in Tabs, Holds(tab[y])
      PROVE  link'[tab[y].link].state = "live"
  <2>1. tab[y].link \in 1..made
    BY <1>5, Facts DEF Fits
  <2>2. QED
    BY <1>3, <1>5, <2>1 DEF LinksInv, Claims
<1>6. QED
  BY <1>3, <1>4, <1>5 DEF RowsKept

LEMMA SignupKeeps ==
  ASSUME LinksInv, NEW x \in Tabs, Links!Signup(x) \/ Links!ForgotPassword(x)
  PROVE  LinksInv'
<1>1. PICK step \in {"ok", "no"} : Links!Step(x, step)
  BY DEF Links!Signup, Links!ForgotPassword
<1> DEFINE q == StepTo(tab[x], step)
<1>2. /\ tab[x].page \in {"signup", "forgot"} /\ tab[x].step = "sent"
      /\ \/ UNCHANGED <<owner, link, made, mailed>>
         \/ /\ owner' \in {owner, "unverified"}
            /\ \E k \in {"verify", "reset"}, state \in {"live", "unusable"} : Links!Mail(k, state)
  BY DEF Links!Signup, Links!ForgotPassword, Links!Received
<1>3. tab' = [tab EXCEPT ![x] = q]
  BY <1>1, StepIs DEF TabSteps
<1>4. /\ q \in TabState /\ q.page = tab[x].page /\ q.link = tab[x].link
      /\ q.status = tab[x].status /\ q.step = step /\ q.swept = tab[x].swept
  BY StepToFields, Facts DEF TabSteps
<1> HIDE DEF q
<1>5. ~Paid(q) /\ ~Swept(q) /\ ~Holds(q)
  BY <1>2, <1>4, Facts DEF Paid, Swept, Holds, Fits
<1>6. CASE UNCHANGED <<owner, link, made, mailed>>
  <2>1. Fits(q, link, made)
    BY <1>2, <1>4, <1>5, Facts DEF Fits
  <2>2. QED
    BY <1>3, <1>4, <1>5, <1>6, <2>1, PageStep
<1>7. ASSUME owner' \in {owner, "unverified"},
             NEW k \in {"verify", "reset"}, NEW state \in {"live", "unusable"}, Links!Mail(k, state)
      PROVE  LinksInv'
  <2>1. RowsKept(Tabs)
    BY <1>7, MailRows
  <2>2. RowsKept(Tabs \ {x})
    BY <2>1 DEF RowsKept
  <2>3. Fits(tab[x], link', made')
    BY <2>1, OthersKeep
  <2>4. Fits(q, link', made')
    BY <1>2, <1>4, <1>5, <2>3 DEF Fits
  <2>5. owner' \in {"none", "unverified", "verified"}
    BY <1>7, Facts
  <2>6. QED
    BY <1>3, <1>4, <1>5, <2>2, <2>4, <2>5, RowsStep
<1>8. QED
  BY <1>2, <1>6, <1>7

LEMMA VerifyKeeps ==
  ASSUME LinksInv, NEW x \in Tabs, Links!VerifyEmail(x)
  PROVE  LinksInv'
<1> DEFINE t == tab[x].link
<1>1. /\ tab[x].page = "verify" /\ tab[x].step = "sent"
      /\ t \in 1..made /\ link[t].kind = "verify"
  BY Facts DEF Links!VerifyEmail, Links!Received, Fits
<1>2. ASSUME NEW step \in {"ok", "no"}
      PROVE  LET q == StepTo(tab[x], step)
             IN /\ q \in TabState /\ q.page = "verify" /\ q.link = t
                /\ q.status = tab[x].status /\ q.step = step /\ q.swept = tab[x].swept
                /\ q.status = "busy"
  BY <1>1, StepToFields, Facts DEF TabSteps, Fits
<1>3. CASE Links!Usable(t)
  <2> DEFINE q == StepTo(tab[x], "ok")
  <2>1. /\ link' = [link EXCEPT ![t].state = "consumed"] /\ owner' = "verified"
        /\ UNCHANGED <<made, mailed>> /\ Links!Step(x, "ok") /\ link[t].state = "live"
    BY <1>3 DEF Links!VerifyEmail, Links!Usable
  <2>2. tab' = [tab EXCEPT ![x] = q]
    BY <2>1, StepIs DEF TabSteps
  <2>3. /\ q \in TabState /\ q.page = "verify" /\ q.link = t
        /\ q.status = "busy" /\ q.step = "ok" /\ q.swept = tab[x].swept
    BY <1>2
  <2> HIDE DEF q
  <2>4. /\ link' \in [Links!Links -> LinkRow] /\ \A u \in Links!Links \ {t} : link'[u] = link[u]
        /\ link'[t].state = "consumed" /\ link'[t].kind = "verify"
    BY <1>1, <2>1, RowFields, Facts
  <2>5. ASSUME NEW y \in Tabs \ {x}, Holds(tab[y])
        PROVE  link'[tab[y].link].state = "live"
    <3>1. tab[y].link \in Links!Links /\ tab[y].link # t
      BY <1>1, <2>5, Facts DEF Fits
    <3>2. QED
      BY <2>4, <2>5, <3>1 DEF LinksInv, Claims
  <2>6. RowsKept(Tabs \ {x})
    BY <1>1, <2>1, <2>4, <2>5, Facts DEF RowsKept
  <2>7. ASSUME NEW y \in Tabs \ {x}, Paid(tab[y])
        PROVE  tab[y].link # t
    BY <2>1, <2>7 DEF LinksInv, Spent
  <2>8. Fits(q, link', made') /\ ~Holds(q) /\ ~Swept(q)
    BY <1>1, <2>1, <2>3, <2>4, Facts DEF Fits, Holds, Swept
  <2>9. QED
    BY <2>1, <2>2, <2>3, <2>4, <2>6, <2>7, <2>8, RowsStep
<1>4. CASE ~Links!Usable(t)
  <2> DEFINE q == StepTo(tab[x], "no")
  <2>1. UNCHANGED <<owner, link, made, mailed>> /\ Links!Step(x, "no")
    BY <1>4 DEF Links!VerifyEmail
  <2>2. tab' = [tab EXCEPT ![x] = q]
    BY <2>1, StepIs DEF TabSteps
  <2>3. /\ q \in TabState /\ q.page = "verify" /\ q.link = t
        /\ q.status = "busy" /\ q.step = "no" /\ q.swept = tab[x].swept
    BY <1>2
  <2> HIDE DEF q
  <2>4. Fits(q, link, made) /\ ~Holds(q) /\ ~Swept(q) /\ ~Paid(q)
    BY <1>1, <2>3, Facts DEF Fits, Holds, Swept, Paid
  <2>5. QED
    BY <2>1, <2>2, <2>3, <2>4, PageStep
<1>5. QED
  BY <1>3, <1>4

\* A reset's own steps before its commit.
LEMMA ClaimKeeps ==
  ASSUME LinksInv, NEW x \in Tabs, Links!ClaimLink(x)
  PROVE  LinksInv'
<1> DEFINE step == IF Links!Usable(tab[x].link) THEN "claimed" ELSE "no"
           q == StepTo(tab[x], step)
<1>1. /\ tab[x].page = "reset" /\ tab[x].step = "sent" /\ Links!Step(x, step)
      /\ UNCHANGED <<owner, link, made, mailed>> /\ step \in TabSteps
      /\ \A y \in Tabs : Holds(tab[y]) => tab[y].link # tab[x].link
      /\ step = "claimed" => link[tab[x].link].state = "live"
      /\ step \in {"claimed", "no"}
  BY DEF Links!ClaimLink, Links!Received, Links!HoldsLink, Links!InTx, Links!Usable, Holds, TabSteps
<1> HIDE DEF step
<1>2. tab' = [tab EXCEPT ![x] = q]
  BY <1>1, StepIs
<1>3. /\ q \in TabState /\ q.page = "reset" /\ q.link = tab[x].link
      /\ q.status = tab[x].status /\ q.step = step /\ q.swept = tab[x].swept
  BY <1>1, StepToFields, Facts
<1> HIDE DEF q
<1>4. q.status = "busy" /\ Fits(q, link, made) /\ ~Paid(q) /\ ~Swept(q)
  BY <1>1, <1>3, Facts DEF Fits, Paid, Swept, Holds
<1>5. Holds(q) => /\ link[q.link].state = "live"
                  /\ \A y \in Tabs : Holds(tab[y]) => tab[y].link # q.link
  BY <1>1, <1>3 DEF Holds
<1>6. QED
  BY <1>1, <1>2, <1>3, <1>4, <1>5, PageStep

LEMMA InTxKeeps ==
  ASSUME LinksInv, NEW x \in Tabs,
         Links!SetPassword(x) \/ Links!SweepLinks(x) \/ Links!Abort(x)
  PROVE  LinksInv'
<1>1. PICK q \in TabState :
        /\ tab' = [tab EXCEPT ![x] = q] /\ UNCHANGED <<owner, link, made, mailed>>
        /\ Holds(tab[x]) /\ q.page = tab[x].page /\ q.link = tab[x].link
        /\ q.status = tab[x].status /\ q.step \in {"set", "sweeping", "no"}
        /\ q.swept \in {tab[x].swept, made}
  <2>1. CASE Links!SetPassword(x)
    <3>1. Links!Step(x, "set") /\ UNCHANGED <<owner, link, made, mailed>> /\ Holds(tab[x])
      BY <2>1 DEF Links!SetPassword, Holds
    <3>2. QED
      BY <3>1, StepIs, StepToFields, Facts DEF TabSteps
  <2>2. CASE Links!SweepLinks(x)
    <3>1. /\ tab' = [tab EXCEPT ![x] = SweepTo(tab[x], made)] /\ Holds(tab[x])
          /\ UNCHANGED <<owner, link, made, mailed>>
      BY <2>2, Facts DEF Links!SweepLinks, Holds, SweepTo
    <3>2. QED
      BY <3>1, SweepToFields, Facts
  <2>3. CASE Links!Abort(x)
    <3>1. Links!Step(x, "no") /\ UNCHANGED <<owner, link, made, mailed>> /\ Holds(tab[x])
      BY <2>3 DEF Links!Abort, Links!InTx, Holds
    <3>2. QED
      BY <3>1, StepIs, StepToFields, Facts DEF TabSteps
  <2>4. QED
    BY <2>1, <2>2, <2>3
<1>2. tab[x].page = "reset" /\ tab[x].status = "busy"
  BY <1>1, Facts DEF Fits, Holds
<1>3. Fits(q, link, made) /\ ~Paid(q) /\ ~Swept(q)
  BY <1>1, <1>2, Facts DEF Fits, Paid, Swept, Holds
<1>4. QED
  BY <1>1, <1>3, PageStep

\* The commit: what the statement swept is dead, and nobody else held any of it.
LEMMA CommitKeeps ==
  ASSUME LinksInv, NEW x \in Tabs, Links!Commit(x)
  PROVE  LinksInv'
<1> DEFINE q == StepTo(tab[x], "ok")
           mine == tab[x].link
           Old(t) == t <= tab[x].swept /\ link[t] = [kind |-> "reset", state |-> "live"]
<1>1. /\ tab[x].step = "sweeping" /\ Links!Step(x, "ok") /\ UNCHANGED <<owner, made, mailed>>
      /\ link' = [t \in Links!Links |->
                    IF t = mine \/ (Old(t) /\ \A y \in Tabs \ {x} : ~Links!HoldsLink(y, t))
                    THEN [link[t] EXCEPT !.state = "consumed"] ELSE link[t]]
      /\ \A y \in Tabs \ {x}, t \in 1..tab[x].swept : ~Links!HoldsLink(y, t)
  BY DEF Links!Commit, Links!MaySweep
<1>2. /\ tab[x].page = "reset" /\ tab[x].status = "busy" /\ mine \in 1..made
      /\ link[mine].kind = "reset" /\ tab[x].swept <= made /\ Holds(tab[x])
      /\ mine \in Links!Links /\ link[mine].state = "live"
  <2>1. Holds(tab[x])
    BY <1>1 DEF Holds
  <2>2. QED
    BY <2>1, <1>1, Facts DEF Fits, LinksInv, Claims
<1>3. tab' = [tab EXCEPT ![x] = q]
  BY <1>1, StepIs DEF TabSteps
<1>4. /\ q \in TabState /\ q.page = "reset" /\ q.link = mine
      /\ q.status = "busy" /\ q.step = "ok" /\ q.swept = tab[x].swept
  BY <1>2, StepToFields, Facts DEF TabSteps
<1> HIDE DEF q, mine
<1>5. \A y \in Tabs \ {x}, t \in Links!Links :
        t <= tab[x].swept => ~Links!HoldsLink(y, t)
  BY <1>1, Facts DEF Links!Links, TabState
<1>6. ASSUME NEW t \in Links!Links
      PROVE  /\ link'[t] \in LinkRow /\ link'[t].kind = link[t].kind
             /\ link'[t].state \in {link[t].state, "consumed"}
             /\ (t = mine \/ Old(t)) => link'[t].state = "consumed"
             /\ ~(t = mine \/ Old(t)) => link'[t] = link[t]
  BY <1>1, <1>5, RowFields, Facts
<1>7. link' \in [Links!Links -> LinkRow]
  <2>1. \A t \in Links!Links : link'[t] \in LinkRow
    BY <1>6
  <2>2. QED
    BY <1>1, <2>1
<1>8. ASSUME NEW y \in Tabs \ {x}, Holds(tab[y])
      PROVE  link'[tab[y].link].state = "live"
  <2>1. tab[y].link \in Links!Links /\ link[tab[y].link].state = "live"
    BY <1>8, Facts DEF Fits, LinksInv, Claims
  <2>2. tab[y].link # mine
    BY <1>2, <1>8 DEF LinksInv, ClaimedOnce, mine
  <2>3. ~(tab[y].link <= tab[x].swept)
    BY <1>5, <1>8, <2>1 DEF Links!HoldsLink, Links!InTx, Holds
  <2>4. QED
    BY <1>6, <2>1, <2>2, <2>3
<1>9. RowsKept(Tabs \ {x})
  BY <1>1, <1>6, <1>7, <1>8, Facts DEF RowsKept
<1>10. ASSUME NEW y \in Tabs \ {x}, Paid(tab[y])
       PROVE  tab[y].link # q.link
  BY <1>2, <1>4, <1>10 DEF LinksInv, Spent
<1>11. ASSUME NEW t \in Links!Links, t <= q.swept
       PROVE  ~(link'[t].state = "live" /\ link'[t].kind = "reset")
  <2>1. CASE t = mine \/ Old(t)
    BY <1>6, <2>1
  <2>2. CASE ~(t = mine \/ Old(t))
    BY <1>4, <1>6, <1>11, <2>2, RowFields, Facts
  <2>3. QED
    BY <2>1, <2>2
<1>12. Fits(q, link', made') /\ ~Holds(q) /\ link'[q.link].state = "consumed"
  BY <1>1, <1>2, <1>4, <1>6 DEF Fits, Holds
<1>13. owner' \in {"none", "unverified", "verified"}
  BY <1>1, Facts
<1>14. QED
  BY <1>3, <1>4, <1>9, <1>10, <1>11, <1>12, <1>13, RowsStep

LEMMA LinksStart == Links!Init => LinksInv
<1>1. ASSUME Links!Init PROVE LinksInv
  <2>1. /\ owner \in {"none", "verified"} /\ made = 0 /\ mailed = {} /\ MaxLinks \in Nat
        /\ link = [t \in Links!Links |-> Links!Unmade] /\ tab = [x \in Tabs |-> Links!Closed]
    BY <1>1, FormsBounds DEF Links!Init, Links!Bounds
  <2>2. Links!Unmade \in LinkRow /\ Links!Closed \in TabState
    BY <2>1 DEF Links!Unmade, Links!Closed, LinkRow, TabState
  <2>3. Links!TypeOK
    BY <2>1, <2>2, LinksTypes
  <2>4. /\ Links!Closed.page = "closed" /\ Links!Closed.link = None
        /\ Links!Closed.status = "form" /\ Links!Closed.step = "none" /\ Links!Closed.swept = 0
    BY DEF Links!Closed
  <2>5. \A x \in Tabs : /\ Fits(tab[x], link, made)
                        /\ ~Paid(tab[x]) /\ ~Holds(tab[x]) /\ ~Swept(tab[x])
    <3> DEFINE q == Links!Closed
    <3>1. \A x \in Tabs : tab[x] = q
      BY <2>1
    <3> HIDE DEF q
    <3>2. ~Paid(q) /\ ~Holds(q) /\ ~Swept(q)
      BY <2>4 DEF Paid, Holds, Swept, q
    <3>3. Fits(q, link, made)
      BY <2>1, <2>4 DEF Fits, Holds, q
    <3>4. QED
      BY <3>1, <3>2, <3>3
  <2>6. QED
    BY <2>1, <2>3, <2>5
       DEF LinksInv, WellOpened, Spent, PaidOnce, Claims, ClaimedOnce, Dead
<1>2. QED
  BY <1>1

LEMMA LinksStep == LinksInv /\ Links!Next => LinksInv'
<1>1. ASSUME LinksInv, NEW t \in Links!Links, Links!Expire(t) PROVE LinksInv'
  BY <1>1, ExpireKeeps
<1>2. ASSUME LinksInv, NEW x \in Tabs, Links!Serve(x) PROVE LinksInv'
  BY <1>2, SignupKeeps, VerifyKeeps, ClaimKeeps, InTxKeeps, CommitKeeps DEF Links!Serve
<1>3. ASSUME LinksInv, NEW x \in Tabs,
             \/ Links!SignupPage(x) \/ Links!ForgotPage(x)
             \/ \E t \in Links!Links : Links!ResetPage(x, t) \/ Links!VerifyEmailPage(x, t)
             \/ Links!SignupForm(x) \/ Links!ForgotForm(x) \/ Links!ResetForm(x)
             \/ Links!Settle(x) \/ Links!Lose(x)
      PROVE  LinksInv'
  BY <1>3, PagesKeep
<1>4. QED
  BY <1>1, <1>2, <1>3 DEF Links!Next

\* A tab that says "done" is paid for, unless its page has no link.
LEMMA LinksHolds == LinksInv => Links!LinksWorkOnce /\ Links!OldLinksAreDead
<1>1. ASSUME LinksInv PROVE Links!LinksWorkOnce
  BY <1>1 DEF LinksInv, PaidOnce, Paid, Links!LinksWorkOnce
<1>2. ASSUME LinksInv PROVE Links!OldLinksAreDead
  BY <1>2 DEF LinksInv, Dead, Swept, Links!OldLinksAreDead
<1>3. QED
  BY <1>1, <1>2

-----------------------------------------------------------------------------
(* The brand theme                                                         *)

BrandCall == [step : {"idle", "put", "get", "answered", "failed"},
              body : Brand!Theme \cup {None}, got : 0..MaxVersion, button : BOOLEAN]

\* An answer carries a version there is, a request to publish carries a theme.
Carries(r, n) == /\ r.got <= n
                 /\ r.step = "answered" => r.got # 0
                 /\ r.step = "put" => r.body \in Brand!Theme

History(rows) == rows \in Seq(Brand!Theme) /\ Len(rows) \in 1..MaxVersion

BrandInv ==
    /\ History(published) /\ page \in {"none", "public", "dashboard"} /\ look \in Brand!Looks
    /\ theme \in Brand!Theme /\ seen \in 0..Len(published)
    /\ document \in Brand!Theme \cup {None} /\ publishing \in BOOLEAN /\ preview \in BOOLEAN
    /\ due \in BOOLEAN /\ missed \in BOOLEAN
    /\ shell \in [open : BOOLEAN, look : Brand!Looks, theme : Brand!Theme]
    /\ call \in [Brand!Calls -> BrandCall]
    /\ \A c \in Brand!Calls : Carries(call[c], Len(published))

\* The flags say what the shell rendered: only its effects touch them.
FlagsInv == owns = [shell |-> shell.open, personal |-> shell.open /\ shell.look # "brand"]

DocInv == FlagsInv /\ Brand!DocumentShowsItsTheme

LEMMA BrandHolds == BrandInv /\ FlagsInv => Brand!TypeOK
<1>1. ASSUME BrandInv PROVE published \in Brand!BoundedSeq(Brand!Theme, MaxVersion)
  <2> DEFINE n == Len(published)
  <2>1. published \in [1..n -> Brand!Theme] /\ n \in 1..MaxVersion
    BY <1>1 DEF BrandInv, History
  <2>2. n \in 0..MaxVersion /\ MaxVersion \in Nat
    BY <2>1, FormsBounds DEF Brand!Bounds
  <2>3. QED
    BY <2>1, <2>2 DEF Brand!BoundedSeq, Brand!SeqOf
<1>2. ASSUME BrandInv, FlagsInv PROVE Brand!TypeOK
  <2>1. \A c \in Brand!Calls : call[c] \in BrandCall /\ Carries(call[c], Len(published))
    BY <1>2 DEF BrandInv
  <2>2. \A c \in Brand!Calls :
          /\ call[c].step \in {"idle", "put", "get", "answered", "failed"}
          /\ call[c].body \in Brand!Theme \cup {None} /\ call[c].got \in 0..Len(published)
    BY <2>1 DEF BrandCall, Carries
  <2>3. owns \in [shell : BOOLEAN, personal : BOOLEAN]
    BY <1>2 DEF BrandInv, FlagsInv
  <2>4. QED
    BY <1>1, <1>2, <2>2, <2>3 DEF BrandInv, Brand!TypeOK
<1>3. QED
  BY <1>2

\* A theme after an edit, or after the scheme changed.
LEMMA ThemeFields ==
  ASSUME NEW t \in Brand!Theme
  PROVE  /\ Brand!Toggled(t) \in Brand!Theme
         /\ \A f \in Fields : [t EXCEPT !.edited = @ \cup {f}] \in Brand!Theme
  BY FormsBounds DEF Brand!Theme, Brand!Toggled, Brand!Bounds

LEMMA DefaultsTheme == Brand!Defaults \in Brand!Theme /\ Brand!Light \in Brand!Theme
  BY FormsBounds DEF Brand!Defaults, Brand!Light, Brand!Theme, Brand!Bounds

LEMMA MaxVersionNat == MaxVersion \in Nat
  BY FormsBounds DEF Brand!Bounds

\* What requests become.
LEMMA IdleFields == /\ Brand!Idle \in BrandCall /\ Brand!Idle.got = 0
                    /\ Brand!Idle.step = "idle" /\ Brand!Idle.body = None
  BY MaxVersionNat DEF Brand!Idle, BrandCall

LEMMA GetFields ==
  ASSUME NEW b \in BOOLEAN
  PROVE  /\ Brand!Get \in BrandCall /\ Brand!Get.step = "get" /\ Brand!Get.got = 0
         /\ [Brand!Get EXCEPT !.button = b] \in BrandCall
         /\ [Brand!Get EXCEPT !.button = b].step = "get"
         /\ [Brand!Get EXCEPT !.button = b].got = 0
<1>1. ASSUME NEW r \in BrandCall
      PROVE  /\ [r EXCEPT !.step = "get"] \in BrandCall
             /\ [r EXCEPT !.step = "get"].step = "get"
             /\ [r EXCEPT !.step = "get"].got = r.got
             /\ [r EXCEPT !.button = b] \in BrandCall
             /\ [r EXCEPT !.button = b].step = r.step
             /\ [r EXCEPT !.button = b].got = r.got
  BY DEF BrandCall
<1>2. Brand!Get \in BrandCall /\ Brand!Get.step = "get" /\ Brand!Get.got = 0
  BY <1>1, IdleFields DEF Brand!Get
<1>3. QED
  BY <1>1, <1>2

LEMMA PutFields ==
  ASSUME NEW t \in Brand!Theme, NEW b \in BOOLEAN
  PROVE  /\ Brand!Put(t, b) \in BrandCall /\ Brand!Put(t, b).step = "put"
         /\ Brand!Put(t, b).got = 0 /\ Brand!Put(t, b).body = t
  BY MaxVersionNat DEF Brand!Put, BrandCall

AnswerWith(r, v) == [r EXCEPT !.step = "answered", !.got = v]
FailWith(r) == [r EXCEPT !.step = "failed", !.body = None]

LEMMA AnswerFields ==
  ASSUME NEW r \in BrandCall, NEW v \in 0..MaxVersion
  PROVE  /\ AnswerWith(r, v) \in BrandCall /\ AnswerWith(r, v).step = "answered"
         /\ AnswerWith(r, v).got = v
         /\ FailWith(r) \in BrandCall /\ FailWith(r).step = "failed"
         /\ FailWith(r).got = r.got
  BY DEF BrandCall, AnswerWith, FailWith

LEMMA GetIs == \A n \in Nat : Brand!Get \in BrandCall /\ Carries(Brand!Get, n)
<1>1. Brand!Get \in BrandCall /\ Brand!Get.step = "get" /\ Brand!Get.got = 0
  <2>1. FALSE \in BOOLEAN
    OBVIOUS
  <2>2. QED
    BY <2>1, GetFields
<1>2. QED
  BY <1>1 DEF Carries

\* One request changes, and versions are only added.
LEMMA CallStep ==
  ASSUME BrandInv, NEW c \in Brand!Calls, NEW r \in BrandCall,
         call' = [call EXCEPT ![c] = r], History(published'),
         Len(published) <= Len(published'), Carries(r, Len(published'))
  PROVE  /\ call' \in [Brand!Calls -> BrandCall]
         /\ \A d \in Brand!Calls : Carries(call'[d], Len(published'))
<1>1. call \in [Brand!Calls -> BrandCall] /\ Len(published) \in Nat /\ Len(published') \in Nat
  BY DEF BrandInv, History
<1>2. /\ call' \in [Brand!Calls -> BrandCall] /\ call'[c] = r
      /\ \A d \in Brand!Calls \ {c} : call'[d] = call[d]
  BY <1>1
<1>3. ASSUME NEW d \in Brand!Calls \ {c}
      PROVE  Carries(call[d], Len(published'))
  <2>1. call[d].got \in Nat /\ Carries(call[d], Len(published))
    BY <1>1, MaxVersionNat DEF BrandInv, BrandCall
  <2>2. QED
    BY <1>1, <2>1 DEF Carries
<1>4. QED
  BY <1>2, <1>3

\* What an answer, an edit or a lost refresh leaves: a theme that was painted
\* where the owner of the document let it.
Shown == \E t \in Brand!Theme, opts \in {{}, {"force"}} :
           Brand!setTheme(t, opts) /\ seen' \in 0..Len(published) /\ preview' \in BOOLEAN

LEMMA SetThemeKeeps ==
  ASSUME BrandInv, DocInv, NEW t \in Brand!Theme, NEW opts \in {{}, {"force"}},
         Brand!setTheme(t, opts)
  PROVE  /\ theme' \in Brand!Theme /\ document' \in Brand!Theme \cup {None}
         /\ due' \in BOOLEAN /\ missed' \in BOOLEAN /\ UNCHANGED shell
         /\ DocInv'
<1>1. /\ theme' = t /\ due' = (page = "dashboard" \/ shell.open)
      /\ document' = Brand!applyThemeTokens(owns, t, opts)
      /\ missed' = (missed /\ owns.shell) /\ UNCHANGED <<shell, owns>>
  BY DEF Brand!setTheme, Brand!Touched
<1>2. FlagsInv' /\ "allowWhilePersonal" \notin opts
  BY <1>1 DEF DocInv, FlagsInv
<1>3. document' = IF owns.personal \/ (owns.shell /\ "force" \notin opts) THEN document ELSE t
  BY <1>1, <1>2 DEF Brand!applyThemeTokens
<1>4. CASE ~shell.open
  <2>1. owns.personal = FALSE /\ owns.shell = FALSE
    BY <1>4 DEF DocInv, FlagsInv, BrandInv
  <2>2. document' = t /\ missed' = FALSE
    BY <1>1, <1>3, <2>1
  <2>3. QED
    BY <1>1, <1>2, <1>4, <2>2 DEF DocInv, BrandInv, Brand!DocumentShowsItsTheme
<1>5. CASE shell.open
  <2>1. due' = TRUE /\ owns.personal = (shell.look # "brand") /\ owns.shell = TRUE
    BY <1>1, <1>5 DEF DocInv, FlagsInv
  <2>2. document' \in {document, t} /\ missed' = missed
    BY <1>1, <1>3, <2>1 DEF BrandInv
  <2>3. shell.look = "own" => document' = document
    BY <1>3, <2>1
  <2>4. Brand!DocumentShowsItsTheme'
    BY <1>1, <1>5, <2>1, <2>3 DEF DocInv, Brand!DocumentShowsItsTheme
  <2>5. QED
    BY <1>1, <1>2, <2>1, <2>2, <2>4 DEF DocInv, BrandInv
<1>6. QED
  BY <1>4, <1>5 DEF BrandInv

LEMMA AdoptShows ==
  ASSUME BrandInv, NEW c \in Brand!Calls, call[c].step = "answered", Brand!Adopt(call[c].got)
  PROVE  Shown
<1> DEFINE v == call[c].got
<1>1. v \in 1..Len(published)
  <2>1. Carries(call[c], Len(published)) /\ call[c] \in BrandCall /\ Len(published) \in Nat
    BY DEF BrandInv, History
  <2>2. QED
    BY <2>1, MaxVersionNat DEF Carries, BrandCall
<1>2. published[v] \in Brand!Theme
  BY <1>1 DEF BrandInv, History
<1>3. Brand!setTheme(published[v], {}) /\ seen' = v /\ preview' = FALSE
  BY DEF Brand!Adopt
<1>4. v \in 0..Len(published)
  BY <1>1 DEF BrandInv, History
<1> HIDE DEF v
<1>5. QED
  BY <1>2, <1>3, <1>4 DEF Shown

LEMMA PreviewShows ==
  ASSUME BrandInv, NEW t \in Brand!Theme, NEW opts \in {{}, {"force"}},
         Brand!Preview(t, opts), UNCHANGED seen
  PROVE  Shown
  BY DEF Brand!Preview, Shown, BrandInv

\* A step that leaves the document and who owns it alone.
LEMMA DocKept ==
  ASSUME DocInv, UNCHANGED <<theme, shell, owns, document, missed>>, due' \in {due, TRUE}
  PROVE  DocInv'
  BY DEF DocInv, FlagsInv, Brand!DocumentShowsItsTheme

\* A step of the provider's requests that leaves the history alone.
LEMMA QuietStep ==
  ASSUME BrandInv, DocInv,
         UNCHANGED <<published, page, look>>, publishing' \in BOOLEAN,
         Shown \/ UNCHANGED <<theme, seen, preview, Brand!paint>>,
         \/ UNCHANGED call
         \/ \E c \in Brand!Calls, r \in BrandCall :
              call' = [call EXCEPT ![c] = r] /\ Carries(r, Len(published))
  PROVE  BrandInv' /\ DocInv'
<1>1. /\ call' \in [Brand!Calls -> BrandCall]
      /\ \A c \in Brand!Calls : Carries(call'[c], Len(published'))
  <2>1. CASE UNCHANGED call
    BY <2>1 DEF BrandInv
  <2>2. ASSUME NEW c \in Brand!Calls, NEW r \in BrandCall,
               call' = [call EXCEPT ![c] = r], Carries(r, Len(published))
        PROVE  /\ call' \in [Brand!Calls -> BrandCall]
               /\ \A d \in Brand!Calls : Carries(call'[d], Len(published'))
    <3>1. History(published') /\ Len(published) <= Len(published') /\ Carries(r, Len(published'))
      BY <2>2 DEF BrandInv, History
    <3>2. QED
      BY <2>2, <3>1, CallStep
  <2>3. QED
    BY <2>1, <2>2
<1>2. CASE Shown
  <2>1. PICK t \in Brand!Theme, opts \in {{}, {"force"}} :
          Brand!setTheme(t, opts) /\ seen' \in 0..Len(published) /\ preview' \in BOOLEAN
    BY <1>2 DEF Shown
  <2>2. /\ theme' \in Brand!Theme /\ document' \in Brand!Theme \cup {None}
        /\ due' \in BOOLEAN /\ missed' \in BOOLEAN /\ UNCHANGED shell
        /\ DocInv'
    BY <2>1, SetThemeKeeps
  <2>3. QED
    BY <1>1, <2>1, <2>2 DEF BrandInv, History
<1>3. CASE UNCHANGED <<theme, seen, preview, Brand!paint>>
  <2>1. UNCHANGED <<theme, seen, preview, due, shell, owns, document, missed>>
    BY <1>3 DEF Brand!paint
  <2>2. QED
    BY <1>1, <2>1, DocKept DEF BrandInv, History
<1>4. QED
  BY <1>2, <1>3

\* Pages open, close and change hands, and the shell renders.
LEMMA BrandPageStep ==
  ASSUME BrandInv, DocInv', UNCHANGED <<published, theme, seen, preview>>,
         page' \in {"none", "public", "dashboard"}, look' \in Brand!Looks,
         publishing' \in BOOLEAN, due' \in BOOLEAN, missed' \in BOOLEAN,
         document' \in Brand!Theme \cup {None},
         shell' \in [open : BOOLEAN, look : Brand!Looks, theme : Brand!Theme],
         \/ UNCHANGED call
         \/ call' = [call EXCEPT !["refresh"] = Brand!Get]
  PROVE  BrandInv'
<1>1. /\ call' \in [Brand!Calls -> BrandCall]
      /\ \A c \in Brand!Calls : Carries(call'[c], Len(published'))
  <2>1. CASE UNCHANGED call
    BY <2>1 DEF BrandInv
  <2>2. CASE call' = [call EXCEPT !["refresh"] = Brand!Get]
    <3>1. "refresh" \in Brand!Calls
      BY DEF Brand!Calls
    <3>2. /\ Carries(Brand!Get, Len(published')) /\ Brand!Get \in BrandCall
          /\ History(published') /\ Len(published) <= Len(published')
      BY GetIs DEF BrandInv, History
    <3>3. QED
      BY <2>2, <3>1, <3>2, CallStep
  <2>3. QED
    BY <2>1, <2>2
<1>2. /\ History(published') /\ theme' \in Brand!Theme /\ seen' \in 0..Len(published')
      /\ preview' \in BOOLEAN
  BY DEF BrandInv, History
<1>3. QED
  BY <1>1, <1>2 DEF BrandInv

\* The provider's first paint: nobody owns the document, or the dashboard keeps it.
LEMMA StartKeeps ==
  ASSUME BrandInv, DocInv, Brand!Start
  PROVE  BrandInv' /\ DocInv'
<1>1. /\ page' = "public" /\ document' = Brand!applyThemeTokens(owns, theme, {})
      /\ call' = [call EXCEPT !["refresh"] = Brand!Get]
      /\ UNCHANGED <<published, look, theme, due, shell, owns, missed, seen, publishing, preview>>
  BY DEF Brand!Start
<1>2. document' = IF owns.personal \/ owns.shell THEN document ELSE theme
  BY <1>1 DEF Brand!applyThemeTokens
<1>3. shell.open => document' = document
  BY <1>2 DEF DocInv, FlagsInv
<1>4. ~shell.open => document' = theme
  BY <1>2 DEF DocInv, FlagsInv
<1>5. DocInv'
  BY <1>1, <1>3, <1>4 DEF DocInv, FlagsInv, Brand!DocumentShowsItsTheme
<1>6. document' \in Brand!Theme \cup {None}
  BY <1>3, <1>4 DEF BrandInv
<1>7. /\ page' \in {"none", "public", "dashboard"} /\ look' \in Brand!Looks
      /\ publishing' \in BOOLEAN /\ due' \in BOOLEAN /\ missed' \in BOOLEAN
      /\ shell' \in [open : BOOLEAN, look : Brand!Looks, theme : Brand!Theme]
      /\ UNCHANGED <<published, theme, seen, preview>>
      /\ call' = [call EXCEPT !["refresh"] = Brand!Get]
  BY <1>1 DEF BrandInv
<1>8. QED
  BY <1>5, <1>6, <1>7, BrandPageStep

\* The effects of the shell set the flags before they paint, and the cleanups
\* clear them before they paint: what they paint is let through.
LEMMA RenderKeeps ==
  ASSUME BrandInv, DocInv, Brand!Render
  PROVE  BrandInv' /\ DocInv'
<1>1. /\ due' = FALSE /\ UNCHANGED <<published, page, theme, seen, call, preview>>
      /\ Brand!Mounts \/ Brand!Unmounts \/ Brand!RendersNothing
  BY DEF Brand!Render
<1>2. CASE Brand!Mounts
  <2>1. /\ shell' = [open |-> TRUE, look |-> look, theme |-> theme]
        /\ owns' = [shell |-> TRUE, personal |-> look # "brand"]
        /\ document' = Brand!applyThemeTokens(owns', Brand!effective, {"force", "allowWhilePersonal"})
        /\ missed' = FALSE /\ UNCHANGED <<look, publishing>>
    BY <1>2 DEF Brand!Mounts
  <2>2. document' = IF look = "own" THEN None ELSE theme
    BY <2>1 DEF Brand!applyThemeTokens, Brand!effective
  <2>3. /\ shell'.open = TRUE /\ shell'.look = look
        /\ shell' \in [open : BOOLEAN, look : Brand!Looks, theme : Brand!Theme]
    BY <2>1 DEF BrandInv
  <2>4. DocInv'
    BY <1>1, <2>1, <2>2, <2>3 DEF DocInv, FlagsInv, Brand!DocumentShowsItsTheme
  <2>5. QED
    BY <1>1, <2>1, <2>2, <2>3, <2>4, BrandPageStep DEF BrandInv
<1>3. CASE Brand!Unmounts
  <2>1. /\ shell' = Brand!Closed /\ owns' = [shell |-> FALSE, personal |-> FALSE]
        /\ document' = Brand!applyThemeTokens(owns', shell.theme, {"force"})
        /\ missed' = (shell.theme # theme)
        /\ look' = "brand" /\ publishing' = FALSE
    BY <1>3 DEF Brand!Unmounts
  <2>2. document' = shell.theme
    BY <2>1 DEF Brand!applyThemeTokens
  <2>3. /\ shell'.open = FALSE
        /\ shell' \in [open : BOOLEAN, look : Brand!Looks, theme : Brand!Theme]
    BY <2>1, DefaultsTheme DEF Brand!Closed, Brand!Looks
  <2>4. DocInv'
    BY <1>1, <2>1, <2>2, <2>3 DEF DocInv, FlagsInv, Brand!DocumentShowsItsTheme
  <2>5. shell.theme \in Brand!Theme /\ look' \in Brand!Looks
    BY <2>1 DEF BrandInv, Brand!Looks
  <2>6. QED
    BY <1>1, <2>1, <2>2, <2>3, <2>4, <2>5, BrandPageStep DEF BrandInv
<1>4. CASE Brand!RendersNothing
  <2>1. ~shell.open /\ UNCHANGED <<shell, owns, document, missed, look, publishing>>
    BY <1>4 DEF Brand!RendersNothing
  <2>2. DocInv'
    BY <1>1, <2>1 DEF DocInv, FlagsInv, Brand!DocumentShowsItsTheme
  <2>3. QED
    BY <1>1, <2>1, <2>2, BrandPageStep DEF BrandInv
<1>5. QED
  BY <1>1, <1>2, <1>3, <1>4

\* A version is added to the row.
LEMMA RowStep ==
  ASSUME BrandInv, DocInv, NEW t \in Brand!Theme,
         Len(published) < MaxVersion, published' = Append(published, t),
         UNCHANGED <<page, look, theme, Brand!paint, seen, publishing, preview>>,
         \/ UNCHANGED call
         \/ \E c \in Brand!Calls, r \in BrandCall :
              call' = [call EXCEPT ![c] = r] /\ r.step = "get" /\ r.got = 0
  PROVE  BrandInv' /\ DocInv'
<1>1. /\ History(published') /\ Len(published') = Len(published) + 1 /\ Len(published) \in Nat
      /\ Len(published) <= Len(published')
  <2>1. published \in Seq(Brand!Theme) /\ Len(published) \in 1..MaxVersion
    BY DEF BrandInv, History
  <2>2. published' \in Seq(Brand!Theme) /\ Len(published') = Len(published) + 1
    BY <2>1
  <2>3. QED
    BY <2>1, <2>2, MaxVersionNat DEF History
<1>2. ASSUME NEW c \in Brand!Calls, NEW r \in BrandCall,
             call' = [call EXCEPT ![c] = r], r.step = "get", r.got = 0
      PROVE  /\ call' \in [Brand!Calls -> BrandCall]
             /\ \A d \in Brand!Calls : Carries(call'[d], Len(published'))
  <2>1. Carries(r, Len(published'))
    BY <1>1, <1>2 DEF Carries
  <2>2. QED
    BY <1>1, <1>2, <2>1, CallStep
<1>3. ASSUME UNCHANGED call
      PROVE  /\ call' \in [Brand!Calls -> BrandCall]
             /\ \A d \in Brand!Calls : Carries(call'[d], Len(published'))
  <2>1. PICK c \in Brand!Calls : TRUE
    BY DEF Brand!Calls
  <2>2. call' = [call EXCEPT ![c] = call[c]] /\ call[c] \in BrandCall
    BY <1>3 DEF BrandInv
  <2>3. Carries(call[c], Len(published'))
    BY <1>1, <2>2, MaxVersionNat DEF BrandInv, Carries, BrandCall
  <2>4. QED
    BY <1>1, <2>2, <2>3, CallStep
<1>4. /\ call' \in [Brand!Calls -> BrandCall]
      /\ \A d \in Brand!Calls : Carries(call'[d], Len(published'))
  BY <1>2, <1>3
<1>5. seen' \in 0..Len(published')
  BY <1>1 DEF BrandInv
<1>6. UNCHANGED <<due, shell, owns, document, missed>>
  BY DEF Brand!paint
<1>7. BrandInv'
  BY <1>1, <1>4, <1>5, <1>6 DEF BrandInv
<1>8. QED
  BY <1>6, <1>7, DocKept

LEMMA PublishCalls ==
  ASSUME BrandInv, NEW t \in Brand!Theme, NEW b \in BOOLEAN, Brand!Publish(t, b)
  PROVE  \E c \in Brand!Calls, r \in BrandCall :
              call' = [call EXCEPT ![c] = r] /\ Carries(r, Len(published))
<1>1. PICK s \in Saves : call' = [call EXCEPT ![s] = Brand!Put(t, b)]
  BY DEF Brand!Publish
<1>2. s \in Brand!Calls
  BY DEF Brand!Calls
<1>3. Brand!Put(t, b) \in BrandCall /\ Carries(Brand!Put(t, b), Len(published))
  BY PutFields DEF Carries, BrandInv, History
<1>4. QED
  BY <1>1, <1>2, <1>3

LEMMA DoneCalls ==
  ASSUME BrandInv, NEW c \in Brand!Calls, Brand!Done(c)
  PROVE  \E d \in Brand!Calls, r \in BrandCall :
              call' = [call EXCEPT ![d] = r] /\ Carries(r, Len(published))
<1>1. call' = [call EXCEPT ![c] = Brand!Idle]
  BY DEF Brand!Done
<1>2. Brand!Idle \in BrandCall /\ Carries(Brand!Idle, Len(published))
  BY IdleFields DEF Carries, BrandInv, History
<1>3. QED
  BY <1>1, <1>2

LEMMA BrandStep == BrandInv /\ DocInv /\ Brand!Next
                     => BrandInv' /\ DocInv'
<1> SUFFICES ASSUME BrandInv, DocInv, Brand!Next
             PROVE  BrandInv' /\ DocInv'
  OBVIOUS
<1>t. /\ theme \in Brand!Theme /\ look \in Brand!Looks /\ publishing \in BOOLEAN
      /\ "refresh" \in Brand!Calls /\ "poll" \in Brand!Calls /\ Saves \subseteq Brand!Calls
      /\ call \in [Brand!Calls -> BrandCall]
  BY DEF BrandInv, Brand!Calls
<1>1. CASE Brand!Start
  BY <1>1, StartKeeps
<1>2. ASSUME NEW p \in {"public", "dashboard"}, Brand!Go(p)
      PROVE  BrandInv' /\ DocInv'
  <2>1. DocInv' /\ page' = p /\ due' = TRUE
    BY <1>2, DocKept DEF Brand!Go
  <2>2. QED
    BY <1>2, <2>1, BrandPageStep DEF Brand!Go, BrandInv
<1>3. CASE Brand!SwitchPersonal
  <2>1. DocInv' /\ due' = TRUE /\ look' \in Brand!Looks
    BY <1>3, DocKept DEF Brand!SwitchPersonal
  <2>2. QED
    BY <1>3, <2>1, BrandPageStep DEF Brand!SwitchPersonal, BrandInv
<1>r. CASE Brand!Render
  BY <1>r, RenderKeeps
<1>4. CASE Brand!toggleColorMode
  BY <1>4, <1>t, ThemeFields, PreviewShows, QuietStep DEF Brand!toggleColorMode
<1>5. ASSUME NEW f \in Fields, Brand!patch(f)
      PROVE  BrandInv' /\ DocInv'
  <2> DEFINE n == [Brand!Draft EXCEPT !.edited = @ \cup {f}]
  <2>1. n \in Brand!Theme
    BY <1>t, ThemeFields DEF Brand!Draft
  <2>2. /\ Brand!Preview(n, {"force"}) /\ Brand!Publish(n, FALSE)
        /\ UNCHANGED <<published, page, look, seen, publishing>>
    BY <1>5 DEF Brand!patch
  <2> HIDE DEF n
  <2>3. QED
    BY <1>t, <2>1, <2>2, PreviewShows, PublishCalls, QuietStep
<1>6. CASE Brand!handleSave \/ Brand!handleReset
  <2>1. \E t \in Brand!Theme : Brand!Publish(t, TRUE)
    BY <1>6, <1>t, DefaultsTheme DEF Brand!handleSave, Brand!handleReset, Brand!Draft
  <2>2. /\ publishing' = TRUE
        /\ UNCHANGED <<published, page, look, theme, Brand!paint, seen, preview>>
    BY <1>6 DEF Brand!handleSave, Brand!handleReset
  <2>3. QED
    BY <2>1, <2>2, PublishCalls, QuietStep
<1>7. CASE Brand!SettleRefresh
  <2>1. /\ Brand!Done("refresh") /\ UNCHANGED <<published, page, look, publishing>>
        /\ \/ call["refresh"].step = "answered" /\ Brand!Adopt(call["refresh"].got)
           \/ Brand!Preview(Brand!Defaults, {}) /\ UNCHANGED seen
    BY <1>7 DEF Brand!SettleRefresh
  <2>2. Shown
    BY <1>t, <2>1, DefaultsTheme, AdoptShows, PreviewShows
  <2>3. QED
    BY <1>t, <2>1, <2>2, DoneCalls, QuietStep
<1>8. ASSUME NEW c \in Saves \cup {"poll"}, Brand!Done(c), publishing' \in BOOLEAN,
             UNCHANGED <<published, page, look>>,
             \/ call[c].step = "answered" /\ Brand!Adopt(call[c].got)
             \/ Brand!Ignore
      PROVE  BrandInv' /\ DocInv'
  <2>1. Shown \/ UNCHANGED <<theme, seen, preview, Brand!paint>>
    BY <1>t, <1>8, AdoptShows DEF Brand!Ignore
  <2>2. QED
    BY <1>t, <1>8, <2>1, DoneCalls, QuietStep
<1>9. ASSUME NEW s \in Saves, Brand!save(s)
      PROVE  BrandInv' /\ DocInv'
  BY <1>8, <1>9 DEF Brand!save
<1>10. CASE Brand!PollSettles
  BY <1>8, <1>10, <1>t DEF Brand!PollSettles
<1>11. CASE Brand!PollTimer
  <2>1. /\ call' = [call EXCEPT !["poll"] = Brand!Get]
        /\ UNCHANGED <<published, page, look, theme, Brand!paint, seen, publishing, preview>>
    BY <1>11 DEF Brand!PollTimer
  <2>2. Brand!Get \in BrandCall /\ Carries(Brand!Get, Len(published))
    BY GetIs DEF BrandInv, History
  <2>3. QED
    BY <1>t, <2>1, <2>2, QuietStep
<1>12. ASSUME NEW s \in Brand!Calls, Brand!PutTheme(s)
       PROVE  BrandInv' /\ DocInv'
  <2> DEFINE r == [Brand!Get EXCEPT !.button = call[s].button]
  <2>1. call[s].step = "put" /\ call[s] \in BrandCall /\ Carries(call[s], Len(published))
    BY <1>12, <1>t DEF Brand!PutTheme, BrandInv
  <2>2. call[s].body \in Brand!Theme /\ call[s].button \in BOOLEAN
    BY <2>1 DEF Carries, BrandCall
  <2>3. r \in BrandCall /\ r.step = "get" /\ r.got = 0
    BY <2>2, GetFields
  <2>4. /\ Len(published) < MaxVersion /\ published' = Append(published, call[s].body)
        /\ call' = [call EXCEPT ![s] = r]
        /\ UNCHANGED <<page, look, theme, Brand!paint, seen, publishing, preview>>
    BY <1>12 DEF Brand!PutTheme
  <2> HIDE DEF r
  <2>5. QED
    BY <2>2, <2>3, <2>4, RowStep
<1>13. ASSUME NEW c \in Brand!Calls, NEW r \in BrandCall, call' = [call EXCEPT ![c] = r],
              Carries(r, Len(published)),
              UNCHANGED <<published, page, look, theme, Brand!paint, seen, publishing, preview>>
       PROVE  BrandInv' /\ DocInv'
  BY <1>13, <1>t, QuietStep
<1>14. ASSUME NEW c \in Brand!Calls, Brand!GetTheme(c)
       PROVE  BrandInv' /\ DocInv'
  <2> DEFINE r == AnswerWith(call[c], Len(published))
  <2>1. /\ call' = [call EXCEPT ![c] = r]
        /\ UNCHANGED <<published, page, look, theme, Brand!paint, seen, publishing, preview>>
    BY <1>14, <1>t DEF Brand!GetTheme, AnswerWith
  <2>2. Len(published) \in 1..MaxVersion /\ Len(published) \in 0..MaxVersion
    BY MaxVersionNat DEF BrandInv, History
  <2>3. r \in BrandCall /\ r.step = "answered" /\ r.got = Len(published)
    BY <1>t, <2>2, AnswerFields
  <2> HIDE DEF r
  <2>4. Carries(r, Len(published))
    BY <2>2, <2>3 DEF Carries
  <2>5. QED
    BY <1>13, <2>1, <2>3, <2>4
<1>15. ASSUME NEW c \in Brand!Calls, Brand!Fail(c)
       PROVE  BrandInv' /\ DocInv'
  <2> DEFINE r == FailWith(call[c])
  <2>1. /\ call' = [call EXCEPT ![c] = r]
        /\ UNCHANGED <<published, page, look, theme, Brand!paint, seen, publishing, preview>>
    BY <1>15, <1>t DEF Brand!Fail, FailWith
  <2>2. call[c] \in BrandCall /\ Carries(call[c], Len(published)) /\ 0 \in 0..MaxVersion
    BY <1>t, MaxVersionNat DEF BrandInv
  <2>3. r \in BrandCall /\ r.step = "failed" /\ r.got = call[c].got
    BY <2>2, AnswerFields
  <2> HIDE DEF r
  <2>4. Carries(r, Len(published))
    BY <2>2, <2>3 DEF Carries
  <2>5. QED
    BY <1>13, <2>1, <2>3, <2>4
<1>16. CASE Brand!PublishElsewhere(Brand!Light)
  BY <1>16, DefaultsTheme, RowStep DEF Brand!PublishElsewhere
<1>17. QED
  BY <1>1, <1>2, <1>3, <1>r, <1>4, <1>5, <1>6, <1>7, <1>9, <1>10, <1>11, <1>12, <1>14, <1>15, <1>16
     DEF Brand!Next, Brand!BrandStudio, Brand!TokenStudio, Brand!Settle, Brand!Answer

LEMMA BrandStart == Brand!Init => BrandInv /\ DocInv
<1> SUFFICES ASSUME Brand!Init PROVE BrandInv /\ DocInv
  OBVIOUS
<1>1. /\ published = <<Brand!Defaults>> /\ page = "none" /\ look = "brand"
      /\ theme = Brand!Defaults /\ seen = 0 /\ document = Brand!Defaults
      /\ due = FALSE /\ shell = Brand!Closed /\ owns = [shell |-> FALSE, personal |-> FALSE]
      /\ call = [c \in Brand!Calls |-> Brand!Idle] /\ publishing = FALSE
      /\ preview = FALSE /\ missed = FALSE
  BY DEF Brand!Init
<1>2. Brand!Defaults \in Brand!Theme /\ MaxVersion \in Nat \ {0}
  BY DefaultsTheme, FormsBounds DEF Brand!Bounds
<1>3. published \in Seq(Brand!Theme) /\ Len(published) = 1
  BY <1>1, <1>2
<1>4. History(published)
  BY <1>2, <1>3 DEF History
<1>5. Carries(Brand!Idle, Len(published))
  BY <1>3, IdleFields DEF Carries
<1>6. call \in [Brand!Calls -> BrandCall] /\ \A c \in Brand!Calls : Carries(call[c], Len(published))
  BY <1>1, <1>5, IdleFields
<1>7. BrandInv
  <2>1. /\ page \in {"none", "public", "dashboard"} /\ seen \in 0..Len(published)
        /\ theme \in Brand!Theme /\ document \in Brand!Theme \cup {None}
    BY <1>1, <1>2, <1>3
  <2>2. /\ look \in Brand!Looks /\ publishing \in BOOLEAN /\ preview \in BOOLEAN
        /\ due \in BOOLEAN /\ missed \in BOOLEAN
        /\ shell \in [open : BOOLEAN, look : Brand!Looks, theme : Brand!Theme]
    BY <1>1, <1>2 DEF Brand!Closed, Brand!Looks
  <2>3. QED
    BY <1>4, <1>6, <2>1, <2>2 DEF BrandInv
<1>8. DocInv
  BY <1>1 DEF DocInv, FlagsInv, Brand!Closed, Brand!DocumentShowsItsTheme
<1>9. QED
  BY <1>7, <1>8

-----------------------------------------------------------------------------
(* Both sites                                                              *)

FormsInv ==
    /\ site \in {"links", "brand"}
    /\ site = "links" => LinksInv
    /\ site = "brand" => BrandInv /\ DocInv

LEMMA FormsInductive == Spec => []FormsInv
<1>1. Init => FormsInv
  BY LinksStart, BrandStart DEF Init, FormsInv
<1>2. FormsInv /\ [Next]_vars => FormsInv'
  <2> SUFFICES ASSUME FormsInv, [Next]_vars PROVE FormsInv'
    OBVIOUS
  <2>1. CASE OnLinks(Links!Next)
    BY <2>1, LinksStep DEF OnLinks, FormsInv
  <2>2. CASE OnBrand(Brand!Next)
    BY <2>2, BrandStep DEF OnBrand, FormsInv
  <2>3. CASE UNCHANGED vars
    <3>1. LinksInv => LinksInv'
      BY <2>3 DEF vars, links, LinksInv, Links!TypeOK, WellOpened, Spent, PaidOnce, Claims,
                  ClaimedOnce, Dead
    <3>2. BrandInv /\ DocInv => BrandInv' /\ DocInv'
      BY <2>3 DEF vars, brand, BrandInv, DocInv, FlagsInv, Brand!DocumentShowsItsTheme, History, Carries
    <3>3. UNCHANGED site
      BY <2>3 DEF vars
    <3>4. QED
      BY <3>1, <3>2, <3>3 DEF FormsInv
  <2>4. QED
    BY <2>1, <2>2, <2>3 DEF Next
<1>3. QED
  BY <1>1, <1>2, PTL DEF Spec

\* Type correctness of the pages behind links and of the brand theme, for any
\* number of tabs, links, fields, saves and versions.
THEOREM FormsTypeCorrect == Spec => []TypeOK
<1>1. FormsInv => TypeOK
  BY BrandHolds DEF FormsInv, DocInv, TypeOK, LinksInv
<1>2. QED
  BY <1>1, FormsInductive, PTL

\* "Can only be used once": of all tabs that say a link worked no two have the
\* same, and where "Password updated" is shown no link that was out when that
\* reset got to them can change the password again, however resets interleave.
THEOREM LinksWork == Spec => []LinksWorkOnce
<1>1. FormsInv => LinksWorkOnce
  BY LinksHolds DEF FormsInv, LinksWorkOnce
<1>2. QED
  BY <1>1, FormsInductive, PTL

\* Brand and personal theme paint the same document: a dashboard with a theme of
\* its own never shows the brand, every other page shows the theme its provider
\* holds, also after the dashboard closed, unless it closed before it had
\* rendered that theme; for any order of answers, edits and renderings.
THEOREM DocumentIsPainted == Spec => []DocumentShowsItsTheme
<1>1. FormsInv => DocumentShowsItsTheme
  BY DEF FormsInv, DocInv, DocumentShowsItsTheme
<1>2. QED
  BY <1>1, FormsInductive, PTL
=============================================================================
