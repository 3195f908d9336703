------------------------------ MODULE PagesProofs ------------------------------
(***************************************************************************)
(* The pages of the client: what each page shows, and what it does, for    *)
(* every number of rows, calls and answers.  One page is open in a         *)
(* behaviour, so each has an inductive invariant of its own: the wizard,   *)
(* the providers, the operator's look, the pages over the store and the    *)
(* security page of an account; PagesInv puts them together.               *)
(***************************************************************************)
EXTENDS WebPages, Sequences, WellFoundedInduction, TLAPS

-----------------------------------------------------------------------------
(* The wizard                                                              *)

WizardInv == Wizard!TypeOK /\ Wizard!StepsBehindAreValid /\ Wizard!SuccessNamesTheLast

LEMMA WizardStart == Wizard!Init => WizardInv
<1> SUFFICES ASSUME Wizard!Init PROVE WizardInv
  OBVIOUS
<1>1. step = 1 /\ invalid = {1, 2} /\ isActivated = FALSE /\ createdOrgId = None /\ made = 0
  BY DEF Wizard!Init
<1>2. step \in 1..8 /\ invalid \subseteq {1, 2, 4, 6} /\ made \in 0..MaxMade
  BY <1>1, PagesBounds DEF Wizard!Bounds
<1>3. isActivated \in BOOLEAN /\ createdOrgId \in 1..MaxMade \cup {None}
  BY <1>1
<1>4. (\A s \in invalid : s >= step) /\ step # 8
  BY <1>1
<1>5. QED
  BY <1>2, <1>3, <1>4 DEF WizardInv, Wizard!TypeOK, Wizard!Steps, Wizard!Activate,
        Wizard!CanGoWrong, Wizard!StepsBehindAreValid, Wizard!SuccessNamesTheLast

LEMMA WizardKeeps == WizardInv /\ Wizard!Next => WizardInv'
<1> SUFFICES ASSUME WizardInv, Wizard!Next PROVE WizardInv'
  OBVIOUS
<1> USE DEF WizardInv, Wizard!TypeOK, Wizard!StepsBehindAreValid, Wizard!SuccessNamesTheLast,
            Wizard!Steps, Wizard!Activate, Wizard!Review, Wizard!CanGoWrong
<1>t. made \in Nat /\ MaxMade \in Nat
  BY PagesBounds DEF Wizard!Bounds
<1>1. CASE Wizard!Edit
  BY <1>1 DEF Wizard!Edit
<1>2. CASE Wizard!handleNext
  BY <1>2 DEF Wizard!handleNext, Wizard!Passes, Wizard!GoTo
<1>3. CASE Wizard!Back
  BY <1>3 DEF Wizard!Back, Wizard!GoTo
<1>4. ASSUME NEW s \in Wizard!Steps, Wizard!Breadcrumb(s) PROVE WizardInv'
  BY <1>4 DEF Wizard!Breadcrumb, Wizard!GoTo
<1>5. CASE Wizard!onSubmit
  BY <1>t, <1>5 DEF Wizard!onSubmit, Wizard!Created
<1>6. CASE Wizard!Reopen
  <2>1. step' = 1 /\ invalid' = {1, 2} /\ isActivated' = FALSE /\ createdOrgId' = None /\ made' = made
    BY <1>6 DEF Wizard!Reopen
  <2>2. step' \in 1..8 /\ invalid' \subseteq {1, 2, 4, 6} /\ made' \in 0..MaxMade
    BY <2>1
  <2>3. isActivated' \in BOOLEAN /\ createdOrgId' \in 1..MaxMade \cup {None}
    BY <2>1
  <2>4. (\A s \in invalid' : s >= step') /\ step' # 8
    BY <2>1
  <2>5. QED
    BY <2>2, <2>3, <2>4
<1>7. QED
  BY <1>1, <1>2, <1>3, <1>4, <1>5, <1>6 DEF Wizard!Next, Wizard!SubmitEarly

-----------------------------------------------------------------------------
(* The sign-in providers                                                   *)

Rows == [Providers -> SSO!Row \cup {None}]

SsoCall == [op : SSO!Ops \cup {None}, row : Providers \cup {None},
            step : {"free", "sent", "read", "ok", "refused"}, got : Rows \cup {None},
            mine : BOOLEAN]

\* What the screen knows of is, or was, in the table; what was removed stays so.
Knows(r, rows) ==
    /\ r.op \in SSO!RowOps \cup {"create"} => r.row \in Providers
    /\ r.op \in SSO!RowOps => rows[r.row] # None
    /\ (r.op = "load" /\ r.step = "ok")
          => r.got \in Rows /\ \A p \in Providers : r.got[p] # None => rows[p] # None

ListKnows(list, rows) == list # None => \A p \in Providers : list[p] # None => rows[p] # None

Removals == \A p \in Providers : (table[p] # None /\ ~table[p].there) => table[p] = SSO!Removed

\* The list is the table, or is loaded again by a call of this visit, unless the
\* screen cannot know.
Reloads(r) == r.mine /\ (r.op = "load" \/ (r.op \in SSO!RowOps \cup {"create"} /\ r.step = "ok"))
Fresh == outdated \/ /\ shown # None => shown = table \/ \E d \in SSO!Slots : Reloads(call[d])
                     /\ \A c \in SSO!Slots :
                          (call[c].mine /\ call[c].op = "load" /\ call[c].step = "ok")
                             => call[c].got = table \/ \E d \in SSO!Slots \ {c} : Reloads(call[d])

\* A probe vouches for a row that is tested or enabled, or about to be enabled.
Good(r) == r = None \/ ~r.there \/ ~(r.enabled \/ r.tested)
Vouched == /\ \A p \in Providers : Good(table[p]) \/ p \in vouched
           /\ \A c \in SSO!Slots : (call[c].op = "enable" /\ call[c].step = "read") => call[c].row \in vouched

SsoTypes == /\ table \in Rows /\ vouched \subseteq Providers /\ outdated \in BOOLEAN
            /\ shown \in Rows \cup {None} /\ busy \in Providers \cup {Other, None}
            /\ form \in {"closed", "open", "saving"} /\ call \in [SSO!Slots -> SsoCall]

SsoInv == /\ SsoTypes /\ Removals /\ ListKnows(shown, table)
          /\ \A c \in SSO!Slots : Knows(call[c], table)
          /\ Fresh /\ Vouched /\ SSO!BusyRowsAwait

LEMMA SsoBounds ==
  /\ None \notin Providers /\ Other \notin Providers /\ None \notin SSO!Row /\ None \notin SSO!Ops
  BY PagesBounds DEF SSO!Bounds

LEMMA SsoHolds == SsoInv => /\ SSO!TypeOK /\ SSO!EnabledWasTested
                            /\ SSO!ListIsCurrent /\ SSO!BusyRowsAwait
<1> SUFFICES ASSUME SsoInv PROVE SSO!TypeOK /\ SSO!EnabledWasTested /\ SSO!ListIsCurrent
  BY DEF SsoInv
<1>1. SSO!TypeOK
  <2>1. ASSUME NEW c \in SSO!Slots
        PROVE  /\ call[c].op \in SSO!Ops \cup {None} /\ call[c].row \in Providers \cup {None}
               /\ call[c].step \in {"free", "sent", "read", "ok", "refused"} /\ call[c].mine \in BOOLEAN
    <3>1. call[c] \in SsoCall
      BY DEF SsoInv, SsoTypes
    <3>2. QED
      BY <3>1 DEF SsoCall
  <2>2. QED
    BY <2>1 DEF SsoInv, SsoTypes, Rows, SSO!TypeOK
<1>2. SSO!EnabledWasTested
  BY DEF SsoInv, Vouched, Good, SSO!EnabledWasTested, SSO!Exists
<1>3. SSO!ListIsCurrent
  <2> SUFFICES ASSUME SSO!Quiet, ~outdated, shown # None PROVE shown = table
    BY DEF SSO!ListIsCurrent
  <2>1. \A d \in SSO!Slots : ~Reloads(call[d])
    BY SsoBounds DEF SSO!Quiet, SSO!InFlight, Reloads, SSO!Ops
  <2>2. QED
    BY <2>1 DEF SsoInv, Fresh
<1>4. QED
  BY <1>1, <1>2, <1>3

\* What a request becomes.
LEMMA SsoRequest ==
  ASSUME NEW op \in SSO!Ops, NEW p \in Providers \cup {None}
  PROVE  /\ SSO!Request(op, p) \in SsoCall /\ SSO!Request(op, p).op = op
         /\ SSO!Request(op, p).row = p /\ SSO!Request(op, p).step = "sent"
         /\ SSO!Request(op, p).mine = TRUE
  BY DEF SSO!Request, SsoCall

LEMMA SsoFree == /\ SSO!Free \in SsoCall /\ SSO!Free.op = None /\ SSO!Free.row = None
                 /\ SSO!Free.step = "free" /\ SSO!Free.mine = FALSE
  BY DEF SSO!Free, SsoCall

\* What becomes of a request when its screen is left.
LEMMA SsoOrphan ==
  ASSUME NEW r \in SsoCall, NEW b \in BOOLEAN
  PROVE  /\ [r EXCEPT !.mine = b] \in SsoCall /\ [r EXCEPT !.mine = b].op = r.op
         /\ [r EXCEPT !.mine = b].row = r.row /\ [r EXCEPT !.mine = b].step = r.step
         /\ [r EXCEPT !.mine = b].got = r.got /\ [r EXCEPT !.mine = b].mine = b
  BY DEF SsoCall

Answered(r, s, got) == [r EXCEPT !.step = s, !.got = got]

LEMMA SsoAnswered ==
  ASSUME NEW r \in SsoCall, NEW s \in {"read", "ok", "refused"}, NEW got \in Rows \cup {None}
  PROVE  /\ Answered(r, s, got) \in SsoCall /\ Answered(r, s, got).op = r.op
         /\ Answered(r, s, got).row = r.row /\ Answered(r, s, got).step = s
         /\ Answered(r, s, got).got = got /\ Answered(r, s, got).mine = r.mine
  BY DEF Answered, SsoCall

LEMMA SsoAnsweredRecord ==
  ASSUME NEW r \in SsoCall, NEW s \in {"read", "ok", "refused"}, NEW got \in Rows \cup {None}
  PROVE  \E a \in SsoCall : /\ a = Answered(r, s, got) /\ a.op = r.op /\ a.row = r.row
                            /\ a.step = s /\ a.got = got /\ a.mine = r.mine
  BY SsoAnswered

\* A row of the table after a write.
LEMMA RowKinds ==
  /\ SSO!NewRow \in SSO!Row /\ SSO!NewRow.there /\ ~SSO!NewRow.enabled /\ ~SSO!NewRow.tested
  /\ SSO!Removed \in SSO!Row /\ ~SSO!Removed.there
  BY DEF SSO!NewRow, SSO!Removed, SSO!Row

TestedAs(r, b) == [r EXCEPT !.tested = b]
EnabledAs(r, b) == [r EXCEPT !.enabled = b]

LEMMA RowWritten ==
  ASSUME NEW r \in SSO!Row, r.there, NEW b \in BOOLEAN
  PROVE  /\ TestedAs(r, b) \in SSO!Row /\ TestedAs(r, b).there
         /\ TestedAs(r, b).enabled => r.enabled
         /\ TestedAs(r, b).tested => b
         /\ EnabledAs(r, b) \in SSO!Row /\ EnabledAs(r, b).there
         /\ EnabledAs(r, b).tested => r.tested
         /\ EnabledAs(r, b).enabled => b
  BY DEF SSO!Row, TestedAs, EnabledAs

LEMMA RowReplaced ==
  ASSUME NEW r \in SSO!Row
  PROVE  /\ SSO!SecretReplaced(r) \in SSO!Row /\ SSO!SecretReplaced(r).there = r.there
         /\ SSO!SecretReplaced(r).enabled = FALSE /\ SSO!SecretReplaced(r).tested = FALSE
  BY DEF SSO!Row, SSO!SecretReplaced

LEMMA OneCall ==
  ASSUME SsoInv, NEW c \in SSO!Slots, NEW r \in SsoCall, call' = [call EXCEPT ![c] = r]
  PROVE  /\ call' \in [SSO!Slots -> SsoCall] /\ call'[c] = r
         /\ \A d \in SSO!Slots : d # c => call'[d] = call[d]
  BY DEF SsoInv, SsoTypes

\* A row that waits goes on waiting.
Awaits(r) == r.mine /\ r.row = busy /\ r.op # "create"

LEMMA BusyStep ==
  ASSUME SsoInv, NEW c \in SSO!Slots, NEW r \in SsoCall, call' = [call EXCEPT ![c] = r],
         \/ busy' \notin Providers
         \/ busy' = r.row /\ r.op # "create" /\ r.mine
         \/ busy' = busy /\ (Awaits(call[c]) => Awaits(r))
  PROVE  SSO!BusyRowsAwait'
<1>1. call'[c] = r /\ \A d \in SSO!Slots : d # c => call'[d] = call[d]
  BY OneCall
<1>2. CASE busy' \notin Providers
  BY <1>2 DEF SSO!BusyRowsAwait
<1>3. CASE busy' = r.row /\ r.op # "create" /\ r.mine
  BY <1>1, <1>3 DEF SSO!BusyRowsAwait
<1>4. CASE busy' = busy /\ (Awaits(call[c]) => Awaits(r))
  <2>1. ASSUME busy \in Providers PROVE \E d \in SSO!Slots : Awaits(call[d])
    BY <2>1 DEF SsoInv, SSO!BusyRowsAwait, Awaits
  <2>2. ASSUME NEW d \in SSO!Slots, Awaits(call[d])
        PROVE  \E e \in SSO!Slots : call'[e].mine /\ call'[e].row = busy /\ call'[e].op # "create"
    <3>1. CASE d = c
      BY <1>1, <1>4, <2>2, <3>1 DEF Awaits
    <3>2. CASE d # c
      BY <1>1, <2>2, <3>2 DEF Awaits
    <3>3. QED
      BY <3>1, <3>2
  <2>3. QED
    BY <1>4, <2>1, <2>2 DEF SSO!BusyRowsAwait
<1>5. QED
  BY <1>2, <1>3, <1>4

\* The screen asks, or hears of something that changes neither list nor table.
LEMMA ScreenStep ==
  ASSUME SsoInv, NEW c \in SSO!Slots, NEW r \in SsoCall, call' = [call EXCEPT ![c] = r],
         UNCHANGED <<table, vouched, shown>>, busy' \in Providers \cup {Other, None},
         form' \in {"closed", "open", "saving"}, outdated' \in BOOLEAN, outdated => outdated',
         Knows(r, table), (r.op = "enable" /\ r.step = "read") => r.row \in vouched,
         outdated' \/ /\ Reloads(call[c]) => Reloads(r)
                      /\ (r.op = "load" /\ r.step = "ok") => r.got = table,
         SSO!BusyRowsAwait'
  PROVE  SsoInv'
<1>1. /\ call' \in [SSO!Slots -> SsoCall] /\ call'[c] = r
      /\ \A d \in SSO!Slots : d # c => call'[d] = call[d]
  BY OneCall
<1>2. SsoTypes'
  BY <1>1 DEF SsoInv, SsoTypes
<1>3. Removals' /\ ListKnows(shown, table)'
  BY DEF SsoInv, Removals, ListKnows
<1>4. \A d \in SSO!Slots : Knows(call'[d], table')
  BY <1>1 DEF SsoInv
<1>5. Vouched'
  BY <1>1 DEF SsoInv, Vouched
<1>6. Fresh'
  <2>1. CASE outdated'
    BY <2>1 DEF Fresh
  <2>2. CASE ~outdated'
    <3>1. \A d \in SSO!Slots : Reloads(call[d]) => Reloads(call'[d])
      BY <1>1, <2>2
    <3>2. /\ shown # None => shown = table \/ \E d \in SSO!Slots : Reloads(call[d])
          /\ \A e \in SSO!Slots :
               (call[e].mine /\ call[e].op = "load" /\ call[e].step = "ok")
                  => call[e].got = table \/ \E d \in SSO!Slots \ {e} : Reloads(call[d])
      BY <2>2 DEF SsoInv, Fresh
    <3>3. ASSUME NEW e \in SSO!Slots, call'[e].mine, call'[e].op = "load", call'[e].step = "ok"
          PROVE  call'[e].got = table \/ \E d \in SSO!Slots \ {e} : Reloads(call'[d])
      BY <1>1, <2>2, <3>1, <3>2, <3>3
    <3>4. shown # None => shown = table \/ \E d \in SSO!Slots : Reloads(call'[d])
      BY <3>1, <3>2
    <3>5. QED
      BY <3>3, <3>4 DEF Fresh
  <2>3. QED
    BY <2>1, <2>2
<1>7. QED
  BY <1>2, <1>3, <1>4, <1>5, <1>6 DEF SsoInv

\* A step of the API on the row of the call: who changes the table has the list
\* loaded again, or is of an earlier visit.
LEMMA ServerStep ==
  ASSUME SsoInv, NEW c \in SSO!Slots, NEW r \in SsoCall, call' = [call EXCEPT ![c] = r],
         UNCHANGED <<shown, busy, form>>, table' \in Rows, vouched \subseteq vouched',
         vouched' \subseteq Providers, outdated' \in BOOLEAN, outdated => outdated',
         r.op = call[c].op, r.row = call[c].row, r.mine = call[c].mine, r.op # "load",
         r.step # "read", ~Reloads(call[c]),
         outdated' \/ table' = table \/ Reloads(r) \/ SSO!ListAwaited,
         \A p \in Providers : /\ table[p] # None => table'[p] # None
                              /\ (table'[p] # None /\ ~table'[p].there) => table'[p] = SSO!Removed
                              /\ Good(table'[p]) \/ p \in vouched'
  PROVE  SsoInv'
<1>1. /\ call' \in [SSO!Slots -> SsoCall] /\ call'[c] = r
      /\ \A d \in SSO!Slots : d # c => call'[d] = call[d]
  BY OneCall
<1>2. SsoTypes'
  BY <1>1 DEF SsoInv, SsoTypes
<1>3. Removals' /\ ListKnows(shown, table)'
  BY DEF SsoInv, Removals, ListKnows
<1>4. ASSUME NEW d \in SSO!Slots PROVE Knows(call'[d], table')
  <2>1. Knows(call[d], table)
    BY DEF SsoInv
  <2>2. CASE d # c
    BY <1>1, <2>1, <2>2 DEF Knows, SSO!RowOps
  <2>3. CASE d = c
    BY <1>1, <2>1, <2>3 DEF Knows, SSO!RowOps
  <2>4. QED
    BY <2>2, <2>3
<1>5. Vouched'
  BY <1>1 DEF SsoInv, Vouched
<1>6. SSO!BusyRowsAwait'
  BY BusyStep DEF Awaits
<1>7. Fresh'
  <2>1. CASE outdated'
    BY <2>1 DEF Fresh
  <2>2. CASE ~outdated'
    <3>1. \A d \in SSO!Slots : Reloads(call[d]) => Reloads(call'[d])
      BY <1>1
    <3>2. /\ shown # None => shown = table \/ \E d \in SSO!Slots : Reloads(call[d])
          /\ \A e \in SSO!Slots :
               (call[e].mine /\ call[e].op = "load" /\ call[e].step = "ok")
                  => call[e].got = table \/ \E d \in SSO!Slots \ {e} : Reloads(call[d])
      BY <2>2 DEF SsoInv, Fresh
    <3>l. table' = table \/ Reloads(r) \/ \E d \in SSO!Slots \ {c} :
                  call[d].mine /\ call[d].op = "load" /\ call[d].step = "sent"
      <4>1. ASSUME SSO!ListAwaited, ~call[c].mine
            PROVE  \E d \in SSO!Slots \ {c} : call[d].mine /\ call[d].op = "load" /\ call[d].step = "sent"
        BY <4>1 DEF SSO!ListAwaited
      <4>2. ASSUME SSO!ListAwaited, call[c].op # "load"
            PROVE  \E d \in SSO!Slots \ {c} : call[d].mine /\ call[d].op = "load" /\ call[d].step = "sent"
        BY <4>2 DEF SSO!ListAwaited
      <4>3. QED
        BY <2>2, <4>1, <4>2
    <3>3. ASSUME NEW e \in SSO!Slots, call'[e].mine, call'[e].op = "load", call'[e].step = "ok"
          PROVE  call'[e].got = table' \/ \E d \in SSO!Slots \ {e} : Reloads(call'[d])
      <4>1. e # c /\ call'[e] = call[e]
        BY <1>1, <3>3
      <4>2. CASE table' = table \/ Reloads(r)
        BY <1>1, <3>1, <3>2, <3>3, <4>1, <4>2
      <4>3. ASSUME NEW d \in SSO!Slots \ {c}, call[d].mine, call[d].op = "load", call[d].step = "sent"
            PROVE  \E x \in SSO!Slots \ {e} : Reloads(call'[x])
        <5>1. d # e /\ call'[d] = call[d]
          BY <1>1, <3>3, <4>1, <4>3
        <5>2. QED
          BY <4>3, <5>1 DEF Reloads
      <4>4. QED
        BY <3>l, <4>2, <4>3
    <3>4. shown # None => shown = table' \/ \E d \in SSO!Slots : Reloads(call'[d])
      <4>1. ASSUME NEW d \in SSO!Slots \ {c}, call[d].mine, call[d].op = "load", call[d].step = "sent"
            PROVE  \E x \in SSO!Slots : Reloads(call'[x])
        BY <1>1, <4>1 DEF Reloads
      <4>2. QED
        BY <1>1, <3>1, <3>2, <3>l, <4>1
    <3>5. QED
      BY <3>3, <3>4 DEF Fresh
  <2>3. QED
    BY <2>1, <2>2
<1>8. QED
  BY <1>2, <1>3, <1>4, <1>5, <1>6, <1>7 DEF SsoInv

\* The screen's own steps.
LEMMA SsoScreen ==
  ASSUME SsoInv, NEW c \in SSO!Slots, NEW p \in Providers,
         SSO!runTest(c, p) \/ SSO!toggle(c, p) \/ SSO!remove(c, p) \/ SSO!submit(c, p)
  PROVE  SsoInv'
<1>1. PICK op \in {"test", "enable", "disable", "remove", "create"} :
        /\ SSO!Send(c, op, p) /\ UNCHANGED <<table, vouched, shown, outdated>>
        /\ \/ op # "create" /\ busy' = p /\ UNCHANGED form /\ shown # None /\ SSO!Exists(shown, p)
           \/ op = "create" /\ busy' = busy /\ form' = "saving"
  BY DEF SSO!runTest, SSO!toggle, SSO!remove, SSO!submit, SSO!RowAction, SSO!server
<1> DEFINE r == SSO!Request(op, p)
<1>2. /\ call' = [call EXCEPT ![c] = r] /\ call[c] = SSO!Free
  BY <1>1 DEF SSO!Send, SSO!NextSlot
<1>3. r \in SsoCall /\ r.op = op /\ r.row = p /\ r.step = "sent"
      /\ r.mine = TRUE
  <2>1. op \in SSO!Ops /\ p \in Providers \cup {None}
    BY <1>1 DEF SSO!Ops, SSO!RowOps
  <2>2. QED
    BY <2>1, SsoRequest
<1> HIDE DEF r
<1>4. Knows(r, table)
  BY <1>1, <1>3 DEF Knows, SsoInv, ListKnows, SSO!Exists, SSO!RowOps
<1>5. ~Reloads(call[c]) /\ call[c].row = None /\ call[c].op = None
  BY <1>2, SsoFree, SsoBounds DEF Reloads, SSO!Ops
<1>6. SSO!BusyRowsAwait'
  <2>1. busy' \notin Providers \/ (busy' = p /\ r.op # "create") \/ (busy' = busy /\ ~Awaits(call[c]))
    BY <1>1, <1>3, <1>5, SsoBounds DEF Awaits
  <2>2. QED
    BY <1>2, <1>3, <2>1, BusyStep
<1>7. /\ busy' \in Providers \cup {Other, None} /\ form' \in {"closed", "open", "saving"}
      /\ outdated' \in BOOLEAN /\ (outdated => outdated')
  BY <1>1 DEF SsoInv, SsoTypes
<1>8. QED
  BY <1>1, <1>2, <1>3, <1>4, <1>5, <1>6, <1>7, ScreenStep

\* Buttons and the form, that ask nothing.
LEMMA SsoIdle ==
  ASSUME SsoInv, SSO!OtherRow \/ SSO!AddProvider \/ SSO!Cancel
  PROVE  SsoInv'
<1>1. /\ UNCHANGED <<table, vouched, shown, call, outdated>> /\ form' \in {"closed", "open", "saving"}
      /\ busy' = busy \/ busy' \in {Other, None}
  BY DEF SSO!OtherRow, SSO!AddProvider, SSO!Cancel, SSO!server, SsoInv, SsoTypes
<1>2. SSO!BusyRowsAwait'
  BY <1>1, SsoBounds DEF SsoInv, SSO!BusyRowsAwait
<1>3. SsoTypes'
  BY <1>1 DEF SsoInv, SsoTypes
<1>4. Removals' /\ ListKnows(shown, table)' /\ Vouched' /\ Fresh'
      /\ \A d \in SSO!Slots : Knows(call'[d], table')
  BY <1>1 DEF SsoInv, Removals, ListKnows, Vouched, Fresh
<1>5. QED
  BY <1>2, <1>3, <1>4 DEF SsoInv

LEMMA SsoOpen ==
  ASSUME SsoInv, NEW c \in SSO!Slots, SSO!Open(c)
  PROVE  SsoInv'
<1> DEFINE r == SSO!Request("load", None)
<1>1. /\ shown' = None /\ busy' = None /\ form' = "closed" /\ outdated' = FALSE
      /\ call' = [SSO!Orphaned EXCEPT ![c] = r] /\ UNCHANGED <<table, vouched>>
  BY DEF SSO!Open, SSO!server
<1>2. r \in SsoCall /\ r.op = "load" /\ r.row = None /\ r.step = "sent"
  <2>1. "load" \in SSO!Ops /\ None \in Providers \cup {None}
    BY DEF SSO!Ops
  <2>2. QED
    BY <2>1, SsoRequest
<1> HIDE DEF r
<1>3. ASSUME NEW d \in SSO!Slots
      PROVE  /\ SSO!Orphaned[d] \in SsoCall /\ SSO!Orphaned[d].op = call[d].op
             /\ SSO!Orphaned[d].row = call[d].row /\ SSO!Orphaned[d].step = call[d].step
             /\ SSO!Orphaned[d].got = call[d].got /\ SSO!Orphaned[d].mine = FALSE
  <2> DEFINE was == call[d]
  <2>1. was \in SsoCall /\ SSO!Orphaned[d] = [was EXCEPT !.mine = FALSE]
    BY DEF SsoInv, SsoTypes, SSO!Orphaned
  <2> HIDE DEF was
  <2>2. /\ [was EXCEPT !.mine = FALSE] \in SsoCall /\ [was EXCEPT !.mine = FALSE].op = was.op
        /\ [was EXCEPT !.mine = FALSE].row = was.row /\ [was EXCEPT !.mine = FALSE].step = was.step
        /\ [was EXCEPT !.mine = FALSE].got = was.got /\ [was EXCEPT !.mine = FALSE].mine = FALSE
    BY <2>1, SsoOrphan
  <2>3. QED
    BY <2>1, <2>2 DEF was
<1>4. SSO!Orphaned \in [SSO!Slots -> SsoCall]
  <2>1. SSO!Orphaned = [d \in SSO!Slots |-> SSO!Orphaned[d]]
    BY DEF SSO!Orphaned
  <2>2. QED
    BY <1>3, <2>1
<1>5. /\ call' \in [SSO!Slots -> SsoCall] /\ call'[c] = r
      /\ \A d \in SSO!Slots : d # c => call'[d] = SSO!Orphaned[d]
  BY <1>1, <1>2, <1>4
<1>6. SsoTypes'
  BY <1>1, <1>5 DEF SsoInv, SsoTypes
<1>7. Removals' /\ ListKnows(shown, table)'
  BY <1>1 DEF SsoInv, Removals, ListKnows
<1>8. ASSUME NEW d \in SSO!Slots PROVE Knows(call'[d], table')
  <2>1. Knows(call[d], table)
    BY DEF SsoInv
  <2>2. CASE d = c
    BY <1>2, <1>5, <2>2 DEF Knows, SSO!RowOps
  <2>3. CASE d # c
    BY <1>1, <1>3, <1>5, <2>1, <2>3 DEF Knows
  <2>4. QED
    BY <2>2, <2>3
<1>9. Vouched'
  <2>1. ASSUME NEW d \in SSO!Slots, call'[d].op = "enable", call'[d].step = "read"
        PROVE  call'[d].row \in vouched'
    BY <1>1, <1>2, <1>3, <1>5, <2>1 DEF SsoInv, Vouched
  <2>2. QED
    BY <1>1, <2>1 DEF SsoInv, Vouched
<1>10. SSO!BusyRowsAwait'
  BY <1>1, SsoBounds DEF SSO!BusyRowsAwait
<1>11. Fresh'
  <2>1. \A d \in SSO!Slots : ~(call'[d].mine /\ call'[d].op = "load" /\ call'[d].step = "ok")
    BY <1>2, <1>3, <1>5
  <2>2. QED
    BY <1>1, <2>1 DEF Fresh
<1>12. QED
  BY <1>6, <1>7, <1>8, <1>9, <1>10, <1>11 DEF SsoInv

\* Answers to the actions of a row and to the form.
LEMMA SsoSettle ==
  ASSUME SsoInv, NEW c \in SSO!Slots, SSO!SettleRow(c) \/ SSO!SettleCreate(c)
  PROVE  SsoInv'
<1>t. /\ call[c] \in SsoCall /\ Knows(call[c], table) /\ SsoTypes
  BY DEF SsoInv, SsoTypes
<1>1. /\ call[c].op \in SSO!RowOps \cup {"create"} /\ call[c].row \in Providers
      /\ UNCHANGED <<table, vouched, shown, outdated>>
      /\ busy' \in {busy, None} /\ form' \in {form, "open", "closed"}
  BY <1>t DEF SSO!SettleRow, SSO!SettleCreate, SSO!Arrived, SSO!server, SSO!FormAfter, Knows
<1>2. CASE call[c].step = "ok"
  <2> DEFINE r == SSO!Reload(c)
  <2>1. call' = [call EXCEPT ![c] = r] /\ busy' = busy
    BY <1>2 DEF SSO!SettleRow, SSO!SettleCreate
  <2>2. /\ r \in SsoCall /\ r.op = "load" /\ r.step = "sent" /\ r.mine = call[c].mine
        /\ call[c].op # "create" => r.row = call[c].row
    <3>1. PICK q \in Providers \cup {None} :
            /\ r = [SSO!Request("load", q) EXCEPT !.mine = call[c].mine]
            /\ call[c].op # "create" => q = call[c].row
      BY <1>1 DEF SSO!Reload, SSO!RowOps
    <3>2. /\ SSO!Request("load", q) \in SsoCall /\ SSO!Request("load", q).op = "load"
          /\ SSO!Request("load", q).row = q /\ SSO!Request("load", q).step = "sent"
      BY SsoRequest DEF SSO!Ops
    <3>3. call[c].mine \in BOOLEAN
      BY <1>t DEF SsoCall
    <3>4. QED
      BY <3>1, <3>2, <3>3, SsoOrphan
  <2> HIDE DEF r
  <2>3. SSO!BusyRowsAwait'
    BY <2>1, <2>2, BusyStep DEF Awaits
  <2>4. Knows(r, table) /\ (Reloads(call[c]) => Reloads(r))
    BY <2>2 DEF Knows, Reloads, SSO!RowOps
  <2>5. /\ busy' \in Providers \cup {Other, None} /\ form' \in {"closed", "open", "saving"}
        /\ outdated' \in BOOLEAN /\ (outdated => outdated')
    BY <1>t, <1>1 DEF SsoTypes
  <2>6. QED
    BY <1>1, <2>1, <2>2, <2>3, <2>4, <2>5, ScreenStep
<1>3. CASE call[c].step # "ok"
  <2>1. /\ call' = [call EXCEPT ![c] = SSO!Free] /\ ~Reloads(call[c])
        /\ busy' = None \/ (busy' = busy /\ (call[c].op = "create" \/ ~call[c].mine))
    BY <1>1, <1>3 DEF SSO!SettleRow, SSO!SettleCreate, SSO!Arrived, Reloads, SSO!RowOps
  <2>2. SSO!BusyRowsAwait'
    BY <2>1, BusyStep, SsoFree, SsoBounds DEF Awaits
  <2>3. Knows(SSO!Free, table)
    BY SsoFree, SsoBounds DEF Knows, SSO!Ops
  <2>4. /\ busy' \in Providers \cup {Other, None} /\ form' \in {"closed", "open", "saving"}
        /\ outdated' \in BOOLEAN /\ (outdated => outdated')
    BY <1>t, <1>1 DEF SsoTypes
  <2>5. QED
    BY <1>1, <2>1, <2>2, <2>3, <2>4, ScreenStep, SsoFree
<1>4. QED
  BY <1>2, <1>3

\* The list comes, or does not.
LEMMA SsoOwnList ==
  ASSUME SsoInv, NEW c \in SSO!Slots, SSO!SettleLoad(c), call[c].mine
  PROVE  SsoInv'
<1>t. /\ call[c] \in SsoCall /\ Knows(call[c], table) /\ SsoTypes
  BY DEF SsoInv, SsoTypes
<1>1. /\ call[c].op = "load" /\ call[c].step \in {"ok", "refused"}
      /\ shown' = IF call[c].step = "ok" THEN call[c].got
                  ELSE IF shown = None THEN [p \in Providers |-> None] ELSE shown
      /\ busy' = SSO!BusyAfter(c) /\ outdated' = (outdated \/ SSO!Untold(c))
      /\ call' = [call EXCEPT ![c] = SSO!Free] /\ UNCHANGED <<table, vouched, form>>
  BY DEF SSO!SettleLoad, SSO!Arrived, SSO!server
<1>2. /\ call' \in [SSO!Slots -> SsoCall] /\ call'[c] = SSO!Free
      /\ \A d \in SSO!Slots : d # c => call'[d] = call[d]
  BY <1>1, SsoFree, OneCall
<1>3. shown' \in Rows /\ ListKnows(shown', table)
  BY <1>t, <1>1 DEF Knows, SsoInv, SsoTypes, ListKnows, Rows
<1>4. SsoTypes'
  BY <1>t, <1>1, <1>2, <1>3 DEF SsoTypes, SSO!BusyAfter
<1>5. Removals' /\ ListKnows(shown, table)'
  BY <1>1, <1>3 DEF SsoInv, Removals, ListKnows
<1>6. \A d \in SSO!Slots : Knows(call'[d], table')
  BY <1>1, <1>2, SsoFree, SsoBounds DEF SsoInv, Knows, SSO!Ops
<1>7. Vouched'
  BY <1>1, <1>2, SsoFree, SsoBounds DEF SsoInv, Vouched, SSO!Ops, SSO!RowOps
<1>8. SSO!BusyRowsAwait'
  <2>1. busy' = None \/ (busy' = busy /\ call[c].row = None)
    BY <1>1 DEF SSO!BusyAfter, SSO!Tail
  <2>2. QED
    BY <1>1, <2>1, SsoFree, SsoBounds, BusyStep DEF Awaits
<1>9. Fresh'
  <2>1. CASE outdated'
    BY <2>1 DEF Fresh
  <2>2. CASE ~outdated'
    <3>1. /\ ~outdated /\ call[c].step = "ok" /\ shown' = call[c].got
          /\ \A d \in SSO!Slots \ {c} : ~(call[d].mine /\ call[d].op = "load")
      BY <1>1, <2>2 DEF SSO!Untold
    <3>2. call[c].got = table \/ \E d \in SSO!Slots \ {c} : Reloads(call[d])
      BY <1>1, <3>1 DEF SsoInv, Fresh
    <3>3. shown' = table' \/ \E d \in SSO!Slots : Reloads(call'[d])
      BY <1>1, <1>2, <3>1, <3>2
    <3>4. \A d \in SSO!Slots : ~(call'[d].mine /\ call'[d].op = "load")
      BY <1>2, <3>1, SsoFree
    <3>5. QED
      BY <3>3, <3>4 DEF Fresh
  <2>3. QED
    BY <2>1, <2>2
<1>10. QED
  BY <1>4, <1>5, <1>6, <1>7, <1>8, <1>9 DEF SsoInv

\* A list that comes to a screen that is gone is shown nowhere.
LEMMA SsoList ==
  ASSUME SsoInv, NEW c \in SSO!Slots, SSO!SettleLoad(c)
  PROVE  SsoInv'
<1>t. /\ call[c] \in SsoCall /\ Knows(call[c], table) /\ SsoTypes
  BY DEF SsoInv, SsoTypes
<1>1. CASE ~call[c].mine
  <2>1. /\ shown' = shown /\ busy' = busy /\ outdated' = outdated
        /\ call' = [call EXCEPT ![c] = SSO!Free] /\ UNCHANGED <<table, vouched, form>>
    BY <1>t, <1>1 DEF SSO!SettleLoad, SSO!BusyAfter, SSO!Untold, SSO!server, SsoTypes
  <2>2. Knows(SSO!Free, table) /\ ~Reloads(call[c])
    BY <1>1, SsoFree, SsoBounds DEF Knows, Reloads, SSO!Ops
  <2>3. SSO!BusyRowsAwait'
    BY <1>1, <2>1, SsoFree, BusyStep DEF Awaits
  <2>4. QED
    BY <1>t, <2>1, <2>2, <2>3, SsoFree, ScreenStep DEF SsoTypes
<1>2. CASE call[c].mine
  BY <1>2, SsoOwnList
<1>3. QED
  BY <1>1, <1>2

LEMMA SsoLose ==
  ASSUME SsoInv, NEW c \in SSO!Slots, SSO!Lose(c)
  PROVE  SsoInv'
<1>t. /\ call[c] \in SsoCall /\ Knows(call[c], table) /\ SsoTypes
  BY DEF SsoInv, SsoTypes
<1> DEFINE r == Answered(call[c], "refused", None)
<1>1. /\ call' = [call EXCEPT ![c] = r] /\ outdated' = (outdated \/ call[c].mine)
      /\ UNCHANGED <<table, vouched, shown, busy, form>>
  BY <1>t DEF SSO!Lose, Answered, SSO!server, SsoTypes
<1>2. /\ r \in SsoCall /\ r.op = call[c].op /\ r.row = call[c].row /\ r.step = "refused"
      /\ r.mine = call[c].mine /\ call[c].mine \in BOOLEAN
  BY <1>t, SsoAnswered DEF SsoCall
<1> HIDE DEF r
<1>3. Knows(r, table)
  BY <1>t, <1>2 DEF Knows
<1>4. SSO!BusyRowsAwait'
  BY <1>1, <1>2, BusyStep DEF Awaits
<1>5. ~call[c].mine => ~Reloads(call[c])
  BY DEF Reloads
<1>6. QED
  BY <1>t, <1>1, <1>2, <1>3, <1>4, <1>5, ScreenStep DEF SsoTypes

\* What the API reads.
LEMMA SsoReads ==
  ASSUME SsoInv, NEW c \in SSO!Slots, SSO!List(c) \/ SSO!ReadRow(c)
  PROVE  SsoInv'
<1>t. /\ call[c] \in SsoCall /\ Knows(call[c], table) /\ SsoTypes /\ Vouched
  BY DEF SsoInv, SsoTypes
<1>1. PICK st \in {"read", "ok", "refused"}, got \in Rows \cup {None} :
        /\ call' = [call EXCEPT ![c] = Answered(call[c], st, got)]
        /\ UNCHANGED <<table, vouched, shown, busy, form, outdated>>
        /\ call[c].step = "sent"
        /\ \/ call[c].op = "load" /\ st = "ok" /\ got = table
           \/ /\ call[c].op \in {"test", "enable", "disable"} /\ st \in {"read", "refused"}
              /\ (call[c].op = "enable" /\ st = "read")
                    => SSO!Exists(table, call[c].row) /\ table[call[c].row].tested
  <2>1. CASE SSO!List(c)
    <3>1. /\ call' = [call EXCEPT ![c] = Answered(call[c], "ok", table)]
          /\ UNCHANGED <<table, vouched, shown, busy, form, outdated>>
          /\ call[c].step = "sent" /\ call[c].op = "load"
      BY <1>t, <2>1 DEF SSO!List, SSO!Received, SSO!Serve, SSO!server, Answered, SsoTypes
    <3>2. QED
      BY <1>t, <3>1 DEF SsoTypes
  <2>2. CASE SSO!ReadRow(c)
    <3> DEFINE st == IF SSO!Exists(table, call[c].row)
                         /\ (call[c].op = "enable" => table[call[c].row].tested)
                     THEN "read" ELSE "refused"
    <3>1. /\ call' = [call EXCEPT ![c] = Answered(call[c], st, None)]
          /\ UNCHANGED <<table, vouched, shown, busy, form, outdated>>
          /\ call[c].step = "sent" /\ call[c].op \in {"test", "enable", "disable"}
      BY <1>t, <2>2 DEF SSO!ReadRow, SSO!Received, SSO!Serve, SSO!server, Answered, SsoTypes
    <3>2. /\ st \in {"read", "refused"}
          /\ (call[c].op = "enable" /\ st = "read")
                    => SSO!Exists(table, call[c].row) /\ table[call[c].row].tested
      OBVIOUS
    <3> HIDE DEF st
    <3>3. QED
      BY <3>1, <3>2
  <2>3. QED
    BY <2>1, <2>2
<1>p. call[c] \in SsoCall
  BY <1>t
<1>r. PICK r \in SsoCall : /\ r = Answered(call[c], st, got) /\ r.op = call[c].op
                         /\ r.row = call[c].row /\ r.step = st /\ r.got = got
                         /\ r.mine = call[c].mine
  BY <1>p, SsoAnsweredRecord
<1>2. /\ r \in SsoCall /\ r.op = call[c].op /\ r.row = call[c].row /\ r.step = st /\ r.got = got
      /\ r.mine = call[c].mine
  BY <1>r
<1>3. call' = [call EXCEPT ![c] = r]
  BY <1>1, <1>r
<1>4. Knows(r, table)
  BY <1>t, <1>1, <1>2 DEF Knows, SsoTypes, SSO!RowOps
<1>5. (r.op = "enable" /\ r.step = "read") => r.row \in vouched
  <2>1. r.op = "enable" => r.row \in Providers
    BY <1>t, <1>2 DEF Knows, SSO!RowOps
  <2>2. QED
    BY <1>t, <1>1, <1>2, <2>1 DEF Vouched, Good, SSO!Exists
<1>6. /\ Reloads(call[c]) => Reloads(r)
      /\ (r.op = "load" /\ r.step = "ok") => r.got = table
  BY <1>1, <1>2 DEF Reloads
<1>7. SSO!BusyRowsAwait'
  <2>1. busy' = busy /\ (Awaits(call[c]) => Awaits(r))
    BY <1>1, <1>2 DEF Awaits
  <2>2. QED
    BY <1>2, <1>3, <2>1, BusyStep
<1>8. QED
  BY <1>t, <1>1, <1>2, <1>3, <1>4, <1>5, <1>6, <1>7, ScreenStep DEF SsoTypes

\* What the API writes.
LEMMA SsoWrites ==
  ASSUME SsoInv, NEW c \in SSO!Slots,
         SSO!Create(c) \/ SSO!Delete(c) \/ SSO!RecordTest(c) \/ SSO!SetEnabled(c)
  PROVE  SsoInv'
<1> DEFINE p == call[c].row
<1>t. /\ call[c] \in SsoCall /\ Knows(call[c], table) /\ SsoTypes /\ Vouched /\ Removals
      /\ table \in [Providers -> SSO!Row \cup {None}]
  BY DEF SsoInv, SsoTypes, Rows
<1>1. PICK st \in {"ok", "refused"} :
        /\ call' = [call EXCEPT ![c] = Answered(call[c], st, None)]
        /\ UNCHANGED <<shown, busy, form>>
        /\ outdated' = (outdated \/ (~call[c].mine /\ table' # table /\ ~SSO!ListAwaited))
        /\ call[c].step \in {"sent", "read"} /\ call[c].op \in SSO!RowOps \cup {"create"}
        /\ st = "refused" => \/ table' = table
                             \/ ~SSO!Exists(table, p) /\ table' = [table EXCEPT ![p] = SSO!Removed]
  <2> DEFINE st(x) == IF x THEN "ok" ELSE "refused"
  <2>1. CASE SSO!Create(c)
    BY <1>t, <2>1 DEF SSO!Create, SSO!Received, SSO!Serve, Answered, SsoTypes
  <2>2. CASE SSO!Delete(c)
    BY <1>t, <2>2 DEF SSO!Delete, SSO!Received, SSO!Serve, Answered, SsoTypes, SSO!RowOps
  <2>3. CASE SSO!RecordTest(c)
    BY <1>t, <2>3 DEF SSO!RecordTest, SSO!Serve, Answered, SsoTypes, SSO!RowOps
  <2>4. CASE SSO!SetEnabled(c)
    BY <1>t, <2>4 DEF SSO!SetEnabled, SSO!Serve, Answered, SsoTypes, SSO!RowOps
  <2>5. QED
    BY <2>1, <2>2, <2>3, <2>4
<1> DEFINE r == Answered(call[c], st, None)
<1>2. /\ r \in SsoCall /\ r.op = call[c].op /\ r.row = p /\ r.step = st /\ r.mine = call[c].mine
  BY <1>t, SsoAnswered
<1>3. call' = [call EXCEPT ![c] = r] /\ p \in Providers /\ (call[c].op # "create" => table[p] # None)
  BY <1>t, <1>1 DEF Knows, SSO!RowOps
<1>4. /\ UNCHANGED table \/ \E w \in SSO!Row :
             /\ table' = [table EXCEPT ![p] = w]
             /\ w.there \/ w = SSO!Removed
             /\ Good(w) \/ p \in vouched'
      /\ vouched \subseteq vouched' /\ vouched' \subseteq Providers
  <2>1. CASE SSO!Create(c)
    BY <1>t, <2>1, RowKinds DEF SSO!Create, SsoTypes, Good
  <2>2. CASE SSO!Delete(c)
    BY <1>t, <2>2, RowKinds DEF SSO!Delete, SsoTypes, Good
  <2>3. CASE SSO!RecordTest(c)
    <3>1. PICK good \in BOOLEAN :
            /\ SSO!Write(p, [table[p] EXCEPT !.tested = good])
            /\ vouched' = IF good THEN vouched \cup {p} ELSE vouched
      BY <2>3 DEF SSO!RecordTest
    <3>2. vouched \subseteq vouched' /\ vouched' \subseteq Providers
      BY <1>t, <1>3, <3>1 DEF SsoTypes
    <3>3. CASE SSO!Exists(table, p)
      <4>1. table[p] \in SSO!Row /\ table[p].there
        BY <1>t, <1>3, <3>3 DEF SSO!Exists
      <4> DEFINE w == TestedAs(table[p], good)
      <4>2. w \in SSO!Row /\ w.there /\ (w.enabled => table[p].enabled) /\ (w.tested => good)
        BY <4>1, RowWritten
      <4>3. table' = [table EXCEPT ![p] = w]
        BY <3>1, <3>3 DEF SSO!Write, TestedAs
      <4> HIDE DEF w
      <4>4. Good(w) \/ p \in vouched'
        BY <1>t, <1>3, <3>1, <3>2, <4>1, <4>2, SsoBounds DEF Good, Vouched
      <4>5. QED
        BY <3>2, <4>2, <4>3, <4>4
    <3>4. CASE ~SSO!Exists(table, p)
      BY <3>1, <3>2, <3>4 DEF SSO!Write
    <3>5. QED
      BY <3>3, <3>4
  <2>4. CASE SSO!SetEnabled(c)
    <3> DEFINE on == call[c].op = "enable"
    <3>1. /\ SSO!Write(p, [table[p] EXCEPT !.enabled = on]) /\ vouched' = vouched
          /\ on => p \in vouched
      BY <1>t, <2>4 DEF SSO!SetEnabled, Vouched
    <3>2. CASE SSO!Exists(table, p)
      <4>1. table[p] \in SSO!Row /\ table[p].there /\ on \in BOOLEAN
        BY <1>t, <1>3, <3>2 DEF SSO!Exists
      <4> HIDE DEF on
      <4> DEFINE w == EnabledAs(table[p], on)
      <4>2. w \in SSO!Row /\ w.there /\ (w.tested => table[p].tested) /\ (w.enabled => on)
        BY <4>1, RowWritten
      <4>3. table' = [table EXCEPT ![p] = w]
        BY <3>1, <3>2 DEF SSO!Write, EnabledAs
      <4> HIDE DEF w
      <4>4. Good(w) \/ p \in vouched'
        BY <1>t, <1>3, <3>1, <4>1, <4>2, SsoBounds DEF Good, Vouched
      <4>5. QED
        BY <1>t, <3>1, <4>2, <4>3, <4>4 DEF SsoTypes
    <3>3. CASE ~SSO!Exists(table, p)
      BY <1>t, <3>1, <3>3 DEF SSO!Write, SsoTypes
    <3>4. QED
      BY <3>2, <3>3
  <2>5. QED
    BY <2>1, <2>2, <2>3, <2>4
<1> HIDE DEF r, p
<1>5. table' \in Rows
  BY <1>t, <1>3, <1>4 DEF Rows
<1>6. \A z \in Providers : /\ table[z] # None => table'[z] # None
                           /\ (table'[z] # None /\ ~table'[z].there) => table'[z] = SSO!Removed
                           /\ Good(table'[z]) \/ z \in vouched'
  <2>1. CASE UNCHANGED table
    BY <1>t, <1>4, <2>1 DEF Removals, Vouched
  <2>2. ASSUME NEW w \in SSO!Row, table' = [table EXCEPT ![p] = w],
               w.there \/ w = SSO!Removed, Good(w) \/ p \in vouched'
        PROVE  \A z \in Providers :
                 /\ table[z] # None => table'[z] # None
                 /\ (table'[z] # None /\ ~table'[z].there) => table'[z] = SSO!Removed
                 /\ Good(table'[z]) \/ z \in vouched'
    <3>1. table'[p] = w /\ w # None /\ \A z \in Providers : z # p => table'[z] = table[z]
      BY <1>t, <1>3, <2>2, SsoBounds
    <3>2. QED
      BY <1>t, <1>4, <2>2, <3>1 DEF Removals, Vouched
  <2>3. QED
    BY <1>4, <2>1, <2>2
<1>7. ~call[c].mine \/ table' = table \/ Reloads(r)
  <2>1. CASE st = "ok"
    BY <1>1, <1>2, <2>1 DEF Reloads
  <2>2. CASE st = "refused" /\ ~SSO!Exists(table, p) /\ table' = [table EXCEPT ![p] = SSO!Removed]
    <3>1. CASE table[p] # None
      BY <1>t, <1>3, <2>2, <3>1 DEF SSO!Exists, Removals
    <3>2. CASE table[p] = None
      <4>1. call[c].op = "create"
        BY <1>3, <3>2
      <4>2. SSO!Create(c)
        BY <4>1 DEF SSO!Delete, SSO!RecordTest, SSO!SetEnabled, SSO!Received
      <4>3. table' = table \/ call' = [call EXCEPT ![c] = Answered(call[c], "ok", None)]
        BY <1>t, <4>2 DEF SSO!Create, SSO!Serve, Answered
      <4>4. call'[c] = r
        BY <1>2, <1>3, OneCall
      <4>5. table' = table \/ r.step = "ok"
        <5>1. Answered(call[c], "ok", None) \in SsoCall /\ Answered(call[c], "ok", None).step = "ok"
          BY <1>t, SsoAnswered
        <5>2. QED
          BY <4>3, <4>4, <5>1, OneCall
      <4>6. QED
        BY <1>1, <1>2, <4>5 DEF Reloads
    <3>3. QED
      BY <3>1, <3>2
  <2>3. QED
    BY <1>1, <2>1, <2>2 DEF p
<1>8. ~Reloads(call[c]) /\ r.op # "load" /\ r.step # "read"
  BY <1>1, <1>2 DEF Reloads, SSO!RowOps
<1>9. /\ outdated' \in BOOLEAN /\ (outdated => outdated')
      /\ outdated' \/ table' = table \/ Reloads(r) \/ SSO!ListAwaited
  BY <1>t, <1>1, <1>7 DEF SsoTypes
<1>10. QED
  BY <1>1, <1>2, <1>3, <1>4, <1>5, <1>6, <1>8, <1>9, ServerStep DEF p

\* Another operator.
LEMMA SsoUpdate ==
  ASSUME SsoInv, NEW p \in Providers, SSO!Update(p)
  PROVE  SsoInv'
<1>t. /\ SsoTypes /\ Vouched /\ Removals /\ table \in [Providers -> SSO!Row \cup {None}]
  BY DEF SsoInv, SsoTypes, Rows
<1> DEFINE w == SSO!SecretReplaced(table[p])
<1>1. /\ table' = [table EXCEPT ![p] = w] /\ outdated' = (outdated \/ ~SSO!ListAwaited)
      /\ UNCHANGED <<shown, busy, form, call>>
      /\ vouched' = IF \E c \in SSO!Slots : call[c].row = p /\ call[c].step = "read"
                    THEN vouched \cup {p} ELSE vouched \ {p}
      /\ table[p] \in SSO!Row /\ table[p].there
  BY <1>t DEF SSO!Update, SSO!Write, SSO!Exists
<1>2. w \in SSO!Row /\ w.there /\ w.enabled = FALSE /\ w.tested = FALSE /\ w # None
  BY <1>1, RowReplaced, SsoBounds
<1> HIDE DEF w
<1>3. table' \in Rows /\ table'[p] = w /\ \A z \in Providers : z # p => table'[z] = table[z]
  BY <1>t, <1>1, <1>2 DEF Rows
<1>4. SsoTypes'
  BY <1>t, <1>1, <1>3 DEF SsoTypes
<1>5. Removals'
  BY <1>t, <1>2, <1>3 DEF Removals
<1>6. Vouched'
  <2>1. \A z \in Providers : Good(table'[z]) \/ z \in vouched'
    BY <1>t, <1>1, <1>2, <1>3 DEF Vouched, Good
  <2>2. ASSUME NEW c \in SSO!Slots, call[c].op = "enable", call[c].step = "read"
        PROVE  call[c].row \in vouched'
    BY <1>t, <1>1, <2>2 DEF Vouched
  <2>3. QED
    BY <1>1, <2>1, <2>2 DEF Vouched
<1>7. ListKnows(shown, table)'
  BY <1>1, <1>2, <1>3 DEF SsoInv, ListKnows
<1>8. \A d \in SSO!Slots : Knows(call'[d], table')
  <2>1. ASSUME NEW d \in SSO!Slots PROVE Knows(call[d], table')
    <3>1. Knows(call[d], table)
      BY DEF SsoInv
    <3>2. QED
      BY <1>2, <1>3, <3>1 DEF Knows, SSO!RowOps
  <2>2. QED
    BY <1>1, <2>1
<1>9. SSO!BusyRowsAwait'
  BY <1>1 DEF SsoInv, SSO!BusyRowsAwait
<1>10. Fresh'
  <2>1. CASE outdated'
    BY <2>1 DEF Fresh
  <2>2. CASE ~outdated'
    <3>1. PICK d \in SSO!Slots : call[d].mine /\ call[d].op = "load" /\ call[d].step = "sent"
      BY <1>1, <2>2 DEF SSO!ListAwaited
    <3>2. Reloads(call'[d]) /\ ~(call'[d].op = "load" /\ call'[d].step = "ok")
      BY <1>1, <3>1 DEF Reloads
    <3>3. QED
      BY <3>2 DEF Fresh
  <2>3. QED
    BY <2>1, <2>2
<1>11. QED
  BY <1>4, <1>5, <1>6, <1>7, <1>8, <1>9, <1>10 DEF SsoInv

LEMMA SsoKeeps == SsoInv /\ SSO!Next => SsoInv'
<1>1. ASSUME SsoInv, NEW c \in SSO!Slots,
             SSO!Answer(c) \/ SSO!Settle(c) \/ SSO!Lose(c) \/ SSO!Open(c)
      PROVE  SsoInv'
  BY <1>1, SsoReads, SsoWrites, SsoSettle, SsoList, SsoLose, SsoOpen DEF SSO!Answer, SSO!Settle
<1>2. QED
  BY <1>1, SsoScreen, SsoIdle, SsoUpdate DEF SSO!Next

LEMMA SsoStart == SSO!Init => SsoInv
<1> SUFFICES ASSUME SSO!Init PROVE SsoInv
  OBVIOUS
<1>1. /\ table = [p \in Providers |-> None] /\ vouched = {} /\ shown = None /\ busy = None
      /\ form = "closed" /\ outdated = FALSE /\ call = [c \in SSO!Slots |-> SSO!Free]
  BY DEF SSO!Init
<1>2. SsoTypes
  BY <1>1, SsoFree DEF SsoTypes, Rows
<1>3. Removals /\ ListKnows(shown, table)
  BY <1>1 DEF Removals, ListKnows
<1>4. \A c \in SSO!Slots : call[c] = SSO!Free
  BY <1>1
<1>5. \A c \in SSO!Slots : Knows(call[c], table)
  BY <1>4, SsoFree, SsoBounds DEF Knows, SSO!Ops
<1>6. Fresh
  BY <1>1, <1>4, SsoFree, SsoBounds DEF Fresh, SSO!Ops
<1>7. Vouched
  BY <1>1, <1>4, SsoFree, SsoBounds DEF Vouched, Good, SSO!Ops, SSO!RowOps
<1>8. SSO!BusyRowsAwait
  BY <1>1, SsoBounds DEF SSO!BusyRowsAwait
<1>9. QED
  BY <1>2, <1>3, <1>5, <1>6, <1>7, <1>8 DEF SsoInv

-----------------------------------------------------------------------------
(* The operator's own look                                                 *)

ThemeCall == [op : {"load", "refresh", "put", "delete", None}, who : Users \cup {None},
              look : Look!Looks \cup {None}, step : {"free", "sent", "ok", "error"}]
PrefsLoad == [step : {"none", "sent", "answered"}, got : Look!Stored, fresh : BOOLEAN]
PrefsPut == [who : Users, cat : Look!Categories, val : Choices]
LookRow == [theme : Look!Looks \cup {None}, prefs : Look!Stored]

\* A slot is free, or holds a request of somebody.
Whole(r) == IF r.step = "free" THEN r = Look!Free
            ELSE r.who \in Users /\ r.op \in {"load", "refresh", "put", "delete"}

AtRest == look = row[user].theme /\ snapshot = row[user].theme /\ ~saving

\* What the screen may assume of a request of its own: before a save is stored the
\* answer last applied is what the server holds.
Stands(r) ==
    /\ r.who = user
    /\ r.op \in {"load", "refresh"} => ~saving
    /\ r.op = "refresh" => look = row[user].theme /\ snapshot = row[user].theme
    /\ r.step = "ok" => r.look = row[user].theme
    /\ (r.op \in {"put", "delete"} /\ r.step # "ok") => snapshot = row[user].theme

Settled(r) == IF r.step = "free" THEN AtRest ELSE Stands(r)
Alone(c) == \A d \in Look!Slots \ {c} : call[d].step = "free"

ThemeInv ==
    /\ \A c \in Look!Slots : Whole(call[c])
    /\ (user # None /\ "theme" \notin overtaken)
          => /\ \A c \in Look!Slots : call[c].step # "free" => Alone(c) /\ Stands(call[c])
             /\ (\A c \in Look!Slots : call[c].step = "free") => AtRest

PrefsInv ==
    /\ chosen # None => /\ prefs = chosen /\ memory = chosen
                        /\ \A u \in Users : ~load[u].fresh
    /\ (user # None /\ chosen # None /\ "prefs" \notin overtaken)
          => \A c \in Look!Categories :
               /\ \A m \in puts : m.cat = c => m.who = user /\ m.val = chosen[c]
               /\ row[user].prefs[c] = chosen[c] \/ [who |-> user, cat |-> c, val |-> chosen[c]] \in puts

LookTyped ==
    /\ row \in [Users -> LookRow] /\ user \in Users \cup {None}
    /\ look \in Look!Looks \cup {None} /\ snapshot \in Look!Looks \cup {None}
    /\ saving \in BOOLEAN /\ acts \in 0..MaxActs /\ call \in [Look!Slots -> ThemeCall]
    /\ memory \in Look!Prefs /\ prefs \in Look!Prefs /\ chosen \in Look!Prefs \cup {None}
    /\ load \in [Users -> PrefsLoad] /\ puts \subseteq PrefsPut
    /\ overtaken \subseteq {"theme", "prefs"}

LookInv == LookTyped /\ ThemeInv /\ PrefsInv

LEMMA LookBounds ==
  /\ None \notin Choices /\ Default \in Choices /\ MaxCalls \in Nat /\ MaxActs \in Nat
  BY PagesBounds DEF Look!Bounds

LEMMA LookFree == /\ Look!Free \in ThemeCall /\ Look!Free.step = "free"
                  /\ Look!Free.op = None
  BY DEF Look!Free, ThemeCall

LEMMA LookHolds == LookInv => /\ Look!TypeOK /\ Look!LookIsStored
                              /\ Look!EditsStay /\ Look!EditsAreStored
<1> SUFFICES ASSUME LookInv PROVE /\ Look!TypeOK /\ Look!LookIsStored
                                  /\ Look!EditsStay /\ Look!EditsAreStored
  OBVIOUS
<1>0. Look!TypeOK
  BY DEF LookInv, LookTyped, Look!TypeOK, LookRow, ThemeCall, PrefsLoad, PrefsPut
<1>1. Look!LookIsStored
  <2> SUFFICES ASSUME user # None, ~Look!Busy, "theme" \notin overtaken
               PROVE  look = row[user].theme /\ snapshot = look /\ ~saving
    BY DEF Look!LookIsStored
  <2>1. \A c \in Look!Slots : call[c].step = "free"
    BY LookFree DEF Look!Busy
  <2>2. QED
    BY <2>1 DEF LookInv, ThemeInv, AtRest
<1>2. Look!EditsStay
  BY DEF LookInv, PrefsInv, Look!EditsStay
<1>3. Look!EditsAreStored
  <2> SUFFICES ASSUME user # None, chosen # None, puts = {}, "prefs" \notin overtaken
               PROVE  row[user].prefs = chosen
    BY DEF Look!EditsAreStored
  <2>1. \A c \in Look!Categories : row[user].prefs[c] = chosen[c]
    BY DEF LookInv, PrefsInv
  <2>2. row[user] \in LookRow /\ chosen \in Look!Prefs
    BY DEF LookInv, LookTyped
  <2>3. row[user].prefs \in [Look!Categories -> Choices \cup {None}]
    BY <2>2 DEF LookRow, Look!Stored
  <2>4. QED
    BY <2>1, <2>2, <2>3 DEF Look!Prefs
<1>4. QED
  BY <1>0, <1>1, <1>2, <1>3

LEMMA LookStart == Look!Init => LookInv
<1> SUFFICES ASSUME Look!Init PROVE LookInv
  OBVIOUS
<1>1. Look!Unset \in Look!Stored /\ Look!Defaults \in Look!Prefs
  BY LookBounds DEF Look!Unset, Look!Stored, Look!Defaults, Look!Prefs
<1>2. Look!NoLoad \in PrefsLoad /\ [theme |-> None, prefs |-> Look!Unset] \in LookRow
  BY <1>1 DEF Look!NoLoad, PrefsLoad, LookRow
<1>3. /\ row = [u \in Users |-> [theme |-> None, prefs |-> Look!Unset]]
      /\ user = None /\ look = None /\ snapshot = None /\ saving = FALSE
      /\ call = [c \in Look!Slots |-> Look!Free] /\ memory = Look!Defaults
      /\ prefs = Look!Defaults /\ load = [u \in Users |-> Look!NoLoad]
      /\ puts = {} /\ chosen = None /\ overtaken = {} /\ acts = 0
  BY DEF Look!Init
<1>4. LookTyped
  <2>1. row \in [Users -> LookRow] /\ load \in [Users -> PrefsLoad]
    BY <1>2, <1>3
  <2>2. call \in [Look!Slots -> ThemeCall] /\ acts \in 0..MaxActs
    BY <1>3, LookFree, LookBounds
  <2>3. QED
    BY <1>1, <1>3, <2>1, <2>2 DEF LookTyped
<1>5. ThemeInv
  BY <1>3, LookFree DEF ThemeInv, Whole
<1>6. PrefsInv
  BY <1>3 DEF PrefsInv
<1>7. QED
  BY <1>4, <1>5, <1>6 DEF LookInv

-----------------------------------------------------------------------------
\* What steps leave alone.
LEMMA ThemeIdle ==
  ASSUME LookInv, UNCHANGED <<user, look, snapshot, saving, call>>, overtaken \subseteq overtaken',
         \A u \in Users : row'[u].theme = row[u].theme
  PROVE  ThemeInv'
<1>1. user \in Users \cup {None}
  BY DEF LookInv, LookTyped
<1>2. \A c \in Look!Slots : Whole(call'[c])
  BY DEF LookInv, ThemeInv
<1>3. ASSUME user' # None, "theme" \notin overtaken'
      PROVE  /\ \A c \in Look!Slots : call'[c].step # "free" => Alone(c)' /\ Stands(call[c])'
             /\ (\A c \in Look!Slots : call'[c].step = "free") => AtRest'
  <2>1. row'[user].theme = row[user].theme
    BY <1>1, <1>3
  <2>2. AtRest' <=> AtRest
    BY <2>1 DEF AtRest
  <2>3. \A c \in Look!Slots : (Alone(c)' <=> Alone(c)) /\ (Stands(call[c])' <=> Stands(call[c]))
    BY <2>1 DEF Alone, Stands
  <2>4. QED
    BY <1>3, <2>2, <2>3 DEF LookInv, ThemeInv
<1>4. QED
  BY <1>2, <1>3 DEF ThemeInv, Whole

LEMMA NavIdle ==
  ASSUME LookInv, UNCHANGED <<user, memory, prefs, load, puts, chosen>>, overtaken \subseteq overtaken',
         \A u \in Users : row'[u].prefs = row[u].prefs
  PROVE  PrefsInv'
<1>1. user \in Users \cup {None}
  BY DEF LookInv, LookTyped
<1>2. user # None => row'[user].prefs = row[user].prefs
  BY <1>1
<1>3. QED
  BY <1>2 DEF LookInv, PrefsInv

\* One request for the theme changes.
LEMMA OneTheme ==
  ASSUME LookInv, NEW c \in Look!Slots, NEW r \in ThemeCall, call' = [call EXCEPT ![c] = r]
  PROVE  /\ call' \in [Look!Slots -> ThemeCall] /\ call'[c] = r
         /\ \A d \in Look!Slots : d # c => call'[d] = call[d]
  BY DEF LookInv, LookTyped

LEMMA ThemeStep ==
  ASSUME LookInv, NEW c \in Look!Slots, NEW r \in ThemeCall, call' = [call EXCEPT ![c] = r], Whole(r),
         (user' # None /\ "theme" \notin overtaken') => Alone(c) /\ Settled(r)'
  PROVE  ThemeInv'
<1>1. call'[c] = r /\ \A d \in Look!Slots : d # c => call'[d] = call[d]
  BY OneTheme
<1>2. \A d \in Look!Slots : Whole(call'[d])
  BY <1>1 DEF LookInv, ThemeInv
<1>3. ASSUME user' # None, "theme" \notin overtaken'
      PROVE  /\ \A d \in Look!Slots : call'[d].step # "free" => Alone(d)' /\ Stands(call[d])'
             /\ (\A d \in Look!Slots : call'[d].step = "free") => AtRest'
  <2>1. /\ \A d \in Look!Slots : d # c => call'[d].step = "free"
        /\ IF r.step = "free" THEN AtRest' ELSE Stands(r)'
    BY <1>1, <1>3 DEF Alone, Settled
  <2>2. ASSUME NEW d \in Look!Slots, call'[d].step # "free" PROVE Alone(d)' /\ Stands(call[d])'
    <3>1. d = c
      BY <2>1, <2>2
    <3>2. Alone(c)'
      BY <2>1 DEF Alone
    <3>3. call'[d] = r /\ Stands(r)'
      BY <1>1, <2>1, <2>2, <3>1
    <3>4. QED
      BY <3>1, <3>2, <3>3 DEF Stands
  <2>3. ASSUME \A d \in Look!Slots : call'[d].step = "free" PROVE AtRest'
    BY <1>1, <2>1, <2>3
  <2>4. QED
    BY <2>2, <2>3
<1>4. QED
  BY <1>2, <1>3 DEF ThemeInv, Whole

LEMMA LookRequest ==
  ASSUME NEW op \in {"load", "refresh", "put", "delete"}, NEW l \in Look!Looks \cup {None},
         user' \in Users
  PROVE  /\ Look!Request(op, l) \in ThemeCall /\ Look!Request(op, l).op = op
         /\ Look!Request(op, l).who = user' /\ Look!Request(op, l).look = l
         /\ Look!Request(op, l).step = "sent" /\ Whole(Look!Request(op, l))
  BY DEF Look!Request, ThemeCall, Whole

LEMMA FreeSlot == LookInv => \A c \in Look!Slots : call[c].step = "free" <=> call[c] = Look!Free
  BY LookFree DEF LookInv, ThemeInv, Whole

-----------------------------------------------------------------------------
\* The console opens: a request of its own, and nothing else unless others are late.
LEMMA ConsoleOpens ==
  ASSUME LookInv, NEW u \in Users, NEW c \in Look!Slots, Look!OpenConsole(u, c)
  PROVE  LookInv'
<1>1. /\ acts < MaxActs /\ acts' = acts + 1
      /\ user' = u /\ look' = None /\ snapshot' = None /\ saving' = FALSE
      /\ call[c] = Look!Free /\ call' = [call EXCEPT ![c] = Look!Request("load", None)]
      /\ prefs' = memory /\ UNCHANGED <<row, memory, puts>>
      /\ load' = [load EXCEPT ![u] = [step |-> "sent", got |-> Look!Unset, fresh |-> TRUE]]
      /\ chosen' = None /\ overtaken' = IF Look!Busy THEN {"theme"} ELSE {}
  BY DEF Look!OpenConsole, Look!Act, Look!Send
<1>2. PICK r \in ThemeCall :
        /\ call' = [call EXCEPT ![c] = r] /\ Whole(r)
        /\ r.op = "load" /\ r.who = user' /\ r.step = "sent"
  <2> DEFINE q == Look!Request("load", None)
  <2>1. q \in ThemeCall /\ Whole(q) /\ q.op = "load" /\ q.who = user' /\ q.step = "sent"
    BY <1>1, LookRequest
  <2>2. call' = [call EXCEPT ![c] = q]
    BY <1>1
  <2> HIDE DEF q
  <2>3. QED
    BY <2>1, <2>2
<1>3. LookTyped'
  <2>1. Look!Unset \in Look!Stored
    BY DEF Look!Unset, Look!Stored
  <2>2. [step |-> "sent", got |-> Look!Unset, fresh |-> TRUE] \in PrefsLoad
    BY <2>1 DEF PrefsLoad
  <2>3. load' \in [Users -> PrefsLoad]
    BY <1>1, <2>2 DEF LookInv, LookTyped
  <2>4. call' \in [Look!Slots -> ThemeCall]
    BY <1>1, <1>2, OneTheme
  <2>5. acts' \in 0..MaxActs
    BY <1>1, LookBounds DEF LookInv, LookTyped
  <2>6. LookTyped
    BY DEF LookInv
  <2>7. QED
    BY <1>1, <2>3, <2>4, <2>5, <2>6 DEF LookTyped
<1>4. ThemeInv'
  <2>1. ASSUME user' # None, "theme" \notin overtaken' PROVE Alone(c) /\ Settled(r)'
    <3>1. ~Look!Busy
      BY <1>1, <2>1
    <3>2. Alone(c)
      BY <3>1, LookFree DEF Alone, Look!Busy
    <3>3. Stands(r)'
      BY <1>1, <1>2 DEF Stands
    <3>4. QED
      BY <1>2, <3>2, <3>3 DEF Settled
  <2>2. QED
    BY <1>1, <1>2, <2>1, ThemeStep
<1>5. PrefsInv'
  BY <1>1 DEF PrefsInv
<1>6. QED
  BY <1>3, <1>4, <1>5 DEF LookInv

LEMMA ConsoleCloses == ASSUME LookInv, Look!CloseConsole PROVE LookInv'
<1>1. /\ user' = None
      /\ call' = [c \in Look!Slots |-> IF call[c].op \in {"load", "refresh"} THEN Look!Free ELSE call[c]]
      /\ UNCHANGED <<acts, row, look, snapshot, saving, memory, prefs, load, puts, chosen, overtaken>>
  BY DEF Look!CloseConsole, Look!nav
<1>2. LookTyped
  BY DEF LookInv
<1>3. call' \in [Look!Slots -> ThemeCall]
  BY <1>1, <1>2, LookFree DEF LookTyped
<1>4. LookTyped'
  BY <1>1, <1>2, <1>3 DEF LookTyped
<1>5. ThemeInv'
  BY <1>1, LookFree DEF LookInv, ThemeInv, Whole
<1>6. PrefsInv'
  BY <1>1 DEF LookInv, PrefsInv
<1>7. QED
  BY <1>4, <1>5, <1>6 DEF LookInv

\* A theme is chosen: it is shown, and goes out.
LEMMA ThemeChosen ==
  ASSUME LookInv, NEW c \in Look!Slots, NEW l \in Look!Looks \cup {None}, Look!setAdminTheme(c, l),
         UNCHANGED row, overtaken \subseteq overtaken', Look!Busy => "theme" \in overtaken'
  PROVE  /\ ThemeInv' /\ user' = user /\ user \in Users
         /\ look' = l /\ snapshot' = snapshot /\ saving' = TRUE /\ call' \in [Look!Slots -> ThemeCall]
<1>1. PICK op \in {"put", "delete"} :
        /\ call[c] = Look!Free /\ call' = [call EXCEPT ![c] = Look!Request(op, l)]
        /\ user # None /\ user' = user /\ look' = l /\ saving' = TRUE /\ snapshot' = snapshot
  BY DEF Look!setAdminTheme, Look!Send
<1>2. user \in Users
  BY <1>1 DEF LookInv, LookTyped
<1>3. PICK r \in ThemeCall :
        /\ call' = [call EXCEPT ![c] = r] /\ Whole(r)
        /\ r.op = op /\ r.who = user' /\ r.step = "sent"
  <2> DEFINE q == Look!Request(op, l)
  <2>1. q \in ThemeCall /\ Whole(q) /\ q.op = op /\ q.who = user' /\ q.step = "sent"
    BY <1>1, <1>2, LookRequest
  <2>2. call' = [call EXCEPT ![c] = q]
    BY <1>1
  <2> HIDE DEF q
  <2>3. QED
    BY <2>1, <2>2
<1>5. ASSUME user' # None, "theme" \notin overtaken' PROVE Alone(c) /\ Settled(r)'
  <2>1. ~Look!Busy /\ "theme" \notin overtaken
    BY <1>5
  <2>2. \A d \in Look!Slots : call[d].step = "free"
    BY <2>1, LookFree DEF Look!Busy
  <2>3. AtRest
    BY <1>1, <2>1, <2>2 DEF LookInv, ThemeInv
  <2>4. Stands(r)'
    BY <1>1, <1>3, <2>3 DEF Stands, AtRest
  <2>5. QED
    BY <1>3, <2>2, <2>4 DEF Alone, Settled
<1>6. ThemeInv'
  BY <1>3, <1>5, ThemeStep
<1>7. call' \in [Look!Slots -> ThemeCall]
  BY <1>3, OneTheme
<1>8. QED
  BY <1>1, <1>2, <1>6, <1>7

\* Preferences are edited: they are shown, and go out.
LEMMA PrefsEdited ==
  ASSUME LookInv, NEW p \in Look!Prefs, Look!write(p), user \in Users, UNCHANGED <<row, user>>,
         overtaken \subseteq overtaken', puts # {} => "prefs" \in overtaken'
  PROVE  /\ PrefsInv' /\ memory' = p /\ prefs' = p /\ chosen' = p
         /\ load' \in [Users -> PrefsLoad] /\ puts' \subseteq PrefsPut
<1>1. /\ memory' = p /\ prefs' = p /\ chosen' = p
      /\ load' = [u \in Users |-> [load[u] EXCEPT !.fresh = FALSE]]
      /\ puts' = puts \cup Look!PutsOf(p)
  BY DEF Look!write
<1>2. ASSUME NEW u \in Users PROVE load'[u] \in PrefsLoad /\ ~load'[u].fresh
  <2>1. load[u] \in PrefsLoad
    BY DEF LookInv, LookTyped
  <2>2. QED
    BY <1>1, <2>1 DEF PrefsLoad
<1>3. load' \in [Users -> PrefsLoad]
  BY <1>1, <1>2
<1>4. puts' \subseteq PrefsPut
  <2>1. puts \subseteq PrefsPut
    BY DEF LookInv, LookTyped
  <2>2. Look!PutsOf(p) \subseteq PrefsPut
    BY DEF Look!PutsOf, PrefsPut, Look!Prefs
  <2>3. QED
    BY <1>1, <2>1, <2>2
<1>5. ASSUME "prefs" \notin overtaken', NEW c \in Look!Categories
      PROVE  /\ \A m \in puts' : m.cat = c => m.who = user' /\ m.val = chosen'[c]
             /\ [who |-> user', cat |-> c, val |-> chosen'[c]] \in puts'
  <2>1. puts' = Look!PutsOf(p)
    BY <1>1, <1>5
  <2>2. QED
    BY <1>1, <2>1 DEF Look!PutsOf
<1>6. PrefsInv'
  BY <1>1, <1>2, <1>5 DEF PrefsInv
<1>7. QED
  BY <1>1, <1>3, <1>4, <1>6

LEMMA LookChooses ==
  ASSUME LookInv, NEW c \in Look!Slots, NEW l \in Look!Looks \cup {None}, Look!Choose(c, l)
  PROVE  LookInv'
<1>1. /\ acts < MaxActs /\ acts' = acts + 1 /\ Look!setAdminTheme(c, l)
      /\ overtaken' = overtaken \cup (IF Look!Busy THEN {"theme"} ELSE {})
      /\ UNCHANGED <<row, memory, prefs, load, puts, chosen>>
  BY DEF Look!Choose, Look!Act, Look!Overtake, Look!nav
<1>2. /\ ThemeInv' /\ user' = user /\ look' = l /\ snapshot' = snapshot /\ saving' = TRUE
      /\ call' \in [Look!Slots -> ThemeCall]
  BY <1>1, ThemeChosen
<1>3. PrefsInv'
  BY <1>1, <1>2, NavIdle
<1>4. acts' \in 0..MaxActs /\ overtaken' \subseteq {"theme", "prefs"}
  BY <1>1, LookBounds DEF LookInv, LookTyped
<1>5. LookTyped'
  BY <1>1, <1>2, <1>4 DEF LookInv, LookTyped
<1>6. QED
  BY <1>2, <1>3, <1>5 DEF LookInv

LEMMA LookPrefers ==
  ASSUME LookInv, NEW p \in Look!Prefs, Look!Prefer(p)
  PROVE  LookInv'
<1>1. /\ acts < MaxActs /\ acts' = acts + 1 /\ user # None /\ Look!write(p)
      /\ overtaken' = overtaken \cup (IF puts # {} THEN {"prefs"} ELSE {})
      /\ UNCHANGED <<row, user, look, snapshot, saving, call>>
  BY DEF Look!Prefer, Look!Act, Look!Overtake, Look!theme
<1>2. user \in Users
  BY <1>1 DEF LookInv, LookTyped
<1>3. /\ PrefsInv' /\ memory' = p /\ prefs' = p /\ chosen' = p
      /\ load' \in [Users -> PrefsLoad] /\ puts' \subseteq PrefsPut
  BY <1>1, <1>2, PrefsEdited
<1>4. ThemeInv'
  BY <1>1, ThemeIdle
<1>5. acts' \in 0..MaxActs /\ overtaken' \subseteq {"theme", "prefs"}
  BY <1>1, LookBounds DEF LookInv, LookTyped
<1>6. LookTyped'
  BY <1>1, <1>3, <1>5 DEF LookInv, LookTyped
<1>7. QED
  BY <1>3, <1>4, <1>6 DEF LookInv

LEMMA PrefsSet ==
  ASSUME LookInv, NEW cat \in Look!Categories, NEW v \in Choices
  PROVE  [memory EXCEPT ![cat] = v] \in Look!Prefs
<1>1. memory \in [Look!Categories -> Choices]
  BY DEF LookInv, LookTyped, Look!Prefs
<1>2. QED
  BY <1>1 DEF Look!Prefs

LEMMA LookDresses ==
  ASSUME LookInv, NEW c \in Look!Slots, NEW l \in Look!Looks, NEW v \in Choices, Look!Dress(c, l, v)
  PROVE  LookInv'
<1>1. PICK p \in Look!Prefs :
        /\ acts < MaxActs /\ acts' = acts + 1 /\ Look!setAdminTheme(c, l) /\ Look!write(p)
        /\ overtaken' = overtaken \cup (IF puts # {} THEN {"prefs"} ELSE {})
                                  \cup (IF Look!Busy THEN {"theme"} ELSE {})
        /\ UNCHANGED row
  <2>1. [memory EXCEPT !["admin_studio"] = v] \in Look!Prefs
    BY PrefsSet DEF Look!Categories
  <2>2. QED
    BY <2>1 DEF Look!Dress, Look!Act
<1>2. /\ ThemeInv' /\ user' = user /\ user \in Users
      /\ look' = l /\ snapshot' = snapshot /\ saving' = TRUE
      /\ call' \in [Look!Slots -> ThemeCall]
  BY <1>1, ThemeChosen
<1>3. /\ PrefsInv' /\ memory' = p /\ prefs' = p /\ chosen' = p
      /\ load' \in [Users -> PrefsLoad] /\ puts' \subseteq PrefsPut
  BY <1>1, <1>2, PrefsEdited
<1>4. acts' \in 0..MaxActs /\ overtaken' \subseteq {"theme", "prefs"}
  BY <1>1, LookBounds DEF LookInv, LookTyped
<1>5. LookTyped'
  BY <1>1, <1>2, <1>3, <1>4 DEF LookInv, LookTyped
<1>6. QED
  BY <1>2, <1>3, <1>5 DEF LookInv

LEMMA LooksAreKept ==
  ASSUME NEW l \in Look!Looks
  PROVE  /\ \A b \in BOOLEAN : [l EXCEPT !.dark = b] \in Look!Looks
         /\ \A s \in Styles : [l EXCEPT !.style = s] \in Look!Looks
         /\ l.dark \in BOOLEAN
  BY DEF Look!Looks

\* The controls of the studio.
LEMMA LookEdits ==
  ASSUME LookInv, NEW c \in Look!Slots,
         \/ Look!handleScheme(c) \/ Look!FollowBrand(c) \/ Look!handleThemeToggle(c)
         \/ \E s \in Styles : Look!handleAccent(c, s) \/ Look!handleFont(c, s)
  PROVE  LookInv'
<1>1. look # None => look \in Look!Looks
  BY DEF LookInv, LookTyped
<1>2. CASE Look!handleScheme(c)
  <2>1. look \in Look!Looks /\ (~look.dark) \in BOOLEAN
    BY <1>1, <1>2 DEF Look!handleScheme, Look!Editable
  <2>2. [look EXCEPT !.dark = ~look.dark] \in Look!Looks
    BY <2>1, LooksAreKept
  <2>3. QED
    BY <1>2, <2>2, LookChooses DEF Look!handleScheme
<1>3. CASE Look!FollowBrand(c)
  BY <1>3, LookChooses DEF Look!FollowBrand
<1>4. CASE Look!handleThemeToggle(c)
  <2>1. /\ look \in Look!Looks /\ (~look.dark) \in BOOLEAN
        /\ snapshot # None => snapshot \in Look!Looks
    BY <1>1, <1>4 DEF Look!handleThemeToggle, LookInv, LookTyped
  <2>2. Look!Switched \in Look!Looks
    BY <2>1, LooksAreKept DEF Look!Switched
  <2>3. QED
    BY <1>4, <2>2, LookChooses DEF Look!handleThemeToggle
<1>5. ASSUME NEW s \in Styles, Look!handleAccent(c, s) \/ Look!handleFont(c, s) PROVE LookInv'
  <2>1. look \in Look!Looks
    BY <1>1, <1>5 DEF Look!handleAccent, Look!handleFont, Look!Editable
  <2>2. [look EXCEPT !.style = s] \in Look!Looks
    BY <2>1, LooksAreKept
  <2>3. QED
    BY <1>5, <2>2, LookChooses DEF Look!handleAccent, Look!handleFont
<1>6. QED
  BY <1>2, <1>3, <1>4, <1>5

LEMMA LookDressesUp ==
  ASSUME LookInv, NEW c \in Look!Slots, NEW v \in Choices,
         \/ \E l \in Look!Looks : \/ Look!EnableCustom(c, l, v) \/ Look!handlePack(c, l, v)
                                  \/ Look!ResetPersonal(c, l, v)
         \/ \E s \in Styles : Look!handlePersonalRadius(c, s, v)
  PROVE  LookInv'
<1>1. PICK l \in Look!Looks : Look!Dress(c, l, v)
  <2>1. ASSUME NEW s \in Styles, Look!handlePersonalRadius(c, s, v)
        PROVE  \E l \in Look!Looks : Look!Dress(c, l, v)
    <3>1. look \in Look!Looks
      BY <2>1 DEF Look!handlePersonalRadius, LookInv, LookTyped
    <3>2. [look EXCEPT !.style = s] \in Look!Looks
      BY <3>1, LooksAreKept
    <3>3. QED
      BY <2>1, <3>2 DEF Look!handlePersonalRadius
  <2>2. QED
    BY <2>1 DEF Look!EnableCustom, Look!handlePack, Look!ResetPersonal
<1>2. QED
  BY <1>1, LookDresses

LEMMA NavEdits ==
  ASSUME LookInv, Look!reset \/ \E v \in Choices : Look!NavCustomizer(v) \/ Look!MessageTheme(v)
  PROVE  LookInv'
<1>1. Look!Defaults \in Look!Prefs
  BY LookBounds DEF Look!Defaults, Look!Prefs
<1>2. ASSUME NEW v \in Choices, NEW cat \in Look!Categories, Look!setPrefs(cat, v) PROVE LookInv'
  BY <1>2, PrefsSet, LookPrefers DEF Look!setPrefs
<1>3. QED
  BY <1>1, <1>2, LookPrefers DEF Look!reset, Look!NavCustomizer, Look!MessageTheme, Look!Categories

-----------------------------------------------------------------------------
\* The answer to a save comes.
LEMMA SaveSettles ==
  ASSUME LookInv, NEW c \in Look!Slots, Look!SettleSave(c)
  PROVE  LookInv'
<1>1. /\ call[c].op \in {"put", "delete"} /\ call[c].step \in {"ok", "error"} /\ user' = user
      /\ IF call[c].who # user THEN UNCHANGED <<look, snapshot, saving>>
         ELSE /\ saving' = FALSE
              /\ IF call[c].step = "ok" THEN look' = call[c].look /\ snapshot' = call[c].look
                 ELSE look' = snapshot /\ UNCHANGED snapshot
      /\ UNCHANGED <<acts, row, memory, prefs, load, puts, chosen>>
      /\ overtaken' = overtaken \cup (IF \/ call[c].who # user
                                         \/ \E d \in Look!Slots \ {c} : call[d] # Look!Free
                                      THEN {"theme"} ELSE {})
  BY DEF Look!SettleSave, Look!Answered, Look!Mine, Look!applyResponse, Look!Reverted,
         Look!Overtake, Look!nav
<1>2. call' = [call EXCEPT ![c] = IF call[c].step = "ok" /\ user # None
                                  THEN Look!Request("refresh", None) ELSE Look!Free]
  BY DEF Look!SettleSave
<1>3. LookTyped /\ call[c] \in ThemeCall /\ call[c].look \in Look!Looks \cup {None}
  BY DEF LookInv, LookTyped, ThemeCall
<1>4. PICK r \in ThemeCall :
        /\ call' = [call EXCEPT ![c] = r] /\ Whole(r)
        /\ \/ r.step = "free" /\ (call[c].step = "error" \/ user = None)
           \/ r.step = "sent" /\ r.op = "refresh" /\ r.who = user /\ call[c].step = "ok"
  <2>1. CASE call[c].step = "ok" /\ user # None
    <3> DEFINE q == Look!Request("refresh", None)
    <3>1. user' \in Users
      BY <1>1, <1>3, <2>1 DEF LookTyped
    <3>2. q \in ThemeCall /\ Whole(q) /\ q.op = "refresh" /\ q.who = user' /\ q.step = "sent"
      BY <3>1, LookRequest
    <3>3. call' = [call EXCEPT ![c] = q]
      BY <1>2, <2>1
    <3> HIDE DEF q
    <3>4. QED
      BY <1>1, <2>1, <3>2, <3>3
  <2>2. CASE ~(call[c].step = "ok" /\ user # None)
    <3>1. call' = [call EXCEPT ![c] = Look!Free]
      BY <1>2, <2>2
    <3>2. QED
      BY <1>1, <2>2, <3>1, LookFree DEF Whole
  <2>3. QED
    BY <2>1, <2>2
<1>5. ASSUME user' # None, "theme" \notin overtaken' PROVE Alone(c) /\ Settled(r)'
  <2>1. /\ "theme" \notin overtaken /\ user # None /\ call[c].who = user
        /\ \A d \in Look!Slots \ {c} : call[d] = Look!Free
    BY <1>1, <1>5
  <2>2. Alone(c)
    BY <2>1, LookFree DEF Alone
  <2>3. Stands(call[c])
    BY <1>1, <2>1 DEF LookInv, ThemeInv
  <2>4. /\ look' = row[user].theme /\ snapshot' = row[user].theme /\ saving' = FALSE
    BY <1>1, <2>1, <2>3 DEF Stands
  <2>5. Settled(r)'
    BY <1>1, <1>4, <2>4 DEF Settled, Stands, AtRest
  <2>6. QED
    BY <2>2, <2>5
<1>6. ThemeInv'
  BY <1>4, <1>5, ThemeStep
<1>7. PrefsInv'
  BY <1>1, NavIdle
<1>8. call' \in [Look!Slots -> ThemeCall]
  BY <1>4, OneTheme
<1>9. LookTyped'
  BY <1>1, <1>3, <1>8 DEF LookTyped
<1>10. QED
  BY <1>6, <1>7, <1>9 DEF LookInv

\* The answer to a question comes.
LEMMA ReadSettles ==
  ASSUME LookInv, NEW c \in Look!Slots, Look!SettleRead(c)
  PROVE  LookInv'
<1>1. /\ call[c].op \in {"load", "refresh"} /\ call[c].step \in {"ok", "error"}
      /\ IF call[c].step = "ok" \/ call[c].op = "load"
         THEN look' = call[c].look /\ snapshot' = call[c].look ELSE UNCHANGED <<look, snapshot>>
      /\ call' = [call EXCEPT ![c] = Look!Free]
      /\ UNCHANGED <<acts, row, user, saving, memory, prefs, load, puts, chosen>>
      /\ overtaken' = overtaken \cup (IF \/ call[c].step = "error" /\ call[c].op = "load"
                                         \/ \E d \in Look!Slots \ {c} : call[d] # Look!Free
                                      THEN {"theme"} ELSE {})
  BY DEF Look!SettleRead, Look!Answered, Look!applyResponse, Look!Overtake, Look!nav
<1>2. LookTyped /\ call[c] \in ThemeCall /\ call[c].look \in Look!Looks \cup {None}
  BY DEF LookInv, LookTyped, ThemeCall
<1>3. ASSUME user' # None, "theme" \notin overtaken' PROVE Alone(c) /\ AtRest'
  <2>1. /\ "theme" \notin overtaken /\ user # None
        /\ call[c].step = "ok" \/ call[c].op = "refresh"
        /\ \A d \in Look!Slots \ {c} : call[d] = Look!Free
    BY <1>1, <1>3
  <2>2. Alone(c)
    BY <2>1, LookFree DEF Alone
  <2>3. Stands(call[c])
    BY <1>1, <2>1 DEF LookInv, ThemeInv
  <2>4. look' = row[user].theme /\ snapshot' = row[user].theme /\ ~saving
    BY <1>1, <2>1, <2>3 DEF Stands
  <2>5. QED
    BY <1>1, <2>2, <2>4 DEF AtRest
<1>4. PICK r \in ThemeCall : r = Look!Free /\ Whole(r) /\ r.step = "free"
  BY LookFree DEF Whole
<1>5. ThemeInv'
  BY <1>1, <1>3, <1>4, ThemeStep DEF Settled
<1>6. PrefsInv'
  BY <1>1, NavIdle
<1>7. call' \in [Look!Slots -> ThemeCall]
  BY <1>1, LookFree, OneTheme
<1>8. LookTyped'
  BY <1>1, <1>2, <1>7 DEF LookTyped
<1>9. QED
  BY <1>5, <1>6, <1>8 DEF LookInv

-----------------------------------------------------------------------------
Served(r, s, l) == [r EXCEPT !.step = s, !.look = l]

LEMMA LookServed ==
  ASSUME NEW r \in ThemeCall, r.step # "free", Whole(r), NEW s \in {"ok", "error"},
         NEW l \in Look!Looks \cup {None}
  PROVE  /\ Served(r, s, l) \in ThemeCall /\ Whole(Served(r, s, l))
         /\ Served(r, s, l).op = r.op /\ Served(r, s, l).who = r.who
         /\ Served(r, s, l).step = s /\ Served(r, s, l).look = l
  BY DEF Served, ThemeCall, Whole

\* The server answers a request, or the request fails.
LEMMA LookIsServed ==
  ASSUME LookInv, NEW c \in Look!Slots, NEW s \in {"ok", "error"}, NEW l \in Look!Looks \cup {None},
         call[c].step \in {"sent", "ok"},
         call' = [call EXCEPT ![c] = Served(call[c], s, l)],
         UNCHANGED <<user, look, snapshot, saving>>, overtaken \subseteq overtaken',
         call[c].who \in Users =>
           \/ /\ s = "ok" /\ row'[call[c].who].theme = l
              /\ call[c].op \in {"load", "refresh"} => row'[call[c].who].theme = row[call[c].who].theme
           \/ s = "error" /\ UNCHANGED row /\ (call[c].step = "sent" \/ call[c].op \in {"load", "refresh"})
           \/ "theme" \in overtaken'
  PROVE  ThemeInv' /\ call' \in [Look!Slots -> ThemeCall]
<1>1. call[c] \in ThemeCall /\ Whole(call[c]) /\ call[c].step # "free"
  BY DEF LookInv, LookTyped, ThemeInv
<1>2. PICK r \in ThemeCall :
        /\ call' = [call EXCEPT ![c] = r] /\ Whole(r)
        /\ r.op = call[c].op /\ r.who = call[c].who /\ r.step = s /\ r.look = l
  <2> DEFINE q == Served(call[c], s, l)
  <2>1. /\ q \in ThemeCall /\ Whole(q) /\ q.op = call[c].op /\ q.who = call[c].who
        /\ q.step = s /\ q.look = l
    BY <1>1, LookServed
  <2> HIDE DEF q
  <2>2. QED
    BY <2>1 DEF q
<1>3. ASSUME user' # None, "theme" \notin overtaken' PROVE Alone(c) /\ Settled(r)'
  <2>1. /\ Alone(c) /\ Stands(call[c])
    BY <1>1, <1>3 DEF LookInv, ThemeInv
  <2>2. call[c].who = user /\ user \in Users
    BY <1>3, <2>1 DEF Stands, LookInv, LookTyped
  <2>3. Stands(r)'
    BY <1>1, <1>2, <1>3, <2>1, <2>2 DEF Stands, Whole
  <2>4. QED
    BY <1>2, <2>1, <2>3 DEF Settled
<1>4. QED
  BY <1>2, <1>3, ThemeStep, OneTheme

Themed(r, l) == [r EXCEPT !.theme = l]
Preferred(r, cat, v) == [r EXCEPT !.prefs = [r.prefs EXCEPT ![cat] = v]]

LEMMA LookRows ==
  ASSUME NEW r \in LookRow
  PROVE  /\ \A l \in Look!Looks \cup {None} : /\ Themed(r, l) \in LookRow /\ Themed(r, l).theme = l
                                              /\ Themed(r, l).prefs = r.prefs
         /\ \A cat \in Look!Categories, v \in Choices :
              /\ Preferred(r, cat, v) \in LookRow /\ Preferred(r, cat, v).theme = r.theme
              /\ Preferred(r, cat, v).prefs[cat] = v
              /\ \A d \in Look!Categories : d # cat => Preferred(r, cat, v).prefs[d] = r.prefs[d]
  BY DEF LookRow, Themed, Preferred, Look!Stored

LEMMA ThemeServes ==
  ASSUME LookInv, NEW c \in Look!Slots, Look!GetTheme(c) \/ Look!StoreTheme(c) \/ Look!FailTheme(c)
  PROVE  LookInv'
<1>1. /\ LookTyped /\ call[c] \in ThemeCall /\ Whole(call[c]) /\ call[c].look \in Look!Looks \cup {None}
  BY DEF LookInv, LookTyped, ThemeInv, ThemeCall
<1>2. call[c].step \in {"sent", "ok"} /\ call[c].who \in Users
  BY <1>1 DEF Look!GetTheme, Look!StoreTheme, Look!FailTheme, Whole
<1>3. row[call[c].who] \in LookRow
  BY <1>1, <1>2 DEF LookTyped
<1>4. UNCHANGED <<acts, user, look, snapshot, saving, memory, prefs, load, puts, chosen>>
  BY DEF Look!GetTheme, Look!StoreTheme, Look!FailTheme, Look!nav
<1>5. CASE Look!GetTheme(c)
  <2>1. row[call[c].who].theme \in Look!Looks \cup {None}
    BY <1>3 DEF LookRow
  <2>2. /\ call' = [call EXCEPT ![c] = Served(call[c], "ok", row[call[c].who].theme)]
        /\ UNCHANGED <<row, overtaken>>
    BY <1>1, <1>5 DEF Look!GetTheme, Look!Serve, Served, LookTyped
  <2>3. ThemeInv' /\ call' \in [Look!Slots -> ThemeCall]
    BY <1>2, <1>4, <2>1, <2>2, LookIsServed
  <2>4. PrefsInv'
    BY <1>4, <2>2, NavIdle
  <2>5. LookTyped'
    BY <1>1, <1>4, <2>2, <2>3 DEF LookTyped
  <2>6. QED
    BY <2>3, <2>4, <2>5 DEF LookInv
<1>6. CASE Look!StoreTheme(c)
  <2>1. /\ call' = [call EXCEPT ![c] = Served(call[c], "ok", call[c].look)]
        /\ row' = [row EXCEPT ![call[c].who] = Themed(row[call[c].who], call[c].look)]
        /\ call[c].op \in {"put", "delete"} /\ UNCHANGED overtaken
    BY <1>1, <1>2, <1>6 DEF Look!StoreTheme, Look!Serve, Served, Themed, LookTyped
  <2>2. /\ row' \in [Users -> LookRow] /\ row'[call[c].who].theme = call[c].look
        /\ \A u \in Users : row'[u].prefs = row[u].prefs
    BY <1>1, <1>2, <1>3, <2>1, LookRows DEF LookTyped
  <2>3. ThemeInv' /\ call' \in [Look!Slots -> ThemeCall]
    BY <1>1, <1>2, <1>4, <2>1, <2>2, LookIsServed
  <2>4. PrefsInv'
    BY <1>4, <2>1, <2>2, NavIdle
  <2>5. LookTyped'
    BY <1>1, <1>4, <2>1, <2>2, <2>3 DEF LookTyped
  <2>6. QED
    BY <2>3, <2>4, <2>5 DEF LookInv
<1>7. CASE Look!FailTheme(c)
  <2>1. /\ call' = [call EXCEPT ![c] = Served(call[c], "error", None)] /\ UNCHANGED row
        /\ overtaken' = overtaken \cup (IF call[c].step = "ok" /\ call[c].op \in {"put", "delete"}
                                        THEN {"theme"} ELSE {})
    BY <1>1, <1>7 DEF Look!FailTheme, Look!Overtake, Served, LookTyped
  <2>2. \/ call[c].step = "sent" \/ call[c].op \in {"load", "refresh"} \/ "theme" \in overtaken'
    BY <1>1, <1>2, <2>1 DEF Whole
  <2>3. ThemeInv' /\ call' \in [Look!Slots -> ThemeCall]
    BY <1>2, <1>4, <2>1, <2>2, LookIsServed
  <2>4. PrefsInv'
    BY <1>4, <2>1, NavIdle
  <2>5. LookTyped'
    BY <1>1, <1>4, <2>1, <2>3 DEF LookTyped
  <2>6. QED
    BY <2>3, <2>4, <2>5 DEF LookInv
<1>8. QED
  BY <1>5, <1>6, <1>7

-----------------------------------------------------------------------------
\* The preferences come: over what is in memory only when nothing was edited since.
LEMMA PrefsSettle ==
  ASSUME LookInv, NEW u \in Users, Look!SettleLoad(u)
  PROVE  LookInv'
<1>1. LookTyped /\ load[u] \in PrefsLoad
  BY DEF LookInv, LookTyped
<1> DEFINE base == [c \in Look!Categories |-> IF load[u].got[c] = None THEN memory[c] ELSE load[u].got[c]]
<1>2. base \in Look!Prefs
  BY <1>1 DEF PrefsLoad, Look!Stored, Look!Prefs, LookTyped
<1>3. /\ IF load[u].fresh /\ load[u].got # Look!Unset
         THEN memory' = base /\ prefs' = IF user = u THEN base ELSE prefs
         ELSE UNCHANGED <<memory, prefs>>
      /\ load' = [load EXCEPT ![u] = Look!NoLoad]
      /\ UNCHANGED <<acts, row, user, look, snapshot, saving, call, puts, chosen, overtaken>>
  BY DEF Look!SettleLoad, Look!Usable, Look!theme
<1> HIDE DEF base
<1>4. Look!NoLoad \in PrefsLoad /\ ~Look!NoLoad.fresh
  BY DEF Look!NoLoad, PrefsLoad, Look!Unset, Look!Stored
<1>5. LookTyped'
  BY <1>1, <1>2, <1>3, <1>4 DEF LookTyped
<1>6. PrefsInv'
  <2>1. ASSUME chosen' # None
        PROVE  prefs' = chosen' /\ memory' = chosen' /\ \A v \in Users : ~load'[v].fresh
    BY <1>1, <1>3, <1>4, <2>1 DEF LookInv, PrefsInv, LookTyped
  <2>2. QED
    BY <1>3, <2>1 DEF LookInv, PrefsInv
<1>7. ThemeInv'
  BY <1>3, ThemeIdle
<1>8. QED
  BY <1>5, <1>6, <1>7 DEF LookInv

PrefsAnswer(l, got) == [l EXCEPT !.step = "answered", !.got = got]

LEMMA PrefsAnswered ==
  ASSUME NEW l \in PrefsLoad, NEW got \in Look!Stored
  PROVE  PrefsAnswer(l, got) \in PrefsLoad /\ (PrefsAnswer(l, got).fresh <=> l.fresh)
  BY DEF PrefsAnswer, PrefsLoad

LEMMA PrefsServe ==
  ASSUME LookInv, NEW u \in Users, Look!GetPrefs(u)
  PROVE  LookInv'
<1>1. LookTyped /\ load[u] \in PrefsLoad /\ row[u] \in LookRow
  BY DEF LookInv, LookTyped
<1>2. UNCHANGED <<acts, row, user, look, snapshot, saving, call, memory, prefs, puts, chosen, overtaken>>
  BY DEF Look!GetPrefs, Look!theme
<1>3. PICK failed \in SUBSET Look!Categories :
        load' = [load EXCEPT ![u].step = "answered",
                             ![u].got = [c \in Look!Categories |->
                                           IF c \in failed THEN None ELSE row[u].prefs[c]]]
  BY DEF Look!GetPrefs
<1> DEFINE got == [c \in Look!Categories |-> IF c \in failed THEN None ELSE row[u].prefs[c]]
<1>4. got \in Look!Stored
  BY <1>1 DEF LookRow, Look!Stored
<1>5. load' = [load EXCEPT ![u] = PrefsAnswer(load[u], got)]
  BY <1>1, <1>3 DEF PrefsAnswer, LookTyped
<1> HIDE DEF got
<1>6. load' \in [Users -> PrefsLoad] /\ \A v \in Users : load'[v].fresh <=> load[v].fresh
  BY <1>1, <1>4, <1>5, PrefsAnswered DEF LookTyped
<1>7. LookTyped'
  BY <1>1, <1>2, <1>6 DEF LookTyped
<1>8. PrefsInv'
  BY <1>2, <1>6 DEF LookInv, PrefsInv
<1>9. ThemeInv'
  BY <1>2, ThemeIdle
<1>10. QED
  BY <1>7, <1>8, <1>9 DEF LookInv

\* A write of preferences arrives, or is lost.
LEMMA PrefsArrive ==
  ASSUME LookInv, NEW m \in puts, Look!PutPrefs(m) \/ Look!LosePrefs(m)
  PROVE  LookInv'
<1>1. LookTyped /\ m \in PrefsPut /\ m.who \in Users /\ m.cat \in Look!Categories /\ m.val \in Choices
  BY DEF LookInv, LookTyped, PrefsPut
<1>2. /\ puts' = puts \ {m} /\ overtaken \subseteq overtaken' /\ overtaken' \subseteq {"theme", "prefs"}
      /\ UNCHANGED <<acts, user, look, snapshot, saving, call, memory, prefs, load, chosen>>
  BY <1>1 DEF Look!PutPrefs, Look!LosePrefs, Look!Overtake, Look!theme, LookTyped
<1>3. CASE Look!PutPrefs(m)
  <2>1. row' = [row EXCEPT ![m.who] = Preferred(row[m.who], m.cat, m.val)]
    BY <1>1, <1>3 DEF Look!PutPrefs, Preferred, LookTyped
  <2>2. row[m.who] \in LookRow
    BY <1>1 DEF LookTyped
  <2>3. /\ row' \in [Users -> LookRow] /\ row'[m.who].prefs[m.cat] = m.val
        /\ \A u \in Users : row'[u].theme = row[u].theme
        /\ \A u \in Users, c \in Look!Categories :
             row'[u].prefs[c] = row[u].prefs[c] \/ (u = m.who /\ c = m.cat)
    <3> DEFINE q == Preferred(row[m.who], m.cat, m.val)
    <3>1. /\ q \in LookRow /\ q.theme = row[m.who].theme /\ q.prefs[m.cat] = m.val
          /\ \A c \in Look!Categories : c # m.cat => q.prefs[c] = row[m.who].prefs[c]
      BY <1>1, <2>2, LookRows
    <3>2. row' = [row EXCEPT ![m.who] = q]
      BY <2>1
    <3> HIDE DEF q
    <3>3. row' \in [Users -> LookRow] /\ row'[m.who] = q /\ \A u \in Users : u # m.who => row'[u] = row[u]
      BY <1>1, <3>1, <3>2 DEF LookTyped
    <3>4. QED
      BY <3>1, <3>3
  <2>4. LookTyped'
    BY <1>1, <1>2, <2>3 DEF LookTyped
  <2>5. ThemeInv'
    BY <1>2, <2>3, ThemeIdle
  <2>6. ASSUME user' # None, chosen' # None, "prefs" \notin overtaken', NEW c \in Look!Categories
        PROVE  /\ \A n \in puts' : n.cat = c => n.who = user' /\ n.val = chosen'[c]
               /\ \/ row'[user].prefs[c] = chosen'[c]
                  \/ [who |-> user', cat |-> c, val |-> chosen'[c]] \in puts'
    <3>1. /\ \A n \in puts : n.cat = c => n.who = user /\ n.val = chosen[c]
          /\ row[user].prefs[c] = chosen[c] \/ [who |-> user, cat |-> c, val |-> chosen[c]] \in puts
          /\ user \in Users
      BY <1>1, <1>2, <2>6 DEF LookInv, PrefsInv, LookTyped
    <3>2. CASE m.cat = c
      BY <1>2, <2>3, <3>1, <3>2
    <3>3. CASE m.cat # c
      BY <1>2, <2>3, <3>1, <3>3
    <3>4. QED
      BY <3>2, <3>3
  <2>7. PrefsInv'
    BY <1>2, <2>6 DEF LookInv, PrefsInv
  <2>8. QED
    BY <2>4, <2>5, <2>7 DEF LookInv
<1>4. CASE Look!LosePrefs(m)
  <2>1. UNCHANGED row /\ "prefs" \in overtaken'
    BY <1>4 DEF Look!LosePrefs, Look!Overtake
  <2>2. LookTyped'
    BY <1>1, <1>2, <2>1 DEF LookTyped
  <2>3. ThemeInv'
    BY <1>2, <2>1, ThemeIdle
  <2>4. PrefsInv'
    BY <1>2, <2>1 DEF LookInv, PrefsInv
  <2>5. QED
    BY <2>2, <2>3, <2>4 DEF LookInv
<1>5. QED
  BY <1>3, <1>4

LEMMA LookKeeps == LookInv /\ Look!Next => LookInv'
BY ConsoleOpens, ConsoleCloses, LookEdits, LookDressesUp, NavEdits, SaveSettles, ReadSettles,
   ThemeServes, PrefsSettle, PrefsServe, PrefsArrive DEF Look!Next

-----------------------------------------------------------------------------
(* The pages over the store                                                *)

\* The rows with an id, by their place in the array.
Places(i) == {k \in 1..Len(order) : id[order[k]] = i}

LEMMA LeastOf ==
  ASSUME NEW S \in SUBSET Nat, S # {}
  PROVE  \E x \in S : \A y \in S : x <= y
<1>1. PICK x \in S : \A y \in S : ~(<<y, x>> \in OpToRel(<, Nat))
  BY NatLessThanWellFounded, WFMin
<1>2. \A y \in S : ~(y < x)
  BY <1>1 DEF OpToRel
<1>3. QED
  BY <1>2

LEMMA AtIsAPlace ==
  ASSUME NEW i PROVE Console!At(i) \in Places(i) \cup {0}
<1>1. Console!At(i) = IF Places(i) # {} THEN CHOOSE x \in Places(i) : \A y \in Places(i) : x <= y ELSE 0
  BY DEF Console!At, Places, Console!SelectInSeq, Console!Min
<1>2. Places(i) \subseteq Nat
  BY DEF Places
<1>3. ASSUME Places(i) # {} PROVE (CHOOSE x \in Places(i) : \A y \in Places(i) : x <= y) \in Places(i)
  BY <1>2, <1>3, LeastOf
<1>4. QED
  BY <1>1, <1>3

LEMMA AtStays == ASSUME UNCHANGED <<order, id>>, NEW i PROVE Console!At(i)' = Console!At(i)
  BY DEF Console!At, Console!SelectInSeq, Console!Min

StoreTyped ==
    /\ order \in Seq(Console!Rows) /\ Len(order) <= MaxRows
    /\ id \in [Console!Rows -> Ids \cup {None}]
    /\ status \in [Console!Rows -> Console!Statuses] /\ mark \in [Console!Rows -> BOOLEAN]
    /\ logged \in [row : Console!Rows, chosen : Console!Rows] \cup {None}

\* The rows made are the first ones, and only they are in the array.
Made(u) == u \in Console!Rows /\ id[u] # None
MadeInOrder == /\ \A u \in Console!Rows : id[u] # None <=> u <= Len(order)
               /\ \A k \in 1..Len(order) : id[order[k]] # None

PageTyped ==
    /\ kind \in Console!Kinds /\ page \in {"closed", "list", "detail"}
    /\ route \in Ids \cup Console!Statuses \cup {None} /\ asked \in Ids \cup Console!Statuses \cup {None}

\* A dialog is about a row; a drawer is a copy of one, and only incidents have it.
DialogIsOfARow == dialog # None => Made(dialog)
DrawerIsACopy == drawer # None => /\ kind = "incidents" /\ drawer \in Console!CopyOf /\ Made(drawer.row)
                                  /\ Console!DrawerIsCurrent

ConsoleInv == /\ StoreTyped /\ MadeInOrder /\ PageTyped
              /\ shown = Console!Selected(page, asked) /\ Console!ActsOnTheRowChosen
              /\ DialogIsOfARow /\ DrawerIsACopy

LEMMA ConsoleBounds ==
  /\ MaxRows \in Nat \ {0} /\ None \notin Ids /\ None \notin Console!Statuses
  BY PagesBounds DEF Console!Bounds

LEMMA InOrder ==
  ASSUME StoreTyped
  PROVE  Len(order) \in Nat /\ \A k \in 1..Len(order) : order[k] \in Console!Rows
  BY DEF StoreTyped

\* What an operation finds has the id it looks for.
LEMMA FirstHasTheId ==
  ASSUME StoreTyped, MadeInOrder, NEW i, Console!At(i) # 0
  PROVE  Made(Console!First(i)) /\ id[Console!First(i)] = i
<1>1. Console!At(i) \in Places(i)
  BY AtIsAPlace
<1>2. QED
  BY <1>1, InOrder DEF Console!First, Places, MadeInOrder, Made

\* What a page shows is copies of rows.
LEMMA ShownAreCopies ==
  ASSUME StoreTyped, MadeInOrder, NEW p, NEW a,
         NEW c \in Console!ToSet(Console!Selected(p, a))
  PROVE  Made(c.row) /\ c = Console!Copy(c.row) /\ c \in Console!CopyOf
<1>1. SUFFICES \E u \in Console!Rows : Made(u) /\ c = Console!Copy(u)
  <2>1. ASSUME NEW u \in Console!Rows, Made(u), c = Console!Copy(u)
        PROVE  Made(c.row) /\ c = Console!Copy(c.row) /\ c \in Console!CopyOf
    BY <2>1 DEF Console!Copy, Console!CopyOf, StoreTyped
  <2>2. QED
    BY <1>1, <2>1
<1>2. CASE p = "list"
  <2>1. PICK k \in DOMAIN order : c = Console!Copy(order[k])
    BY <1>2 DEF Console!Selected, Console!Filtered, Console!ToSet
  <2>2. k \in 1..Len(order)
    BY <2>1 DEF StoreTyped
  <2>3. QED
    BY <2>1, <2>2, InOrder DEF MadeInOrder, Made
<1>3. CASE p = "detail"
  <2>1. c \in Console!ToSet(Console!Found(a))
    BY <1>3 DEF Console!Selected
  <2>2. Console!At(a) # 0 /\ c = Console!Copy(Console!First(a))
    BY <2>1 DEF Console!Found, Console!ToSet
  <2>3. QED
    BY <2>2, FirstHasTheId DEF Made
<1>4. CASE p # "list" /\ p # "detail"
  BY <1>4 DEF Console!Selected, Console!ToSet
<1>5. QED
  BY <1>2, <1>3, <1>4

LEMMA ConsoleHolds == ConsoleInv => /\ Console!TypeOK /\ Console!ListIsStore
                                    /\ Console!ActsOnTheRowChosen /\ Console!DrawerIsCurrent
<1> SUFFICES ASSUME ConsoleInv PROVE Console!TypeOK /\ Console!ListIsStore /\ Console!DrawerIsCurrent
  BY DEF ConsoleInv
<1>1. Console!Listed \subseteq Console!CopyOf
  BY ShownAreCopies DEF ConsoleInv, Console!Listed
<1>2. Console!ToSet(order) \subseteq Console!Rows
  BY DEF ConsoleInv, StoreTyped, Console!ToSet
<1>3. Console!TypeOK
  BY <1>1, <1>2 DEF ConsoleInv, StoreTyped, PageTyped, DialogIsOfARow, DrawerIsACopy, Made, Console!TypeOK
<1>4. Console!ListIsStore
  BY DEF ConsoleInv, Console!ListIsStore
<1>5. Console!DrawerIsCurrent
  BY DEF ConsoleInv, DrawerIsACopy, Console!DrawerIsCurrent
<1>6. QED
  BY <1>3, <1>4, <1>5

LEMMA ConsoleStart == Console!Init => ConsoleInv
<1> SUFFICES ASSUME Console!Init PROVE ConsoleInv
  OBVIOUS
<1>1. PICK i \in Ids, s \in {"active", "suspended"} :
        /\ kind \in Console!Kinds /\ order = <<1>>
        /\ id = [u \in Console!Rows |-> IF u = 1 THEN i ELSE None]
        /\ status = [u \in Console!Rows |-> IF u = 1 THEN s ELSE "active"]
        /\ mark = [u \in Console!Rows |-> FALSE]
        /\ page = "closed" /\ route = None /\ asked = None /\ shown = <<>>
        /\ dialog = None /\ drawer = None /\ logged = None
  BY DEF Console!Init
<1>2. 1 \in Console!Rows /\ MaxRows >= 1
  BY ConsoleBounds DEF Console!Rows
<1>3. order \in Seq(Console!Rows) /\ Len(order) = 1 /\ order[1] = 1
  BY <1>1, <1>2
<1>4. StoreTyped
  BY <1>1, <1>2, <1>3 DEF StoreTyped, Console!Statuses
<1>5. MadeInOrder
  BY <1>1, <1>2, <1>3, ConsoleBounds DEF MadeInOrder, Console!Rows
<1>6. PageTyped /\ shown = Console!Selected(page, asked)
  BY <1>1 DEF PageTyped, Console!Selected
<1>7. Console!ActsOnTheRowChosen /\ DialogIsOfARow /\ DrawerIsACopy
  BY <1>1 DEF Console!ActsOnTheRowChosen, DialogIsOfARow, DrawerIsACopy
<1>8. QED
  BY <1>4, <1>5, <1>6, <1>7 DEF ConsoleInv

-----------------------------------------------------------------------------
\* An operation changes the first row with the id, which is the chosen one unless
\* ids coincide.
LEMMA RowIsSet ==
  ASSUME ConsoleInv, NEW u, Made(u), NEW s \in Console!Statuses, NEW m \in BOOLEAN,
         Console!SetRow(id[u], s, m, u)
  PROVE  /\ StoreTyped' /\ MadeInOrder' /\ shown' = Console!Selected(page, asked)'
         /\ Console!ActsOnTheRowChosen' /\ UNCHANGED <<order, id>>
         /\ \/ Console!Ambiguous
            \/ status' = [status EXCEPT ![u] = s] /\ mark' = [mark EXCEPT ![u] = m]
<1> DEFINE v == Console!First(id[u])
<1>1. /\ Console!At(id[u]) # 0
      /\ status' = [status EXCEPT ![v] = s] /\ mark' = [mark EXCEPT ![v] = m]
      /\ logged' = [row |-> v, chosen |-> u] /\ UNCHANGED <<order, id>>
      /\ shown' = Console!Selected(page, asked)'
  BY DEF Console!SetRow, Console!logAction, Console!Notify
<1>2. Made(v) /\ id[v] = id[u]
  BY <1>1, FirstHasTheId DEF ConsoleInv
<1> HIDE DEF v
<1>3. v \in Console!Rows /\ u \in Console!Rows /\ id[u] # None
  BY <1>2 DEF Made
<1>4. Console!Ambiguous \/ v = u
  BY <1>2, <1>3 DEF Console!Ambiguous
<1>5. StoreTyped'
  BY <1>1, <1>3 DEF ConsoleInv, StoreTyped
<1>6. MadeInOrder'
  BY <1>1 DEF ConsoleInv, MadeInOrder
<1>7. Console!ActsOnTheRowChosen'
  <2>1. logged'.row = v /\ logged'.chosen = u
    BY <1>1
  <2>2. Console!Ambiguous => Console!Ambiguous'
    BY <1>1 DEF Console!Ambiguous
  <2>3. QED
    BY <1>4, <2>1, <2>2 DEF Console!ActsOnTheRowChosen
<1>8. QED
  BY <1>1, <1>4, <1>5, <1>6, <1>7

LEMMA StoreChanges ==
  ASSUME ConsoleInv, NEW u, Made(u), NEW s \in Console!Statuses, NEW m \in BOOLEAN,
         Console!SetRow(id[u], s, m, u), PageTyped', dialog' \in {None, dialog},
         drawer' = None \/ (drawer' = drawer /\ kind # "incidents")
  PROVE  ConsoleInv'
<1>1. /\ StoreTyped' /\ MadeInOrder' /\ shown' = Console!Selected(page, asked)'
      /\ Console!ActsOnTheRowChosen' /\ UNCHANGED <<order, id>>
  BY RowIsSet
<1>2. DialogIsOfARow'
  BY <1>1 DEF ConsoleInv, DialogIsOfARow, Made
<1>3. DrawerIsACopy'
  BY DEF ConsoleInv, DrawerIsACopy
<1>4. QED
  BY <1>1, <1>2, <1>3 DEF ConsoleInv

\* The store stays as it is.
LEMMA StoreRests ==
  ASSUME ConsoleInv, UNCHANGED <<order, id, status, mark>>, logged' = None, PageTyped',
         shown' = Console!Selected(page, asked)' \/ shown' = Console!Selected(page', asked'),
         dialog' # None => Made(dialog'),
         drawer' = None \/ (drawer' = drawer /\ kind' = kind) \/ DrawerIsACopy'
  PROVE  ConsoleInv'
<1>1. StoreTyped' /\ MadeInOrder'
  BY DEF ConsoleInv, StoreTyped, MadeInOrder
<1>2. shown' = Console!Selected(page, asked)'
  <2>1. \A i : Console!At(i)' = Console!At(i)
    BY AtStays
  <2>2. Console!Selected(page, asked)' = Console!Selected(page', asked')
    BY <2>1 DEF Console!Selected, Console!Filtered, Console!Found, Console!First, Console!Copy
  <2>3. QED
    BY <2>2
<1>3. Console!ActsOnTheRowChosen'
  BY DEF Console!ActsOnTheRowChosen
<1>4. DialogIsOfARow'
  BY DEF DialogIsOfARow, Made
<1>5. DrawerIsACopy'
  BY DEF ConsoleInv, DrawerIsACopy, Made, Console!DrawerIsCurrent, Console!Copy, Console!Ambiguous
<1>6. QED
  BY <1>1, <1>2, <1>3, <1>4, <1>5 DEF ConsoleInv

\* A row is made: the next one.
LEMMA RowIsMade ==
  ASSUME ConsoleInv, NEW i \in Ids, NEW where \in {"front", "end"}, Console!Create(i, where),
         UNCHANGED <<kind, page, route, asked, dialog, drawer>>, drawer = None
  PROVE  ConsoleInv'
<1>1. PICK u \in Console!Rows :
        /\ id[u] = None /\ \A v \in 1..(u - 1) : id[v] # None
        /\ id' = [id EXCEPT ![u] = i]
        /\ order' = IF where = "front" THEN <<u>> \o order ELSE Append(order, u)
        /\ logged' = [row |-> u, chosen |-> u] /\ UNCHANGED <<status, mark>>
        /\ shown' = Console!Selected(page, asked)'
  BY DEF Console!Create, Console!logAction, Console!Notify
<1>2. /\ order \in Seq(Console!Rows) /\ Len(order) \in Nat /\ MaxRows \in Nat
      /\ id \in [Console!Rows -> Ids \cup {None}] /\ Len(order) <= MaxRows
  BY ConsoleBounds DEF ConsoleInv, StoreTyped
<1>3. u = Len(order) + 1
  <2>1. \A v \in 1..MaxRows : id[v] # None <=> v <= Len(order)
    BY DEF ConsoleInv, MadeInOrder, Console!Rows
  <2>2. u \in 1..MaxRows /\ u > Len(order)
    BY <1>1, <1>2, <2>1 DEF Console!Rows
  <2>3. ASSUME u - 1 > Len(order) PROVE FALSE
    <3>1. u - 1 \in 1..(u - 1) /\ u - 1 \in 1..MaxRows
      BY <1>2, <2>2, <2>3
    <3>2. QED
      BY <1>1, <1>2, <2>1, <2>3, <3>1
  <2>4. QED
    BY <1>2, <2>2, <2>3
<1>4. order' \in Seq(Console!Rows) /\ Len(order') = Len(order) + 1
  BY <1>1, <1>2
<1>5. \A k \in 1..Len(order') : order'[k] = u \/ \E n \in 1..Len(order) : order'[k] = order[n]
  <2>1. CASE where = "front"
    <3>1. order' = <<u>> \o order
      BY <1>1, <2>1
    <3>2. ASSUME NEW k \in 1..Len(order'), k # 1 PROVE order'[k] = order[k - 1] /\ k - 1 \in 1..Len(order)
      BY <1>2, <1>4, <3>1, <3>2
    <3>3. order'[1] = u
      BY <1>2, <3>1
    <3>4. QED
      BY <3>2, <3>3
  <2>2. CASE where = "end"
    BY <1>1, <1>2, <1>4, <2>2
  <2>3. QED
    BY <2>1, <2>2
<1>6. StoreTyped'
  BY <1>1, <1>2, <1>3, <1>4 DEF ConsoleInv, StoreTyped, Console!Rows
<1>7. /\ id'[u] = i /\ i # None /\ \A v \in Console!Rows : v # u => id'[v] = id[v]
  BY <1>1, <1>2, ConsoleBounds
<1>8. MadeInOrder'
  <2>1. ASSUME NEW v \in Console!Rows PROVE id'[v] # None <=> v <= Len(order')
    <3>1. id[v] # None <=> v <= Len(order)
      BY DEF ConsoleInv, MadeInOrder
    <3>2. QED
      BY <1>2, <1>3, <1>4, <1>7, <3>1 DEF Console!Rows
  <2>2. ASSUME NEW k \in 1..Len(order') PROVE id'[order'[k]] # None
    <3>1. \A n \in 1..Len(order) : id[order[n]] # None /\ order[n] \in Console!Rows
      BY InOrder DEF ConsoleInv, MadeInOrder
    <3>2. QED
      BY <1>1, <1>5, <1>7, <3>1
  <2>3. QED
    BY <2>1, <2>2 DEF MadeInOrder
<1>9. Console!ActsOnTheRowChosen'
  BY <1>1 DEF Console!ActsOnTheRowChosen
<1>10. PageTyped' /\ DialogIsOfARow' /\ DrawerIsACopy'
  BY <1>7 DEF ConsoleInv, PageTyped, DialogIsOfARow, DrawerIsACopy, Made
<1>11. QED
  BY <1>1, <1>6, <1>8, <1>9, <1>10 DEF ConsoleInv

-----------------------------------------------------------------------------
Operation(u) ==
    \/ \E s \in Console!Statuses : \/ Console!SetStatus(id[u], s, u)
                                   \/ \E b \in BOOLEAN : Console!setAlertStatus(id[u], s, b, u)
    \/ Console!Toggle(id[u], u) \/ Console!resetAdminMfa(id[u], u) \/ Console!assignIncident(id[u], u)
    \/ \E command \in {"LOCK", "ISOLATE"} : Console!simulateDeviceCommand(id[u], command, u)

LEMMA Operations ==
  ASSUME ConsoleInv, NEW u, Made(u), Operation(u)
  PROVE  \E s \in Console!Statuses, m \in BOOLEAN : Console!SetRow(id[u], s, m, u)
<1> DEFINE v == Console!First(id[u])
<1>1. Console!At(id[u]) # 0
  BY DEF Operation, Console!SetStatus, Console!setAlertStatus, Console!Toggle, Console!resetAdminMfa,
         Console!assignIncident, Console!simulateDeviceCommand, Console!SetRow
<1>2. v \in Console!Rows
  BY <1>1, FirstHasTheId DEF ConsoleInv, Made
<1>3. status[v] \in Console!Statuses /\ mark[v] \in BOOLEAN
  BY <1>2 DEF ConsoleInv, StoreTyped
<1>4. {"active", "suspended", "archived"} = Console!Statuses
  BY DEF Console!Statuses
<1>5. PICK s \in Console!Statuses, m \in {mark[v], TRUE, TRUE \/ mark[v], FALSE \/ mark[v]} :
        Console!SetRow(id[u], s, m, u)
  BY <1>3, <1>4 DEF Operation, Console!SetStatus, Console!setAlertStatus, Console!Toggle, Console!resetAdminMfa,
                    Console!assignIncident, Console!simulateDeviceCommand
<1>6. m \in BOOLEAN
  BY <1>3, <1>5
<1>7. QED
  BY <1>5, <1>6

\* A row is changed by a button or a dialog, from the page of its kind.
LEMMA RowActs ==
  ASSUME ConsoleInv, NEW u, Made(u), Operation(u), PageTyped', dialog' \in {None, dialog},
         drawer' = None \/ (drawer' = drawer /\ kind # "incidents")
  PROVE  ConsoleInv'
<1>1. PICK s \in Console!Statuses, m \in BOOLEAN : Console!SetRow(id[u], s, m, u)
  BY Operations
<1>2. QED
  BY <1>1, StoreChanges

LEMMA ListedAreCopies ==
  ASSUME ConsoleInv, NEW c \in Console!Copies
  PROVE  Made(c.row) /\ c \in Console!CopyOf /\ (c = Console!Copy(c.row) \/ Console!Ambiguous)
<1>1. ASSUME c \in Console!Listed PROVE Made(c.row) /\ c \in Console!CopyOf /\ c = Console!Copy(c.row)
  BY <1>1, ShownAreCopies DEF ConsoleInv, Console!Listed
<1>2. ASSUME drawer # None, c = drawer
      PROVE  Made(c.row) /\ c \in Console!CopyOf /\ (c = Console!Copy(c.row) \/ Console!Ambiguous)
  BY <1>2 DEF ConsoleInv, DrawerIsACopy, Console!DrawerIsCurrent
<1>3. QED
  BY <1>1, <1>2 DEF Console!Copies

\* Going from page to page.
LEMMA PageMounts ==
  ASSUME ConsoleInv,
         \/ Console!Leave \/ \E a \in Console!ListFilters : Console!OpenList(a)
         \/ \E i \in Ids : Console!OpenDetail(i)
         \/ \E a \in Console!ListFilters \cup Ids : Console!Readdress(a)
  PROVE  ConsoleInv'
<1>1. Console!ListFilters \subseteq Ids \cup Console!Statuses \cup {None}
  BY DEF Console!ListFilters, Console!Statuses
<1>2. ASSUME NEW p \in {"closed", "list", "detail"}, NEW a \in Ids \cup Console!Statuses \cup {None},
             Console!Mount(p, a)
      PROVE  ConsoleInv'
  <2>1. /\ UNCHANGED <<kind, order, id, status, mark>> /\ logged' = None
        /\ page' = p /\ route' = a /\ asked' = a /\ dialog' = None /\ drawer' = None
        /\ shown' = Console!Selected(p, a)
    BY <1>2 DEF Console!Mount, Console!Go, Console!store
  <2>2. PageTyped' /\ shown' = Console!Selected(page', asked')
    BY <2>1 DEF ConsoleInv, PageTyped
  <2>3. QED
    BY <2>1, <2>2, StoreRests
<1>3. ASSUME NEW a \in Console!ListFilters \cup Ids, Console!Readdress(a) PROVE ConsoleInv'
  <2>1. /\ UNCHANGED <<kind, order, id, status, mark, page, asked, shown, dialog, drawer>>
        /\ logged' = None /\ route' = a
    BY <1>3 DEF Console!Readdress, Console!store
  <2>2. PageTyped' /\ shown' = Console!Selected(page', asked')
    BY <1>1, <2>1 DEF ConsoleInv, PageTyped
  <2>3. dialog' # None => Made(dialog')
    BY <2>1 DEF ConsoleInv, DialogIsOfARow
  <2>4. QED
    BY <2>1, <2>2, <2>3, StoreRests
<1>4. QED
  BY <1>1, <1>2, <1>3 DEF Console!Leave, Console!OpenList, Console!OpenDetail

\* A dialog or a drawer opens or closes.
LEMMA LayerMoves ==
  ASSUME ConsoleInv,
         \/ Console!Cancel \/ Console!CloseDrawer
         \/ \E c \in Console!Copies : \/ Console!Ask(c) \/ Console!Inspect(c)
  PROVE  ConsoleInv'
<1>1. /\ UNCHANGED <<kind, order, id, status, mark, page, route, asked, shown>> /\ logged' = None
  BY DEF Console!Cancel, Console!CloseDrawer, Console!Ask, Console!Inspect, Console!Quiet,
         Console!store, Console!place
<1>2. PageTyped' /\ shown' = Console!Selected(page', asked')
  BY <1>1 DEF ConsoleInv, PageTyped
<1>3. dialog' # None => Made(dialog')
  BY ListedAreCopies DEF Console!Cancel, Console!CloseDrawer, Console!Ask, Console!Inspect,
                         ConsoleInv, DialogIsOfARow
<1>4. drawer' = None \/ (drawer' = drawer /\ kind' = kind) \/ DrawerIsACopy'
  <2>1. ASSUME NEW c \in Console!Copies, Console!Inspect(c) PROVE DrawerIsACopy'
    <3>1. drawer' = c /\ c \in Console!Listed /\ kind = "incidents"
      BY <2>1 DEF Console!Inspect, Console!On
    <3>2. Made(c.row) /\ c \in Console!CopyOf /\ c = Console!Copy(c.row)
      BY <3>1, ShownAreCopies DEF ConsoleInv, Console!Listed
    <3>3. drawer' = Console!Copy(drawer.row)'
      BY <1>1, <3>1, <3>2 DEF Console!Copy
    <3>4. Made(drawer.row)'
      BY <1>1, <3>1, <3>2 DEF Made
    <3>5. QED
      BY <1>1, <3>1, <3>2, <3>3, <3>4 DEF DrawerIsACopy, Console!DrawerIsCurrent
  <2>2. QED
    BY <1>1, <2>1 DEF Console!Cancel, Console!CloseDrawer, Console!Ask
<1>5. QED
  BY <1>1, <1>2, <1>3, <1>4, StoreRests

\* Buttons of a row whose click also opens its page.
LEMMA RowOpens ==
  ASSUME ConsoleInv, NEW c \in Console!Copies,
         Console!OrganizationRow(c) \/ Console!UserRow(c) \/ Console!AdminRow(c)
  PROVE  ConsoleInv'
<1>1. Made(c.row)
  BY ListedAreCopies
<1>2. /\ UNCHANGED kind /\ page' = "detail" /\ route' = id[c.row] /\ asked' = id[c.row]
      /\ dialog' = None /\ drawer' = None
  BY DEF Console!OrganizationRow, Console!UserRow, Console!AdminRow, Console!ToItsPage, Console!Go
<1>3. PageTyped'
  BY <1>1, <1>2 DEF ConsoleInv, PageTyped, StoreTyped, Made
<1>4. Console!OnlyThat \/ Operation(c.row)
  BY DEF Console!OrganizationRow, Console!UserRow, Console!AdminRow, Operation, Console!Statuses,
         Console!setOrganizationStatus, Console!setUserStatus, Console!setAdminStatus
<1>5. CASE Console!OnlyThat
  <2>1. /\ UNCHANGED <<order, id, status, mark>> /\ logged' = None
        /\ shown' = Console!Selected(page, asked)'
    BY <1>5 DEF Console!OnlyThat, Console!store, Console!Notify
  <2>2. QED
    BY <1>2, <1>3, <2>1, StoreRests
<1>6. CASE Operation(c.row)
  BY <1>1, <1>2, <1>3, <1>6, RowActs
<1>7. QED
  BY <1>4, <1>5, <1>6

\* Dialogs that ask for a reason, as the pages open them.
LEMMA RowAsks ==
  ASSUME ConsoleInv, NEW c \in Console!Copies,
         \/ Console!OrganizationHeader(c) \/ Console!UserHeader(c)
         \/ Console!DeviceRow(c) \/ Console!DeviceHeader(c)
  PROVE  ConsoleInv'
BY LayerMoves DEF Console!OrganizationHeader, Console!UserHeader, Console!DeviceRow, Console!DeviceHeader

LEMMA DialogActs ==
  ASSUME ConsoleInv,
         \/ Console!handleSuspendOrganization \/ Console!handleSuspendUser
         \/ \E command \in {"LOCK", "ISOLATE"} : Console!handleExecuteSimAction(command)
  PROVE  ConsoleInv'
<1>1. /\ dialog # None /\ dialog' = None /\ UNCHANGED <<kind, page, route, asked, drawer>>
      /\ kind # "incidents" /\ Operation(dialog)
  BY DEF Console!handleSuspendOrganization, Console!handleSuspendUser, Console!handleExecuteSimAction,
         Console!Confirm, Console!Target, Console!place, Operation, Console!Statuses,
         Console!setOrganizationStatus, Console!setUserStatus
<1>2. Made(dialog)
  BY <1>1 DEF ConsoleInv, DialogIsOfARow
<1>3. PageTyped'
  BY <1>1 DEF ConsoleInv, PageTyped
<1>4. QED
  BY <1>1, <1>2, <1>3, RowActs

\* Buttons that act at once, on pages without a drawer.
LEMMA ButtonActs ==
  ASSUME ConsoleInv, NEW c \in Console!Copies,
         \/ Console!handleReactivateOrganization(c) \/ Console!handleReactivateUser(c)
         \/ Console!PlanRow(c) \/ Console!AlertRow(c) \/ Console!InvitationRow(c)
         \/ Console!SessionRow(c) \/ Console!FlagRow(c) \/ Console!ReleaseRow(c)
  PROVE  ConsoleInv'
<1>1. Made(c.row)
  BY ListedAreCopies
<1>2. UNCHANGED <<kind, page, route, asked, dialog, drawer>> /\ kind # "incidents"
  BY DEF Console!handleReactivateOrganization, Console!handleReactivateUser, Console!PlanRow,
         Console!AlertRow, Console!InvitationRow, Console!SessionRow, Console!FlagRow,
         Console!ReleaseRow, Console!Button, Console!On, Console!Stay, Console!place
<1>3. Operation(c.row)
  BY DEF Console!handleReactivateOrganization, Console!handleReactivateUser, Console!PlanRow,
         Console!AlertRow, Console!InvitationRow, Console!SessionRow, Console!FlagRow,
         Console!ReleaseRow, Operation, Console!Statuses, Console!setOrganizationStatus,
         Console!setUserStatus, Console!updatePlan, Console!revokeInvitation, Console!revokeSession,
         Console!toggleFeatureFlag, Console!toggleAgentMinSupported
<1>4. PageTyped'
  BY <1>2 DEF ConsoleInv, PageTyped
<1>5. QED
  BY <1>1, <1>2, <1>3, <1>4, RowActs

\* Forms that make a row.
LEMMA FormActs ==
  ASSUME ConsoleInv, NEW i \in Ids,
         \/ Console!handleCreateUser(i) \/ Console!handleCreateAdmin(i) \/ Console!handleCreatePlan(i)
         \/ Console!handleCreateIncident(i) \/ Console!MaintenancePage(i) \/ Console!Onboard(i)
  PROVE  ConsoleInv'
<1>1. PICK where \in {"front", "end"} : Console!Create(i, where)
  BY DEF Console!handleCreateUser, Console!handleCreateAdmin, Console!handleCreatePlan,
         Console!handleCreateIncident, Console!MaintenancePage, Console!Onboard,
         Console!createUser, Console!createAdmin, Console!createPlan, Console!createIncident,
         Console!createMaintenanceWindow, Console!createOrganization
<1>2. UNCHANGED <<kind, page, route, asked, dialog, drawer>> /\ (drawer = None \/ kind = "organizations")
  BY DEF Console!handleCreateUser, Console!handleCreateAdmin, Console!handleCreatePlan,
         Console!handleCreateIncident, Console!MaintenancePage, Console!Onboard, Console!Form,
         Console!Stay, Console!place
<1>3. drawer = None
  BY <1>2 DEF ConsoleInv, DrawerIsACopy
<1>4. QED
  BY <1>1, <1>2, <1>3, RowIsMade

\* The drawer's own buttons change its copy as the store changes.
WithStatus(c, s) == [c EXCEPT !.status = s]
WithMark(c, b) == [c EXCEPT !.mark = b]

LEMMA CopiesAreKept ==
  ASSUME NEW c \in Console!CopyOf, NEW s \in Console!Statuses, NEW b \in BOOLEAN
  PROVE  /\ WithStatus(c, s) \in Console!CopyOf /\ WithStatus(c, s).row = c.row
         /\ WithStatus(c, s) = [row |-> c.row, status |-> s, mark |-> c.mark]
         /\ WithMark(c, b) \in Console!CopyOf /\ WithMark(c, b).row = c.row
         /\ WithMark(c, b) = [row |-> c.row, status |-> c.status, mark |-> b]
  BY DEF Console!CopyOf, WithStatus, WithMark

LEMMA IncidentActs ==
  ASSUME ConsoleInv, NEW c \in Console!Copies, Console!handleResolve(c) \/ Console!handleAssign(c)
  PROVE  ConsoleInv'
<1> DEFINE v == Console!First(id[c.row])
<1>1. Made(c.row)
  BY ListedAreCopies
<1>2. /\ UNCHANGED <<kind, page, route, asked, dialog>> /\ kind = "incidents"
      /\ Console!At(id[c.row]) # 0
  BY DEF Console!handleResolve, Console!handleAssign, Console!OnIncident, Console!Stay, Console!place,
         Console!updateIncidentStatus, Console!assignIncident, Console!SetStatus, Console!SetRow
<1>3. Made(v) /\ id[v] = id[c.row]
  BY <1>2, FirstHasTheId DEF ConsoleInv
<1>4. status[v] \in Console!Statuses /\ mark[v] \in BOOLEAN
  BY <1>3 DEF ConsoleInv, StoreTyped, Made
<1>5. PICK s \in Console!Statuses, m \in BOOLEAN :
        /\ Console!SetRow(id[c.row], s, m, c.row)
        /\ \/ m = mark[v] /\ drawer' = IF drawer # None /\ id[drawer.row] = id[c.row]
                                       THEN WithStatus(drawer, s) ELSE drawer
           \/ s = status[v] /\ drawer' = IF drawer # None /\ id[drawer.row] = id[c.row]
                                         THEN WithMark(drawer, m) ELSE drawer
  BY <1>4 DEF Console!handleResolve, Console!handleAssign, Console!updateIncidentStatus,
              Console!assignIncident, Console!SetStatus, Console!DrawerAfter, Console!Statuses,
              WithStatus, WithMark
<1> HIDE DEF v
<1>6. /\ StoreTyped' /\ MadeInOrder' /\ shown' = Console!Selected(page, asked)'
      /\ Console!ActsOnTheRowChosen' /\ UNCHANGED <<order, id>>
      /\ \/ Console!Ambiguous
         \/ status' = [status EXCEPT ![c.row] = s] /\ mark' = [mark EXCEPT ![c.row] = m]
  BY <1>1, <1>5, RowIsSet
<1>7. PageTyped' /\ DialogIsOfARow'
  BY <1>2, <1>6 DEF ConsoleInv, PageTyped, DialogIsOfARow, Made
<1>8. ASSUME drawer' # None
      PROVE  /\ drawer' \in Console!CopyOf /\ Made(drawer'.row)
             /\ drawer' = Console!Copy(drawer.row)' \/ Console!Ambiguous
  <2>1. /\ drawer # None => drawer \in Console!CopyOf /\ Made(drawer.row)
        /\ drawer # None => drawer = Console!Copy(drawer.row) \/ Console!Ambiguous
    BY DEF ConsoleInv, DrawerIsACopy, Console!DrawerIsCurrent
  <2>2. drawer # None
    BY <1>5, <1>8
  <2>3. drawer' \in Console!CopyOf /\ drawer'.row = drawer.row
    BY <1>5, <2>1, <2>2, CopiesAreKept
  <2>4. ASSUME ~Console!Ambiguous
        PROVE  drawer' = [row |-> drawer.row, status |-> status'[drawer.row], mark |-> mark'[drawer.row]]
    <3>1. /\ drawer.row \in Console!Rows /\ c.row \in Console!Rows /\ v \in Console!Rows
          /\ (id[drawer.row] = id[c.row]) <=> (drawer.row = c.row)
          /\ v = c.row
      BY <1>1, <1>3, <2>1, <2>2, <2>4 DEF Made, Console!Ambiguous
    <3>2. /\ status' = [status EXCEPT ![c.row] = s] /\ mark' = [mark EXCEPT ![c.row] = m]
          /\ drawer = [row |-> drawer.row, status |-> status[drawer.row], mark |-> mark[drawer.row]]
      BY <1>6, <2>1, <2>2, <2>4 DEF Console!Copy
    <3>3. status \in [Console!Rows -> Console!Statuses] /\ mark \in [Console!Rows -> BOOLEAN]
      BY DEF ConsoleInv, StoreTyped
    <3>4. CASE drawer.row # c.row
      BY <1>5, <3>1, <3>2, <3>3, <3>4
    <3>5. CASE drawer.row = c.row
      <4>1. status'[drawer.row] = s /\ mark'[drawer.row] = m
        BY <3>1, <3>2, <3>3, <3>5
      <4>2. drawer.status = status[v] /\ drawer.mark = mark[v]
        BY <3>1, <3>2, <3>5
      <4>3. /\ WithStatus(drawer, s) = [row |-> drawer.row, status |-> s, mark |-> drawer.mark]
            /\ WithMark(drawer, m) = [row |-> drawer.row, status |-> drawer.status, mark |-> m]
        BY <2>1, <2>2, CopiesAreKept
      <4>4. id[drawer.row] = id[c.row]
        BY <3>1, <3>5
      <4>5. CASE m = mark[v] /\ drawer' = WithStatus(drawer, s)
        <5>1. drawer' = [row |-> drawer.row, status |-> s, mark |-> m]
          BY <4>2, <4>3, <4>5
        <5>2. QED
          BY <4>1, <5>1
      <4>6. CASE s = status[v] /\ drawer' = WithMark(drawer, m)
        BY <4>1, <4>2, <4>3, <4>6
      <4>7. QED
        BY <1>5, <2>2, <4>4, <4>5, <4>6
    <3>6. QED
      BY <3>4, <3>5
  <2>5. drawer' = Console!Copy(drawer.row)' \/ Console!Ambiguous
    BY <2>3, <2>4 DEF Console!Copy
  <2>6. QED
    BY <2>1, <2>2, <2>3, <2>5
<1>9. DrawerIsACopy'
  <2>1. Console!Ambiguous => Console!Ambiguous'
    BY <1>6 DEF Console!Ambiguous
  <2>2. drawer' # None => Made(drawer.row)'
    BY <1>6, <1>8 DEF Made
  <2>3. QED
    BY <1>2, <1>8, <2>1, <2>2 DEF DrawerIsACopy, Console!DrawerIsCurrent
<1>10. QED
  BY <1>6, <1>7, <1>9 DEF ConsoleInv

LEMMA ConsoleKeeps == ConsoleInv /\ Console!Next => ConsoleInv'
BY PageMounts, LayerMoves, RowOpens, RowAsks, DialogActs, ButtonActs, FormActs, IncidentActs
   DEF Console!Next

-----------------------------------------------------------------------------
(* The security page of an account                                         *)

SecAccount == [factor : [Methods -> {"absent", "pending", "verified", "revoked"}],
               inForce : Security!Sets \cup {None}, made : 0..MaxSets, others : BOOLEAN]
SecList == [factors : SUBSET Methods, others : BOOLEAN]
SecScreen == [page : {"closed", "account", "security"}, shown : SecList \cup {None},
              panel : Methods \cup {"recovery", None}, newCodes : Security!Sets \cup {None},
              saving : BOOLEAN, enrol : {"closed", "loading", "scan", "codes", "error"},
              method : Methods \cup {None}, enrolCodes : Security!Sets \cup {None}, busy : BOOLEAN]
SecCall == [op : Security!Ops \cup {None}, arg : Methods \cup {None}, mine : BOOLEAN,
            tail : BOOLEAN, answer : Security!Answers \cup {None},
            factors : (SUBSET Methods) \cup {None}, others : BOOLEAN \cup {None},
            got : Methods \cup Security!Sets \cup {None}]

GoodScreen(s) ==
    /\ s \in SecScreen
    /\ s.page = "closed" => s = Security!Blank
    /\ s.enrol = "scan" => s.method \in Methods
    /\ s.enrol = "codes" => s.enrolCodes \in Security!Sets

\* What a call carries goes with what it asked for, and with how it went.
Sound(r) ==
    /\ r.op = None => ~r.mine
    /\ r.op \in {"verify", "remove"} => r.arg \in Methods
    /\ (r.op = "start" /\ r.answer = "ok") => r.got \in Methods
    /\ (r.op = "load" /\ r.answer = "ok") => r.factors # None /\ r.others # None
    /\ r.op \in Security!CodeOps =>
         /\ r.got \in Security!Sets \cup {None}
         /\ r.answer \in {None, "refused"} => r.got = None
         /\ r.answer = "ok" => r.got # None
         /\ r.answer = "failed" => r.got \in seen \cup {None}

\* Nobody waits on a page that is closed.
Awaited(r) == (screen.page = "closed" /\ r.op # "refresh") => ~r.mine

\* The enrolment waits for one call, which says how far it is.
Enrols(r) == r.mine /\ r.op \in {"start", "verify"}
EnrolsAt(r) == /\ Enrols(r) => IF r.op = "start" THEN screen.enrol = "loading"
                                             ELSE screen.enrol = "scan" /\ screen.busy
EnrolInv == \A c \in Security!Calls :
              /\ EnrolsAt(call[c])
              /\ Enrols(call[c]) => \A d \in Security!Calls \ {c} : ~Enrols(call[d])

\* While writers do not overlap, the codes on screen or on their way are in force,
\* and old ones are off the screen while new ones are asked for.
Writes(r) == r.op \in Security!CodeOps
ScreenCodes ==
    /\ screen.enrol = "codes" => screen.enrolCodes = account.inForce
    /\ screen.newCodes # None => screen.newCodes = account.inForce /\ screen.enrol = "closed"
CallCodes(r) == /\ screen.newCodes = None /\ screen.enrol # "codes"
                /\ r.answer = "ok" => r.got = account.inForce
CodesInv == crossed \/ /\ ScreenCodes
                       /\ \A c \in Security!Calls : Writes(call[c]) =>
                            /\ CallCodes(call[c])
                            /\ \A d \in Security!Calls \ {c} : ~Writes(call[d])

\* A list is current, or the page is told to load it again, or will have to say
\* that it was not told.
Tells(r) == \/ r.op = "load" /\ r.mine
            \/ r.op \in Security!ListOps \cup {"verify", "password"} /\ r.answer = "ok"
Told(c) == screen.enrol = "codes" \/ \E d \in Security!Calls \ {c} : Tells(call[d])
Lists(r) == /\ r.factors # None => r.factors = Security!Verified
            /\ r.others # None => r.others = account.others
ListsInv == untold \/ /\ screen.shown # None => Lists(screen.shown) \/ Told(0)
                      /\ \A c \in Security!Calls :
                           (call[c].op = "load" /\ call[c].mine) => Lists(call[c]) \/ Told(c)

SecTypes == /\ account \in SecAccount /\ GoodScreen(screen) /\ call \in [Security!Calls -> SecCall]
            /\ seen \subseteq Security!Sets /\ crossed \in BOOLEAN /\ untold \in BOOLEAN
CallsInv == \A c \in Security!Calls : Sound(call[c]) /\ Awaited(call[c])

SecInv == SecTypes /\ CallsInv /\ EnrolInv /\ CodesInv /\ Security!CodesNotForgotten /\ ListsInv

LEMMA SecBounds ==
  /\ MaxSets \in Nat /\ MaxCalls \in Nat /\ None \notin Methods /\ None \notin Security!Sets
  /\ None \notin BOOLEAN /\ None \notin Security!Ops /\ None \notin Security!Answers
  /\ \A S \in SUBSET Methods : S # None
  BY PagesBounds DEF Security!Bounds

LEMMA SecHolds == SecInv => /\ Security!TypeOK /\ Security!ListsAreCurrent
                            /\ Security!CodesShownAreCurrent /\ Security!CodesNotForgotten
<1> SUFFICES ASSUME SecInv PROVE /\ Security!TypeOK /\ Security!ListsAreCurrent
                                 /\ Security!CodesShownAreCurrent
  BY DEF SecInv
<1>1. Security!TypeOK
  <2>1. account \in SecAccount /\ screen \in SecScreen /\ seen \subseteq Security!Sets
    BY DEF SecInv, SecTypes, GoodScreen
  <2>2. ASSUME NEW c \in Security!Calls PROVE call[c].op \in Security!Ops \cup {None}
    BY DEF SecInv, SecTypes, SecCall
  <2>3. /\ account.factor \in [Methods -> {"absent", "pending", "verified", "revoked"}]
        /\ account.inForce \in Security!Sets \cup {None} /\ account.made \in 0..MaxSets
        /\ account.others \in BOOLEAN
    BY <2>1 DEF SecAccount
  <2>4. /\ screen.page \in {"closed", "account", "security"}
        /\ screen.panel \in Methods \cup {"recovery", None}
        /\ screen.newCodes \in Security!Sets \cup {None}
        /\ screen.enrolCodes \in Security!Sets \cup {None}
        /\ screen.enrol \in {"closed", "loading", "scan", "codes", "error"}
        /\ screen.method \in Methods \cup {None}
        /\ screen.saving \in BOOLEAN /\ screen.busy \in BOOLEAN
    BY <2>1 DEF SecScreen
  <2>5. QED
    BY <2>1, <2>2, <2>3, <2>4 DEF Security!TypeOK
<1>2. Security!CodesShownAreCurrent
  BY DEF SecInv, CodesInv, ScreenCodes, Security!CodesShownAreCurrent, Security!Visible,
         Security!EnrolmentCodes, Security!RegeneratedCodes
<1>3. Security!ListsAreCurrent
  <2> SUFFICES ASSUME Security!Quiet, screen.shown # None, screen.enrol = "closed", ~untold
               PROVE  screen.shown = [factors |-> Security!Verified, others |-> account.others]
    BY DEF Security!ListsAreCurrent
  <2>1. ~Told(0)
    BY SecBounds DEF Told, Tells, Security!Quiet, Security!InFlight, Security!Ops, Security!CodeOps,
                     Security!ListOps
  <2>2. Lists(screen.shown)
    BY <2>1 DEF SecInv, ListsInv
  <2>3. screen.shown \in SecList
    BY DEF SecInv, SecTypes, GoodScreen, SecScreen
  <2>4. /\ screen.shown = [factors |-> screen.shown.factors, others |-> screen.shown.others]
        /\ screen.shown.factors \in SUBSET Methods /\ screen.shown.others \in BOOLEAN
    BY <2>3 DEF SecList
  <2>5. screen.shown.factors # None /\ screen.shown.others # None
    BY <2>4, SecBounds
  <2>6. QED
    BY <2>2, <2>4, <2>5 DEF Lists
<1>4. QED
  BY <1>1, <1>2, <1>3

LEMMA SecBlank == /\ GoodScreen(Security!Blank) /\ Security!Blank.page = "closed"
                  /\ Security!Blank.shown = None /\ Security!Blank.panel = None
                  /\ Security!Blank.newCodes = None /\ Security!Blank.enrol = "closed"
  BY DEF GoodScreen, Security!Blank, SecScreen

LEMMA SecFree == /\ Security!Free \in SecCall /\ Security!Free.op = None /\ ~Security!Free.mine
                 /\ Security!Free.got = None
  BY DEF SecCall, Security!Free

LEMMA SecStart == Security!Init => SecInv
<1> SUFFICES ASSUME Security!Init PROVE SecInv
  OBVIOUS
<1>1. /\ account = [factor |-> [m \in Methods |-> "absent"], inForce |-> None, made |-> 0, others |-> TRUE]
      /\ screen = Security!Blank /\ call = [c \in Security!Calls |-> Security!Free]
      /\ seen = {} /\ crossed = FALSE /\ untold = FALSE
  BY DEF Security!Init
<1>2. account \in SecAccount /\ account.inForce = None
  BY <1>1, SecBounds DEF SecAccount
<1>3. SecTypes
  BY <1>1, <1>2, SecBlank, SecFree DEF SecTypes
<1>4. \A c \in Security!Calls : call[c] = Security!Free
  BY <1>1
<1>5. None \notin Security!Ops
  BY SecBounds
<1>6. CallsInv
  BY <1>4, <1>5, SecFree DEF CallsInv, Sound, Awaited, Security!Ops, Security!CodeOps, Security!ListOps
<1>7. EnrolInv
  BY <1>4, SecFree DEF EnrolInv, EnrolsAt, Enrols
<1>8. CodesInv
  BY <1>1, <1>4, <1>5, SecBlank, SecFree DEF CodesInv, ScreenCodes, Writes, Security!Ops, Security!CodeOps
<1>9. Security!CodesNotForgotten
  BY <1>2 DEF Security!CodesNotForgotten
<1>10. ListsInv
  BY <1>1, <1>4, SecBlank, SecFree DEF ListsInv
<1>11. QED
  BY <1>3, <1>6, <1>7, <1>8, <1>9, <1>10 DEF SecInv

-----------------------------------------------------------------------------
\* The frames: what a step of one call must do to each part of the invariant.
LEMMA OneSecCall ==
  ASSUME SecInv, NEW c \in Security!Calls, NEW r \in SecCall, call' = [call EXCEPT ![c] = r]
  PROVE  /\ call' \in [Security!Calls -> SecCall] /\ call'[c] = r
         /\ \A d \in Security!Calls : d # c => call'[d] = call[d]
  BY DEF SecInv, SecTypes

LEMMA CallsFrame ==
  ASSUME SecInv, NEW c \in Security!Calls, NEW r \in SecCall, call' = [call EXCEPT ![c] = r],
         seen \subseteq seen', screen'.page = screen.page, Sound(r)', Awaited(r)'
  PROVE  CallsInv'
<1>1. call'[c] = r /\ \A d \in Security!Calls : d # c => call'[d] = call[d]
  BY OneSecCall
<1>2. ASSUME NEW d \in Security!Calls PROVE Sound(call[d])' /\ Awaited(call[d])'
  <2>1. Sound(call[d]) /\ Awaited(call[d])
    BY DEF SecInv, CallsInv
  <2>2. CASE d = c
    BY <1>1, <2>2 DEF Sound, Awaited
  <2>3. CASE d # c
    BY <1>1, <2>1, <2>3 DEF Sound, Awaited
  <2>4. QED
    BY <2>2, <2>3
<1>3. QED
  BY <1>2 DEF CallsInv, Sound, Awaited

LEMMA EnrolFrame ==
  ASSUME SecInv, NEW c \in Security!Calls, NEW r \in SecCall, call' = [call EXCEPT ![c] = r],
         screen'.enrol = screen.enrol, screen'.busy <=> screen.busy,
         Enrols(r) => Enrols(call[c]) /\ r.op = call[c].op
  PROVE  EnrolInv'
<1>1. call'[c] = r /\ \A d \in Security!Calls : d # c => call'[d] = call[d]
  BY OneSecCall
<1>2. \A d \in Security!Calls : Enrols(call'[d]) => Enrols(call[d]) /\ call'[d].op = call[d].op
  BY <1>1
<1>3. ASSUME NEW d \in Security!Calls PROVE EnrolsAt(call[d])'
  <2>1. EnrolsAt(call[d])
    BY DEF SecInv, EnrolInv
  <2>2. Enrols(call'[d]) => Enrols(call[d]) /\ call'[d].op = call[d].op
    BY <1>2
  <2>3. QED
    BY <2>1, <2>2 DEF EnrolsAt, Enrols
<1>4. \A d, e \in Security!Calls : d # e => ~(Enrols(call'[d]) /\ Enrols(call'[e]))
  BY <1>2 DEF SecInv, EnrolInv
<1>5. QED
  BY <1>3, <1>4 DEF EnrolInv, Enrols

LEMMA CodesFrame ==
  ASSUME SecInv, NEW c \in Security!Calls, NEW r \in SecCall, call' = [call EXCEPT ![c] = r],
         account'.inForce = account.inForce, screen'.newCodes = screen.newCodes,
         screen'.enrol = screen.enrol, screen'.enrolCodes = screen.enrolCodes, crossed' = crossed,
         Writes(r) => Writes(call[c]) /\ (r.answer = "ok" => r.got = account.inForce)
  PROVE  CodesInv'
<1>1. call'[c] = r /\ \A d \in Security!Calls : d # c => call'[d] = call[d]
  BY OneSecCall
<1>2. CASE ~crossed
  <2>1. \A d \in Security!Calls : Writes(call'[d]) => Writes(call[d])
    BY <1>1
  <2>2. /\ ScreenCodes
        /\ \A d \in Security!Calls : Writes(call[d]) =>
             CallCodes(call[d]) /\ \A e \in Security!Calls \ {d} : ~Writes(call[e])
    BY <1>2 DEF SecInv, CodesInv
  <2>3. ScreenCodes'
    BY <2>2 DEF ScreenCodes
  <2>4. ASSUME NEW d \in Security!Calls, Writes(call'[d])
        PROVE  CallCodes(call[d])' /\ \A e \in Security!Calls \ {d} : ~Writes(call'[e])
    <3>1. CallCodes(call[d]) /\ \A e \in Security!Calls \ {d} : ~Writes(call[e])
      BY <2>1, <2>2, <2>4
    <3>2. call'[d].answer = "ok" => call'[d].got = account.inForce
      BY <1>1, <2>4, <3>1 DEF CallCodes
    <3>3. QED
      BY <2>1, <3>1, <3>2 DEF CallCodes
  <2>5. QED
    BY <2>3, <2>4 DEF CodesInv, Writes
<1>3. QED
  BY <1>2 DEF CodesInv

LEMMA CodesStayKnown ==
  ASSUME SecInv, NEW c \in Security!Calls, NEW r \in SecCall, call' = [call EXCEPT ![c] = r],
         account'.inForce = account.inForce, seen \subseteq seen', crossed => crossed',
         (Writes(call[c]) /\ call[c].got \notin seen' \cup {None})
            => crossed' \/ (Writes(r) /\ r.got = call[c].got)
  PROVE  Security!CodesNotForgotten'
<1>1. call'[c] = r /\ \A d \in Security!Calls : d # c => call'[d] = call[d]
  BY OneSecCall
<1>2. Security!CodesNotForgotten
  BY DEF SecInv
<1>3. CASE crossed' \/ account.inForce \in seen' \cup {None}
  BY <1>3 DEF Security!CodesNotForgotten
<1>4. CASE ~crossed' /\ account.inForce \notin seen' \cup {None}
  <2>1. PICK d \in Security!Calls : Writes(call[d]) /\ call[d].got = account.inForce
    BY <1>2, <1>4 DEF Security!CodesNotForgotten, Writes
  <2>2. Writes(call'[d]) /\ call'[d].got = account.inForce
    BY <1>1, <1>4, <2>1
  <2>3. QED
    BY <2>2 DEF Security!CodesNotForgotten, Writes
<1>5. QED
  BY <1>3, <1>4

\* The lists of the account stay, and with them what is current.
LEMMA ListsFrame ==
  ASSUME SecInv, NEW c \in Security!Calls, NEW r \in SecCall, call' = [call EXCEPT ![c] = r],
         untold => untold',
         \/ untold'
         \/ Tells(r) /\ (r.op = "load" => r.factors = None /\ r.others = None)
         \/ /\ Security!Verified' = Security!Verified /\ account'.others = account.others
            /\ screen'.shown = screen.shown
            /\ screen'.enrol = "codes" \/ (screen.enrol # "codes" /\ (Tells(call[c]) => Tells(r)))
            /\ (r.op = "load" /\ r.mine) =>
                  \/ Lists(r)
                  \/ call[c].op = "load" /\ call[c].mine /\ (Lists(call[c]) => Lists(r))
  PROVE  ListsInv'
<1>1. call'[c] = r /\ \A d \in Security!Calls : d # c => call'[d] = call[d]
  BY OneSecCall
<1>2. CASE untold'
  BY <1>2 DEF ListsInv
<1>3. CASE Tells(r) /\ (r.op = "load" => r.factors = None /\ r.others = None)
  <2>1. c \in Security!Calls \ {0}
    BY DEF Security!Calls
  <2>2. Told(0)'
    BY <1>1, <1>3, <2>1 DEF Told, Tells
  <2>3. \A d \in Security!Calls : d # c => Told(d)'
    BY <1>1, <1>3 DEF Told, Tells
  <2>4. call'[c].op = "load" => Lists(call[c])'
    BY <1>1, <1>3 DEF Lists
  <2>5. QED
    BY <2>2, <2>3, <2>4 DEF ListsInv
<1>4. CASE /\ ~untold'
           /\ Security!Verified' = Security!Verified /\ account'.others = account.others
           /\ screen'.shown = screen.shown
           /\ screen'.enrol = "codes" \/ (screen.enrol # "codes" /\ (Tells(call[c]) => Tells(r)))
           /\ (r.op = "load" /\ r.mine) =>
                 \/ Lists(r)
                 \/ call[c].op = "load" /\ call[c].mine /\ (Lists(call[c]) => Lists(r))
  <2>1. \A d \in Security!Calls : Tells(call[d]) => Tells(call'[d]) \/ screen'.enrol = "codes"
    BY <1>1, <1>4
  <2>2. ASSUME NEW e, Told(e) PROVE Told(e)'
    BY <1>4, <2>1, <2>2 DEF Told, Tells
  <2>3. \A x : Lists(x)' <=> Lists(x)
    BY <1>4 DEF Lists
  <2>4. /\ screen.shown # None => Lists(screen.shown) \/ Told(0)
        /\ \A d \in Security!Calls :
             (call[d].op = "load" /\ call[d].mine) => Lists(call[d]) \/ Told(d)
    BY <1>4 DEF SecInv, ListsInv
  <2>5. screen'.shown # None => Lists(screen.shown)' \/ Told(0)'
    BY <1>4, <2>2, <2>4 DEF Lists
  <2>6. ASSUME NEW d \in Security!Calls, call'[d].op = "load", call'[d].mine
        PROVE  Lists(call[d])' \/ Told(d)'
    <3>1. Lists(call'[d]) \/ Told(d)
      BY <1>1, <1>4, <2>4, <2>6
    <3>2. QED
      BY <1>4, <2>2, <3>1 DEF Lists
  <2>7. QED
    BY <2>5, <2>6 DEF ListsInv
<1>5. QED
  BY <1>2, <1>3, <1>4

-----------------------------------------------------------------------------
\* The screen after a step, field by field.
SavingAs(s, b) == [s EXCEPT !.saving = b]
PanelAs(s, p) == [s EXCEPT !.panel = p]
BusyAs(s, b) == [s EXCEPT !.busy = b]
CodesDone(s) == [s EXCEPT !.panel = None, !.newCodes = None]
EnrolOpened(s) == [s EXCEPT !.enrol = "loading", !.panel = None, !.newCodes = None]
EnrolClosed(s) == [s EXCEPT !.enrol = "closed", !.method = None, !.enrolCodes = None, !.busy = FALSE]
EnrolFailed(s) == [s EXCEPT !.enrol = "error"]
ScanAs(s, m) == [s EXCEPT !.enrol = "scan", !.method = m]
EnrolCodesAs(s, n) == [s EXCEPT !.enrol = "codes", !.enrolCodes = n, !.busy = FALSE]
NewCodesAs(s, n) == [s EXCEPT !.newCodes = n]
ShownAs(s, l) == [s EXCEPT !.shown = l]

SameEnrol(t, s) == t.enrol = s.enrol /\ (t.busy <=> s.busy)
SameCodes(t, s) == t.newCodes = s.newCodes /\ t.enrolCodes = s.enrolCodes
SamePage(t, s) == t.page = s.page /\ t.shown = s.shown
Aside(t, s) == GoodScreen(t) /\ SamePage(t, s) /\ SameCodes(t, s) /\ SameEnrol(t, s)

LEMMA AsideItself == ASSUME NEW s, GoodScreen(s) PROVE Aside(s, s)
  BY DEF Aside, SamePage, SameCodes, SameEnrol

LEMMA ScreenAside ==
  ASSUME NEW s, GoodScreen(s), s.page # "closed"
  PROVE  /\ \A b \in BOOLEAN : Aside(SavingAs(s, b), s)
         /\ \A p \in Methods \cup {"recovery", None} : Aside(PanelAs(s, p), s)
<1>1. ASSUME NEW b \in BOOLEAN PROVE Aside(SavingAs(s, b), s)
  <2>1. GoodScreen(SavingAs(s, b))
    BY DEF GoodScreen, SecScreen, SavingAs
  <2>2. SamePage(SavingAs(s, b), s) /\ SameCodes(SavingAs(s, b), s) /\ SavingAs(s, b).enrol = s.enrol
    BY DEF GoodScreen, SecScreen, SavingAs, SamePage, SameCodes
  <2>3. SavingAs(s, b).busy <=> s.busy
    BY DEF GoodScreen, SecScreen, SavingAs
  <2>4. QED
    BY <2>1, <2>2, <2>3 DEF Aside, SameEnrol
<1>2. ASSUME NEW p \in Methods \cup {"recovery", None} PROVE Aside(PanelAs(s, p), s)
  BY DEF PanelAs, Aside, GoodScreen, SecScreen, SamePage, SameCodes, SameEnrol
<1>3. QED
  BY <1>1, <1>2

LEMMA ScreenBusy ==
  ASSUME NEW s, GoodScreen(s), s.page # "closed", NEW b \in BOOLEAN
  PROVE  /\ GoodScreen(BusyAs(s, b)) /\ SamePage(BusyAs(s, b), s) /\ SameCodes(BusyAs(s, b), s)
         /\ BusyAs(s, b).enrol = s.enrol /\ (BusyAs(s, b).busy <=> b)
<1>1. GoodScreen(BusyAs(s, b))
  BY DEF BusyAs, GoodScreen, SecScreen
<1>2. /\ SamePage(BusyAs(s, b), s) /\ SameCodes(BusyAs(s, b), s) /\ BusyAs(s, b).enrol = s.enrol
  BY DEF BusyAs, GoodScreen, SecScreen, SamePage, SameCodes
<1>3. BusyAs(s, b).busy <=> b
  BY DEF BusyAs, GoodScreen, SecScreen
<1>4. QED
  BY <1>1, <1>2, <1>3

LEMMA ScreenCleared ==
  ASSUME NEW s, GoodScreen(s), s.page # "closed"
  PROVE  /\ GoodScreen(CodesDone(s)) /\ SamePage(CodesDone(s), s) /\ SameEnrol(CodesDone(s), s)
         /\ CodesDone(s).newCodes = None /\ CodesDone(s).enrolCodes = s.enrolCodes
         /\ GoodScreen(EnrolOpened(s)) /\ SamePage(EnrolOpened(s), s)
         /\ EnrolOpened(s).enrol = "loading" /\ EnrolOpened(s).newCodes = None
         /\ GoodScreen(EnrolClosed(s)) /\ SamePage(EnrolClosed(s), s)
         /\ EnrolClosed(s).enrol = "closed" /\ EnrolClosed(s).newCodes = s.newCodes
         /\ GoodScreen(EnrolFailed(s)) /\ SamePage(EnrolFailed(s), s)
         /\ EnrolFailed(s).enrol = "error" /\ EnrolFailed(s).newCodes = s.newCodes
<1> USE DEF GoodScreen, SecScreen, SamePage, SameEnrol
<1>1. /\ GoodScreen(CodesDone(s)) /\ SamePage(CodesDone(s), s) /\ SameEnrol(CodesDone(s), s)
      /\ CodesDone(s).newCodes = None /\ CodesDone(s).enrolCodes = s.enrolCodes
  <2>1. GoodScreen(CodesDone(s))
    BY DEF CodesDone
  <2>2. CodesDone(s).busy <=> s.busy
    BY DEF CodesDone
  <2>3. /\ SamePage(CodesDone(s), s) /\ CodesDone(s).enrol = s.enrol
        /\ CodesDone(s).newCodes = None /\ CodesDone(s).enrolCodes = s.enrolCodes
    BY DEF CodesDone
  <2>4. QED
    BY <2>1, <2>2, <2>3
<1>2. /\ GoodScreen(EnrolOpened(s)) /\ SamePage(EnrolOpened(s), s)
      /\ EnrolOpened(s).enrol = "loading" /\ EnrolOpened(s).newCodes = None
  BY DEF EnrolOpened
<1>3. /\ GoodScreen(EnrolClosed(s)) /\ SamePage(EnrolClosed(s), s)
      /\ EnrolClosed(s).enrol = "closed" /\ EnrolClosed(s).newCodes = s.newCodes
  BY DEF EnrolClosed
<1>4. /\ GoodScreen(EnrolFailed(s)) /\ SamePage(EnrolFailed(s), s)
      /\ EnrolFailed(s).enrol = "error" /\ EnrolFailed(s).newCodes = s.newCodes
  BY DEF EnrolFailed
<1>5. QED
  BY <1>1, <1>2, <1>3, <1>4

LEMMA ScreenScans ==
  ASSUME NEW s, GoodScreen(s), s.page # "closed", NEW m \in Methods
  PROVE  /\ GoodScreen(ScanAs(s, m)) /\ SamePage(ScanAs(s, m), s) /\ SameCodes(ScanAs(s, m), s)
         /\ ScanAs(s, m).enrol = "scan"
  BY DEF ScanAs, GoodScreen, SecScreen, SamePage, SameCodes

LEMMA ScreenFilled ==
  ASSUME NEW s, GoodScreen(s), s.page # "closed", NEW n \in Security!Sets
  PROVE  /\ GoodScreen(EnrolCodesAs(s, n)) /\ SamePage(EnrolCodesAs(s, n), s)
         /\ EnrolCodesAs(s, n).enrol = "codes" /\ EnrolCodesAs(s, n).enrolCodes = n
         /\ EnrolCodesAs(s, n).newCodes = s.newCodes
         /\ GoodScreen(NewCodesAs(s, n)) /\ SamePage(NewCodesAs(s, n), s) /\ SameEnrol(NewCodesAs(s, n), s)
         /\ NewCodesAs(s, n).newCodes = n /\ NewCodesAs(s, n).enrolCodes = s.enrolCodes
<1>1. /\ GoodScreen(EnrolCodesAs(s, n)) /\ SamePage(EnrolCodesAs(s, n), s)
      /\ EnrolCodesAs(s, n).enrol = "codes" /\ EnrolCodesAs(s, n).enrolCodes = n
      /\ EnrolCodesAs(s, n).newCodes = s.newCodes
  BY DEF EnrolCodesAs, GoodScreen, SecScreen, SamePage
<1>2. /\ GoodScreen(NewCodesAs(s, n)) /\ SamePage(NewCodesAs(s, n), s) /\ SameEnrol(NewCodesAs(s, n), s)
      /\ NewCodesAs(s, n).newCodes = n /\ NewCodesAs(s, n).enrolCodes = s.enrolCodes
  BY DEF NewCodesAs, GoodScreen, SecScreen, SamePage, SameEnrol
<1>3. QED
  BY <1>1, <1>2

LEMMA ScreenLists ==
  ASSUME NEW s, GoodScreen(s), s.page # "closed", NEW l \in SecList
  PROVE  /\ GoodScreen(ShownAs(s, l)) /\ ShownAs(s, l).page = s.page /\ ShownAs(s, l).shown = l
         /\ SameCodes(ShownAs(s, l), s) /\ SameEnrol(ShownAs(s, l), s)
  BY DEF ShownAs, GoodScreen, SecScreen, SameEnrol, SameCodes

-----------------------------------------------------------------------------
\* The page asks.
LEMMA MineIsOpen ==
  ASSUME SecInv, NEW c \in Security!Calls, call[c].mine, call[c].op # "refresh"
  PROVE  screen.page # "closed"
  BY DEF SecInv, CallsInv, Awaited

LEMMA SecRequest ==
  ASSUME NEW op \in Security!Ops, NEW arg \in Methods \cup {None}, NEW b \in BOOLEAN
  PROVE  /\ Security!Request(op, arg, b) \in SecCall
         /\ Security!Request(op, arg, b).op = op /\ Security!Request(op, arg, b).arg = arg
         /\ Security!Request(op, arg, b).mine
         /\ Security!Request(op, arg, b).answer = None /\ Security!Request(op, arg, b).got = None
         /\ Security!Request(op, arg, b).factors = None /\ Security!Request(op, arg, b).others = None
<1> DEFINE q == Security!Request(op, arg, b)
<1>1. q \in SecCall
  BY DEF Security!Request, Security!Free, SecCall
<1>2. q.mine
  BY DEF Security!Request, Security!Free
<1>3. /\ q.op = op /\ q.arg = arg /\ q.answer = None /\ q.got = None
      /\ q.factors = None /\ q.others = None
  BY DEF Security!Request, Security!Free
<1>4. QED
  BY <1>1, <1>2, <1>3

LEMMA SecSends ==
  ASSUME SecInv, NEW c \in Security!Calls, NEW op \in Security!Ops, NEW arg \in Methods \cup {None},
         NEW b \in BOOLEAN, Security!Send(c, op, arg, b), op \in {"verify", "remove"} => arg \in Methods
  PROVE  /\ call[c].op = None /\ crossed' \in BOOLEAN /\ (crossed => crossed')
         /\ op \notin Security!CodeOps => crossed' = crossed
         /\ (op \in Security!CodeOps /\ ~crossed') => \A d \in Security!Calls : ~Writes(call[d])
         /\ \E r \in SecCall :
              /\ call' = [call EXCEPT ![c] = r] /\ r.op = op /\ r.mine /\ r.answer = None
              /\ r.got = None /\ r.factors = None /\ r.others = None /\ Sound(r)'
<1> DEFINE q == Security!Request(op, arg, b)
<1>1. /\ call[c].op = None /\ call' = [call EXCEPT ![c] = q]
      /\ crossed' = (crossed \/ (op \in Security!CodeOps /\ Security!CodesAwaited))
  BY DEF Security!Send, Security!InFlight
<1>2. /\ q \in SecCall /\ q.op = op /\ q.arg = arg /\ q.mine /\ q.answer = None
      /\ q.got = None /\ q.factors = None /\ q.others = None
  BY SecRequest
<1> HIDE DEF q
<1>3. PICK r \in SecCall : r = q
  BY <1>2
<1>4. None \notin Security!Answers /\ None \notin Security!Ops
  BY SecBounds
<1>5. Sound(r)'
  BY <1>2, <1>3, <1>4 DEF Sound, Security!Answers
<1>6. crossed' \in BOOLEAN /\ (crossed => crossed') /\ (op \notin Security!CodeOps => crossed' = crossed)
  BY <1>1 DEF SecInv, SecTypes
<1>7. (op \in Security!CodeOps /\ ~crossed') => \A d \in Security!Calls : ~Writes(call[d])
  BY <1>1 DEF Security!CodesAwaited, Writes
<1>8. QED
  BY <1>1, <1>2, <1>3, <1>5, <1>6, <1>7

LEMMA SecLoads ==
  ASSUME SecInv, NEW c \in Security!Calls,
         Security!Send(c, "load", None, TRUE) \/ Security!Send(c, "load", None, FALSE)
  PROVE  /\ call[c].op = None /\ crossed' = crossed
         /\ \E r \in SecCall :
              /\ call' = [call EXCEPT ![c] = r] /\ r.op = "load" /\ r.mine /\ r.answer = None
              /\ r.got = None /\ r.factors = None /\ r.others = None /\ Sound(r)'
<1>1. PICK op \in Security!Ops, arg \in Methods \cup {None}, b \in BOOLEAN :
        op = "load" /\ arg = None /\ Security!Send(c, op, arg, b)
  BY DEF Security!Ops
<1>2. op \notin {"verify", "remove"} /\ op \notin Security!CodeOps
  BY <1>1 DEF Security!CodeOps
<1>3. /\ call[c].op = None /\ crossed' = crossed
      /\ \E r \in SecCall :
           /\ call' = [call EXCEPT ![c] = r] /\ r.op = op /\ r.mine /\ r.answer = None
           /\ r.got = None /\ r.factors = None /\ r.others = None /\ Sound(r)'
  BY <1>1, <1>2, SecSends
<1>4. QED
  BY <1>1, <1>3

LEMMA VisibleAreSets == ASSUME NEW s, GoodScreen(s) PROVE Security!Visible(s) \subseteq Security!Sets
  BY DEF GoodScreen, SecScreen, Security!Visible, Security!EnrolmentCodes, Security!RegeneratedCodes

\* Buttons that leave what the page shows alone.
LEMMA SecPresses ==
  ASSUME SecInv, NEW c \in Security!Calls, NEW op \in Security!ListOps \cup {"password"},
         NEW arg \in Methods \cup {None}, NEW b \in BOOLEAN,
         Security!Send(c, op, arg, b), op = "remove" => arg \in Methods,
         op = "regenerate" => screen.newCodes = None /\ screen.enrol = "closed",
         UNCHANGED <<account, untold>>, Aside(screen', screen), screen.page # "closed",
         seen' = seen \cup Security!Visible(screen')
  PROVE  SecInv'
<1>1. op \in Security!Ops /\ op \notin {"verify", "start", "load"}
  BY DEF Security!Ops, Security!ListOps
<1>2. /\ call[c].op = None /\ crossed' \in BOOLEAN /\ (crossed => crossed')
      /\ op \notin Security!CodeOps => crossed' = crossed
      /\ (op \in Security!CodeOps /\ ~crossed') => \A d \in Security!Calls : ~Writes(call[d])
  BY <1>1, SecSends
<1>3. PICK r \in SecCall :
        /\ call' = [call EXCEPT ![c] = r] /\ r.op = op /\ r.mine /\ r.answer = None
        /\ r.got = None /\ r.factors = None /\ r.others = None /\ Sound(r)'
  BY <1>1, SecSends
<1>4. /\ call' \in [Security!Calls -> SecCall] /\ call'[c] = r
      /\ \A d \in Security!Calls : d # c => call'[d] = call[d]
  BY <1>3, OneSecCall
<1>5. None \notin Security!Ops /\ None \notin Security!Answers
  BY SecBounds
<1>6. /\ GoodScreen(screen') /\ screen'.page = screen.page /\ screen'.shown = screen.shown
      /\ screen'.newCodes = screen.newCodes /\ screen'.enrolCodes = screen.enrolCodes
      /\ screen'.enrol = screen.enrol /\ (screen'.busy <=> screen.busy)
  BY DEF Aside, SamePage, SameCodes, SameEnrol
<1>7. SecTypes'
  BY <1>2, <1>4, <1>6, VisibleAreSets DEF SecInv, SecTypes
<1>8. CallsInv'
  <2>1. Awaited(r)'
    BY <1>3, <1>6 DEF Awaited
  <2>2. QED
    BY <1>3, <1>6, <2>1, CallsFrame
<1>9. EnrolInv'
  BY <1>1, <1>3, <1>6, EnrolFrame DEF Enrols
<1>10. CodesInv'
  <2>1. CASE op # "regenerate"
    <3>1. ~Writes(r) /\ crossed' = crossed
      BY <1>1, <1>2, <1>3, <2>1 DEF Writes, Security!CodeOps
    <3>2. QED
      BY <1>3, <1>6, <3>1, CodesFrame
  <2>2. CASE op = "regenerate" /\ ~crossed'
    <3>1. \A d \in Security!Calls : ~Writes(call[d])
      BY <1>2, <2>2 DEF Security!CodeOps
    <3>2. ScreenCodes'
      BY <1>2, <1>6, <2>2 DEF SecInv, CodesInv, ScreenCodes
    <3>3. CallCodes(r)'
      BY <1>3, <1>5, <1>6, <2>2 DEF CallCodes, Security!Answers
    <3>4. QED
      BY <1>4, <3>1, <3>2, <3>3 DEF CodesInv, Writes, CallCodes
  <2>3. QED
    BY <2>1, <2>2 DEF CodesInv
<1>11. Security!CodesNotForgotten'
  <2>1. ~Writes(call[c])
    BY <1>2, <1>5 DEF Writes, Security!Ops
  <2>2. QED
    BY <1>2, <1>3, <2>1, CodesStayKnown
<1>12. ListsInv'
  <2>1. ~Tells(call[c])
    BY <1>2, <1>5 DEF Tells, Security!Ops, Security!CodeOps, Security!ListOps
  <2>2. Security!Verified' = Security!Verified
    BY DEF Security!Verified
  <2>3. QED
    BY <1>1, <1>3, <1>6, <2>1, <2>2, ListsFrame
<1>13. QED
  BY <1>7, <1>8, <1>9, <1>10, <1>11, <1>12 DEF SecInv

LEMMA SecPressed ==
  ASSUME SecInv, NEW c \in Security!Calls, seen' = seen \cup Security!Visible(screen'),
         \/ Security!revokeSession(c) \/ Security!revokeOthers(c) \/ Security!PersonalRevoke(c)
         \/ Security!PersonalRevokeOthers(c) \/ Security!removeMethod(c) \/ Security!regenerateCodes(c)
         \/ Security!PasswordSection(c) \/ Security!PasswordCard(c)
  PROVE  SecInv'
<1>1. GoodScreen(screen) /\ (screen.page = "closed" => screen.panel = None)
  BY SecBlank DEF SecInv, SecTypes, GoodScreen
<1>2. screen.page # "closed"
  BY <1>1 DEF Security!revokeSession, Security!revokeOthers, Security!PersonalRevoke,
              Security!PersonalRevokeOthers, Security!PersonalOthersListed, Security!removeMethod,
              Security!regenerateCodes, Security!PanelShown, Security!PasswordSection,
              Security!PasswordCard, Security!ChangePassword
<1>3. ASSUME NEW op \in Security!ListOps, NEW arg \in Methods \cup {None}, NEW b \in BOOLEAN,
             Security!Press(c, op, arg, b), op = "remove" => arg \in Methods,
             op = "regenerate" => screen.newCodes = None /\ screen.enrol = "closed"
      PROVE  SecInv'
  <2>1. Security!Send(c, op, arg, b) /\ UNCHANGED <<account, untold>> /\ screen' = screen
    BY <1>3 DEF Security!Press
  <2>2. Aside(screen', screen)
    BY <1>1, <2>1, AsideItself
  <2>3. QED
    BY <1>2, <1>3, <2>1, <2>2, SecPresses
<1>4. ASSUME NEW p, Security!ChangePassword(c, p) PROVE SecInv'
  <2>1. Security!Send(c, "password", None, FALSE) /\ UNCHANGED <<account, untold>>
    BY <1>4 DEF Security!ChangePassword
  <2>2. screen' = SavingAs(screen, TRUE)
    BY <1>4 DEF Security!ChangePassword, SavingAs
  <2>3. Aside(screen', screen)
    BY <1>1, <1>2, <2>2, ScreenAside
  <2>4. QED
    BY <1>2, <2>1, <2>3, SecPresses
<1>5. CASE Security!revokeSession(c) \/ Security!PersonalRevoke(c)
  BY <1>3, <1>5 DEF Security!revokeSession, Security!PersonalRevoke, Security!ListOps
<1>6. CASE Security!revokeOthers(c) \/ Security!PersonalRevokeOthers(c)
  BY <1>3, <1>6 DEF Security!revokeOthers, Security!PersonalRevokeOthers, Security!ListOps
<1>7. CASE Security!removeMethod(c)
  BY <1>3, <1>7 DEF Security!removeMethod, Security!ListOps
<1>8. CASE Security!regenerateCodes(c)
  BY <1>3, <1>8 DEF Security!regenerateCodes, Security!PanelShown, Security!ListOps
<1>9. CASE Security!PasswordSection(c) \/ Security!PasswordCard(c)
  BY <1>4, <1>9 DEF Security!PasswordSection, Security!PasswordCard
<1>10. QED
  BY <1>5, <1>6, <1>7, <1>8, <1>9

\* The page opens, over what the last visit has in flight.
LEMMA SecOpens ==
  ASSUME SecInv, NEW c \in Security!Calls, NEW p \in {"account", "security"}, Security!Open(c, p),
         seen' = seen \cup Security!Visible(screen')
  PROVE  SecInv'
<1>1. /\ screen.page = "closed" /\ screen' = [Security!Blank EXCEPT !.page = p]
      /\ Security!Send(c, "load", None, FALSE) /\ untold' = FALSE /\ account' = account
  BY DEF Security!Open
<1>2. None \notin Security!Ops /\ "load" \in Security!Ops /\ "load" \notin Security!CodeOps
  BY SecBounds DEF Security!Ops, Security!CodeOps
<1>3. PICK r \in SecCall :
        /\ call' = [call EXCEPT ![c] = r] /\ r.op = "load" /\ r.mine /\ r.answer = None
        /\ r.got = None /\ r.factors = None /\ r.others = None /\ Sound(r)'
  BY <1>1, SecLoads
<1>4. crossed' = crossed /\ call[c].op = None
  BY <1>1, SecLoads
<1>5. /\ call' \in [Security!Calls -> SecCall] /\ call'[c] = r
      /\ \A d \in Security!Calls : d # c => call'[d] = call[d]
  BY <1>3, OneSecCall
<1>6. /\ GoodScreen(screen') /\ screen'.page # "closed" /\ screen'.shown = None
      /\ screen'.newCodes = None /\ screen'.enrol = "closed"
  BY <1>1 DEF GoodScreen, SecScreen, Security!Blank
<1>7. \A d \in Security!Calls : call[d].op # "refresh" => ~call[d].mine
  BY <1>1, MineIsOpen
<1>8. SecTypes'
  BY <1>1, <1>4, <1>5, <1>6, VisibleAreSets DEF SecInv, SecTypes
<1>9. CallsInv'
  <2>1. \A d \in Security!Calls : Sound(call[d])
    BY DEF SecInv, CallsInv
  <2>2. ASSUME NEW d \in Security!Calls PROVE Sound(call[d])' /\ Awaited(call[d])'
    <3>1. CASE d = c
      BY <1>3, <1>5, <1>6, <3>1 DEF Sound, Awaited
    <3>2. CASE d # c
      BY <1>1, <1>5, <1>6, <2>1, <3>2 DEF Sound, Awaited
    <3>3. QED
      BY <3>1, <3>2
  <2>3. QED
    BY <2>2 DEF CallsInv
<1>10. EnrolInv'
  <2>1. \A d \in Security!Calls : ~Enrols(call'[d])
    BY <1>3, <1>5, <1>7 DEF Enrols
  <2>2. QED
    BY <2>1 DEF EnrolInv, EnrolsAt, Enrols
<1>11. CodesInv'
  <2>1. \A d \in Security!Calls : Writes(call'[d]) => Writes(call[d]) /\ call'[d] = call[d]
    BY <1>2, <1>3, <1>5 DEF Writes
  <2>2. CASE ~crossed
    <3>1. ASSUME NEW d \in Security!Calls, Writes(call'[d])
          PROVE  CallCodes(call[d])' /\ \A e \in Security!Calls \ {d} : ~Writes(call'[e])
      <4>1. CallCodes(call[d]) /\ \A e \in Security!Calls \ {d} : ~Writes(call[e])
        BY <2>1, <2>2, <3>1 DEF SecInv, CodesInv
      <4>2. QED
        BY <1>1, <1>6, <2>1, <3>1, <4>1 DEF CallCodes
    <3>2. QED
      BY <1>6, <3>1 DEF CodesInv, ScreenCodes, Writes
  <2>3. QED
    BY <1>4, <2>2 DEF CodesInv
<1>12. Security!CodesNotForgotten'
  <2>1. ~Writes(call[c])
    BY <1>2, <1>4 DEF Writes, Security!Ops
  <2>2. QED
    BY <1>1, <1>3, <1>4, <2>1, CodesStayKnown
<1>13. ListsInv'
  <2>1. ASSUME NEW d \in Security!Calls, call'[d].op = "load", call'[d].mine PROVE Lists(call[d])'
    BY <1>3, <1>5, <1>7, <2>1 DEF Lists
  <2>2. QED
    BY <1>6, <2>1 DEF ListsInv
<1>14. QED
  BY <1>8, <1>9, <1>10, <1>11, <1>12, <1>13 DEF SecInv

\* An enrolment opens, over whatever else the section shows.
LEMMA EnrolmentOpens ==
  ASSUME SecInv, NEW c \in Security!Calls, NEW p \in {"account", "security"},
         Security!OpenEnrolment(c, p), seen' = seen \cup Security!Visible(screen')
  PROVE  SecInv'
<1>1. /\ screen.page = p /\ screen.enrol = "closed" /\ screen' = EnrolOpened(screen)
      /\ Security!Send(c, "start", None, FALSE) /\ UNCHANGED <<account, untold>>
  BY DEF Security!OpenEnrolment, Security!EnrolmentOpened, EnrolOpened
<1>2. None \notin Security!Ops /\ "start" \in Security!Ops /\ "start" \notin Security!CodeOps
  BY SecBounds DEF Security!Ops, Security!CodeOps
<1>3. PICK r \in SecCall :
        /\ call' = [call EXCEPT ![c] = r] /\ r.op = "start" /\ r.mine /\ r.answer = None
        /\ r.got = None /\ r.factors = None /\ r.others = None /\ Sound(r)'
  BY <1>1, <1>2, SecSends
<1>4. crossed' = crossed /\ call[c].op = None
  BY <1>1, <1>2, SecSends
<1>5. /\ call' \in [Security!Calls -> SecCall] /\ call'[c] = r
      /\ \A d \in Security!Calls : d # c => call'[d] = call[d]
  BY <1>3, OneSecCall
<1>6. /\ GoodScreen(screen') /\ screen'.page = screen.page /\ screen'.shown = screen.shown
      /\ screen'.enrol = "loading" /\ screen'.newCodes = None
  BY <1>1, ScreenCleared DEF SecInv, SecTypes, SamePage
<1>7. SecTypes'
  BY <1>1, <1>4, <1>5, <1>6, VisibleAreSets DEF SecInv, SecTypes
<1>8. CallsInv'
  <2>1. Awaited(r)'
    BY <1>1, <1>3, <1>6 DEF Awaited
  <2>2. QED
    BY <1>3, <1>6, <2>1, CallsFrame
<1>9. EnrolInv'
  <2>1. \A d \in Security!Calls : ~Enrols(call[d])
    BY <1>1 DEF SecInv, EnrolInv, EnrolsAt, Enrols
  <2>2. \A d \in Security!Calls : d # c => ~Enrols(call'[d])
    BY <1>5, <2>1
  <2>3. EnrolsAt(call[c])'
    BY <1>3, <1>5, <1>6 DEF EnrolsAt
  <2>4. QED
    BY <2>2, <2>3 DEF EnrolInv, EnrolsAt, Enrols
<1>10. CodesInv'
  <2>1. CASE ~crossed
    <3>1. ASSUME NEW d \in Security!Calls, Writes(call'[d])
          PROVE  CallCodes(call[d])' /\ \A e \in Security!Calls \ {d} : ~Writes(call'[e])
      <4>1. d # c /\ Writes(call[d])
        BY <1>2, <1>3, <1>5, <3>1 DEF Writes
      <4>2. CallCodes(call[d]) /\ \A e \in Security!Calls \ {d} : ~Writes(call[e])
        BY <2>1, <4>1 DEF SecInv, CodesInv
      <4>3. CallCodes(call[d])'
        BY <1>1, <1>5, <1>6, <4>1, <4>2 DEF CallCodes
      <4>4. QED
        BY <1>2, <1>3, <1>5, <4>2, <4>3 DEF Writes
    <3>2. ScreenCodes'
      BY <1>6 DEF ScreenCodes
    <3>3. QED
      BY <3>1, <3>2 DEF CodesInv, Writes
  <2>2. QED
    BY <1>4, <2>1 DEF CodesInv
<1>11. Security!CodesNotForgotten'
  <2>1. ~Writes(call[c])
    BY <1>2, <1>4 DEF Writes, Security!Ops
  <2>2. QED
    BY <1>1, <1>3, <1>4, <2>1, CodesStayKnown
<1>12. ListsInv'
  <2>1. ~Tells(call[c])
    BY <1>2, <1>4 DEF Tells, Security!Ops, Security!CodeOps, Security!ListOps
  <2>2. Security!Verified' = Security!Verified
    BY <1>1 DEF Security!Verified
  <2>3. QED
    BY <1>1, <1>3, <1>6, <2>1, <2>2, ListsFrame
<1>13. QED
  BY <1>7, <1>8, <1>9, <1>10, <1>11, <1>12 DEF SecInv

\* The code of the new factor goes out.
LEMMA EnrolmentVerifies ==
  ASSUME SecInv, NEW c \in Security!Calls, Security!onVerify(c), seen' = seen \cup Security!Visible(screen')
  PROVE  SecInv'
<1>1. /\ screen.enrol = "scan" /\ ~screen.busy /\ screen' = BusyAs(screen, TRUE)
      /\ Security!Send(c, "verify", screen.method, FALSE) /\ UNCHANGED <<account, untold>>
  BY DEF Security!onVerify, BusyAs
<1>2. /\ None \notin Security!Ops /\ None \notin Security!Answers
      /\ "verify" \in Security!Ops /\ "verify" \in Security!CodeOps
  BY SecBounds DEF Security!Ops, Security!CodeOps
<1>3. screen.page # "closed" /\ screen.method \in Methods
  BY <1>1, SecBlank DEF SecInv, SecTypes, GoodScreen
<1>4. PICK r \in SecCall :
        /\ call' = [call EXCEPT ![c] = r] /\ r.op = "verify" /\ r.mine /\ r.answer = None
        /\ r.got = None /\ r.factors = None /\ r.others = None /\ Sound(r)'
  BY <1>1, <1>2, <1>3, SecSends
<1>5. /\ call[c].op = None /\ crossed' \in BOOLEAN /\ (crossed => crossed')
      /\ ~crossed' => \A d \in Security!Calls : ~Writes(call[d])
  BY <1>1, <1>2, <1>3, SecSends
<1>6. /\ call' \in [Security!Calls -> SecCall] /\ call'[c] = r
      /\ \A d \in Security!Calls : d # c => call'[d] = call[d]
  BY <1>4, OneSecCall
<1>7. /\ GoodScreen(screen') /\ screen'.page = screen.page /\ screen'.shown = screen.shown
      /\ screen'.newCodes = screen.newCodes /\ screen'.enrol = "scan" /\ screen'.busy
  BY <1>1, <1>3, ScreenBusy DEF SecInv, SecTypes, SamePage, SameCodes
<1>8. SecTypes'
  BY <1>1, <1>5, <1>6, <1>7, VisibleAreSets DEF SecInv, SecTypes
<1>9. CallsInv'
  <2>1. Awaited(r)'
    BY <1>3, <1>4, <1>7 DEF Awaited
  <2>2. QED
    BY <1>4, <1>7, <2>1, CallsFrame
<1>10. EnrolInv'
  <2>1. \A d \in Security!Calls : ~Enrols(call[d])
    BY <1>1 DEF SecInv, EnrolInv, EnrolsAt, Enrols
  <2>2. \A d \in Security!Calls : d # c => ~Enrols(call'[d])
    BY <1>6, <2>1
  <2>3. EnrolsAt(call[c])'
    BY <1>4, <1>6, <1>7 DEF EnrolsAt
  <2>4. QED
    BY <2>2, <2>3 DEF EnrolInv, EnrolsAt, Enrols
<1>11. CodesInv'
  <2>1. CASE ~crossed'
    <3>1. ScreenCodes /\ \A d \in Security!Calls : ~Writes(call[d])
      BY <1>5, <2>1 DEF SecInv, CodesInv
    <3>2. screen'.newCodes = None
      BY <1>1, <1>7, <3>1 DEF ScreenCodes
    <3>3. ScreenCodes' /\ CallCodes(call[c])'
      BY <1>2, <1>4, <1>6, <1>7, <3>2 DEF ScreenCodes, CallCodes, Security!Answers
    <3>4. \A d \in Security!Calls : d # c => ~Writes(call'[d])
      BY <1>6, <3>1
    <3>5. QED
      BY <3>3, <3>4 DEF CodesInv, Writes, CallCodes
  <2>2. QED
    BY <2>1 DEF CodesInv
<1>12. Security!CodesNotForgotten'
  <2>1. ~Writes(call[c])
    BY <1>2, <1>5 DEF Writes, Security!Ops
  <2>2. QED
    BY <1>1, <1>4, <1>5, <2>1, CodesStayKnown
<1>13. ListsInv'
  <2>1. ~Tells(call[c])
    BY <1>2, <1>5 DEF Tells, Security!Ops, Security!CodeOps, Security!ListOps
  <2>2. Security!Verified' = Security!Verified
    BY <1>1 DEF Security!Verified
  <2>3. QED
    BY <1>1, <1>4, <1>7, <2>1, <2>2, ListsFrame
<1>14. QED
  BY <1>8, <1>9, <1>10, <1>11, <1>12, <1>13 DEF SecInv

\* The new codes are saved: the enrolment closes and the list is loaded.
LEMMA EnrolmentCompletes ==
  ASSUME SecInv, NEW c \in Security!Calls, Security!CompleteEnrolment(c),
         seen' = seen \cup Security!Visible(screen')
  PROVE  SecInv'
<1>1. /\ screen.enrol = "codes" /\ screen' = EnrolClosed(screen)
      /\ Security!Send(c, "load", None, TRUE) /\ UNCHANGED <<account, untold>>
  BY DEF Security!CompleteEnrolment, Security!EnrolmentClosed, EnrolClosed
<1>2. None \notin Security!Ops /\ "load" \in Security!Ops /\ "load" \notin Security!CodeOps
  BY SecBounds DEF Security!Ops, Security!CodeOps
<1>3. screen.page # "closed"
  BY <1>1, SecBlank DEF SecInv, SecTypes, GoodScreen
<1>4. PICK r \in SecCall :
        /\ call' = [call EXCEPT ![c] = r] /\ r.op = "load" /\ r.mine /\ r.answer = None
        /\ r.got = None /\ r.factors = None /\ r.others = None /\ Sound(r)'
  BY <1>1, SecLoads
<1>5. crossed' = crossed /\ call[c].op = None
  BY <1>1, SecLoads
<1>6. /\ call' \in [Security!Calls -> SecCall] /\ call'[c] = r
      /\ \A d \in Security!Calls : d # c => call'[d] = call[d]
  BY <1>4, OneSecCall
<1>7. /\ GoodScreen(screen') /\ screen'.page = screen.page
      /\ screen'.enrol = "closed" /\ screen'.newCodes = screen.newCodes
  BY <1>1, <1>3, ScreenCleared DEF SecInv, SecTypes, SamePage
<1>8. SecTypes'
  BY <1>1, <1>5, <1>6, <1>7, VisibleAreSets DEF SecInv, SecTypes
<1>9. CallsInv'
  <2>1. Awaited(r)'
    BY <1>3, <1>4, <1>7 DEF Awaited
  <2>2. QED
    BY <1>4, <1>7, <2>1, CallsFrame
<1>10. EnrolInv'
  <2>1. \A d \in Security!Calls : ~Enrols(call[d])
    BY <1>1 DEF SecInv, EnrolInv, EnrolsAt, Enrols
  <2>2. \A d \in Security!Calls : ~Enrols(call'[d])
    BY <1>4, <1>6, <2>1 DEF Enrols
  <2>3. QED
    BY <2>2 DEF EnrolInv, EnrolsAt, Enrols
<1>11. CodesInv'
  <2>1. CASE ~crossed
    <3>1. screen.newCodes = None /\ \A d \in Security!Calls : ~Writes(call[d])
      BY <1>1, <2>1 DEF SecInv, CodesInv, ScreenCodes, CallCodes
    <3>2. \A d \in Security!Calls : ~Writes(call'[d])
      BY <1>2, <1>4, <1>6, <3>1 DEF Writes
    <3>3. QED
      BY <1>7, <3>1, <3>2 DEF CodesInv, ScreenCodes, Writes
  <2>2. QED
    BY <1>5, <2>1 DEF CodesInv
<1>12. Security!CodesNotForgotten'
  <2>1. ~Writes(call[c])
    BY <1>2, <1>5 DEF Writes, Security!Ops
  <2>2. QED
    BY <1>1, <1>4, <1>5, <2>1, CodesStayKnown
<1>13. ListsInv'
  <2>1. Tells(r)
    BY <1>4 DEF Tells
  <2>2. QED
    BY <1>1, <1>4, <2>1, ListsFrame
<1>14. QED
  BY <1>8, <1>9, <1>10, <1>11, <1>12, <1>13 DEF SecInv

-----------------------------------------------------------------------------
\* Panels open and close, and codes are put away: no call is made or ends.
LEMMA SecShows ==
  ASSUME SecInv, UNCHANGED <<account, call, crossed, untold>>, GoodScreen(screen'),
         SamePage(screen', screen), SameEnrol(screen', screen),
         screen'.newCodes \in {screen.newCodes, None}, screen'.enrolCodes = screen.enrolCodes,
         seen' = seen \cup Security!Visible(screen')
  PROVE  SecInv'
<1>1. /\ account' = account /\ call' = call /\ crossed' = crossed /\ untold' = untold
      /\ screen'.page = screen.page /\ screen'.shown = screen.shown
      /\ screen'.enrol = screen.enrol /\ (screen'.busy <=> screen.busy)
  BY DEF SamePage, SameEnrol
<1>2. SecTypes'
  BY <1>1, VisibleAreSets DEF SecInv, SecTypes
<1>3. CallsInv'
  <2>1. ASSUME NEW d \in Security!Calls PROVE Sound(call[d])' /\ Awaited(call[d])'
    <3>1. Sound(call[d]) /\ Awaited(call[d])
      BY DEF SecInv, CallsInv
    <3>2. QED
      BY <1>1, <3>1 DEF Sound, Awaited
  <2>2. QED
    BY <2>1 DEF CallsInv
<1>4. EnrolInv'
  <2>1. ASSUME NEW d \in Security!Calls PROVE EnrolsAt(call[d])'
    <3>1. EnrolsAt(call[d])
      BY DEF SecInv, EnrolInv
    <3>2. QED
      BY <1>1, <3>1 DEF EnrolsAt, Enrols
  <2>2. QED
    BY <1>1, <2>1 DEF SecInv, EnrolInv, Enrols
<1>5. CodesInv'
  BY <1>1 DEF SecInv, CodesInv, ScreenCodes, CallCodes, Writes
<1>6. Security!CodesNotForgotten'
  BY <1>1 DEF SecInv, Security!CodesNotForgotten
<1>7. ListsInv'
  BY <1>1 DEF SecInv, ListsInv, Lists, Told, Tells, Security!Verified
<1>8. QED
  BY <1>2, <1>3, <1>4, <1>5, <1>6, <1>7 DEF SecInv

LEMMA SecShown ==
  ASSUME SecInv, seen' = seen \cup Security!Visible(screen'),
         \/ Security!CancelPanel \/ Security!CodesSaved
         \/ \E what \in Methods \cup {"recovery"} : Security!AskPassword(what)
  PROVE  SecInv'
<1>1. GoodScreen(screen)
  BY DEF SecInv, SecTypes
<1>2. ASSUME NEW p \in Methods \cup {"recovery", None}, Security!Show(PanelAs(screen, p)),
             screen.page # "closed"
      PROVE  SecInv'
  <2>1. UNCHANGED <<account, call, crossed, untold>> /\ screen' = PanelAs(screen, p)
    BY <1>2 DEF Security!Show
  <2>2. Aside(screen', screen)
    BY <1>1, <1>2, <2>1, ScreenAside
  <2>3. QED
    BY <2>1, <2>2, SecShows DEF Aside, SameCodes
<1>3. CASE Security!CancelPanel
  <2>1. Security!Show(PanelAs(screen, None)) /\ screen.panel # None
    BY <1>3 DEF Security!CancelPanel, Security!PanelShown, PanelAs
  <2>2. screen.page # "closed"
    BY <1>1, <2>1, SecBlank DEF GoodScreen
  <2>3. QED
    BY <1>2, <2>1, <2>2
<1>4. CASE Security!CodesSaved
  <2>1. /\ UNCHANGED <<account, call, crossed, untold>> /\ screen' = CodesDone(screen)
        /\ screen.newCodes # None
    BY <1>4 DEF Security!CodesSaved, Security!Show, Security!RegeneratedCodes, CodesDone
  <2>2. screen.page # "closed"
    BY <1>1, <2>1, SecBlank DEF GoodScreen
  <2>3. /\ GoodScreen(screen') /\ SamePage(screen', screen) /\ SameEnrol(screen', screen)
        /\ screen'.newCodes = None /\ screen'.enrolCodes = screen.enrolCodes
    BY <1>1, <2>1, <2>2, ScreenCleared
  <2>4. QED
    BY <2>1, <2>3, SecShows
<1>5. CASE \E what \in Methods \cup {"recovery"} : Security!AskPassword(what)
  <2>1. PICK what \in Methods \cup {"recovery"} : Security!AskPassword(what)
    BY <1>5
  <2>2. Security!Show(PanelAs(screen, what)) /\ screen.page # "closed"
    BY <2>1 DEF Security!AskPassword, Security!MethodsListed, PanelAs
  <2>3. QED
    BY <1>2, <2>2
<1>6. QED
  BY <1>3, <1>4, <1>5

-----------------------------------------------------------------------------
\* Whoever waited has gone; the calls go on.
SameCall(r, q) == /\ r.op = q.op /\ r.arg = q.arg /\ r.answer = q.answer
                  /\ r.factors = q.factors /\ r.others = q.others /\ r.got = q.got

OrphanOf(r, b) == [r EXCEPT !.mine = b]

LEMMA OrphanIsSame ==
  ASSUME NEW r \in SecCall, NEW b \in BOOLEAN
  PROVE  OrphanOf(r, b) \in SecCall /\ SameCall(OrphanOf(r, b), r) /\ (OrphanOf(r, b).mine <=> b)
<1>1. OrphanOf(r, b) \in SecCall
  BY DEF SecCall, OrphanOf
<1>2. SameCall(OrphanOf(r, b), r)
  BY DEF SecCall, OrphanOf, SameCall
<1>3. OrphanOf(r, b).mine <=> b
  BY DEF SecCall, OrphanOf
<1>4. QED
  BY <1>1, <1>2, <1>3

LEMMA Orphans ==
  ASSUME SecInv, NEW ops
  PROVE  /\ Security!Orphaned(ops) \in [Security!Calls -> SecCall]
         /\ \A d \in Security!Calls :
              /\ SameCall(Security!Orphaned(ops)[d], call[d])
              /\ Security!Orphaned(ops)[d].mine <=> (call[d].mine /\ call[d].op \notin ops)
<1>1. ASSUME NEW d \in Security!Calls
      PROVE  /\ Security!Orphaned(ops)[d] \in SecCall /\ SameCall(Security!Orphaned(ops)[d], call[d])
             /\ Security!Orphaned(ops)[d].mine <=> (call[d].mine /\ call[d].op \notin ops)
  <2>1. call[d] \in SecCall
    BY DEF SecInv, SecTypes
  <2>2. PICK b \in BOOLEAN : b <=> (call[d].mine /\ call[d].op \notin ops)
    BY Zenon
  <2>3. Security!Orphaned(ops)[d] = OrphanOf(call[d], call[d].mine /\ call[d].op \notin ops)
    BY DEF Security!Orphaned, OrphanOf
  <2>4. Security!Orphaned(ops)[d] = OrphanOf(call[d], b)
    BY <2>2, <2>3
  <2>5. QED
    BY <2>1, <2>2, <2>4, OrphanIsSame
<1>2. Security!Orphaned(ops) = [d \in Security!Calls |-> Security!Orphaned(ops)[d]]
  BY DEF Security!Orphaned
<1>3. QED
  BY <1>1, <1>2

\* The page closes: nobody waits for anything any more.
LEMMA PageCloses ==
  ASSUME SecInv, screen' = Security!Blank, UNCHANGED <<account, crossed, untold>>,
         seen \subseteq seen', seen' \subseteq Security!Sets, call' \in [Security!Calls -> SecCall],
         \A d \in Security!Calls : /\ ~call'[d].mine
                                   /\ \/ SameCall(call'[d], call[d])
                                      \/ call'[d] = Security!Free /\ (Writes(call[d]) => call[d].got = None)
  PROVE  SecInv'
<1>1. /\ account' = account /\ crossed' = crossed /\ untold' = untold
      /\ GoodScreen(screen') /\ screen'.page = "closed" /\ screen'.shown = None
      /\ screen'.newCodes = None /\ screen'.enrol = "closed"
  BY SecBlank
<1>2. None \notin Security!Ops /\ None \notin Security!CodeOps
  BY SecBounds DEF Security!Ops
<1>3. SecTypes'
  BY <1>1 DEF SecInv, SecTypes
<1>4. CallsInv'
  <2>1. ASSUME NEW d \in Security!Calls PROVE Sound(call[d])'
    <3>1. Sound(call[d])
      BY DEF SecInv, CallsInv
    <3>2. CASE SameCall(call'[d], call[d])
      BY <3>1, <3>2 DEF Sound, SameCall
    <3>3. CASE call'[d] = Security!Free
      BY <1>2, <3>3, SecFree DEF Sound, Security!Ops, Security!CodeOps, Security!ListOps
    <3>4. QED
      BY <3>2, <3>3
  <2>2. QED
    BY <1>1, <2>1 DEF CallsInv, Awaited
<1>5. EnrolInv'
  BY DEF EnrolInv, EnrolsAt, Enrols
<1>6. \A d \in Security!Calls : Writes(call'[d]) => Writes(call[d]) /\ SameCall(call'[d], call[d])
  BY <1>2, SecFree DEF Writes, SameCall
<1>7. CodesInv'
  <2>1. CASE ~crossed
    <3>1. ASSUME NEW d \in Security!Calls, Writes(call'[d])
          PROVE  CallCodes(call[d])' /\ \A e \in Security!Calls \ {d} : ~Writes(call'[e])
      <4>1. CallCodes(call[d]) /\ \A e \in Security!Calls \ {d} : ~Writes(call[e])
        BY <1>6, <2>1, <3>1 DEF SecInv, CodesInv
      <4>2. QED
        BY <1>1, <1>6, <3>1, <4>1 DEF CallCodes, SameCall
    <3>2. QED
      BY <1>1, <3>1 DEF CodesInv, ScreenCodes, Writes
  <2>2. QED
    BY <1>1, <2>1 DEF CodesInv
<1>8. Security!CodesNotForgotten'
  <2>1. CASE \E d \in Security!Calls : Writes(call[d]) /\ call[d].got = account.inForce
    <3>1. PICK d \in Security!Calls : Writes(call[d]) /\ call[d].got = account.inForce
      BY <2>1
    <3>2. account'.inForce = None \/ (Writes(call'[d]) /\ call'[d].got = account'.inForce)
      BY <1>1, <3>1 DEF SameCall, Writes
    <3>3. QED
      BY <3>2 DEF Security!CodesNotForgotten, Writes
  <2>2. QED
    BY <1>1, <2>1 DEF SecInv, Security!CodesNotForgotten, Writes
<1>9. ListsInv'
  BY <1>1 DEF ListsInv
<1>10. QED
  BY <1>3, <1>4, <1>5, <1>7, <1>8, <1>9 DEF SecInv

LEMMA AllOrphaned ==
  ASSUME SecInv
  PROVE  \A d \in Security!Calls : ~Security!Orphaned(Security!Ops)[d].mine
<1> SUFFICES ASSUME NEW d \in Security!Calls PROVE ~Security!Orphaned(Security!Ops)[d].mine
  OBVIOUS
<1>1. call[d].op \in Security!Ops \cup {None} /\ (call[d].op = None => ~call[d].mine)
  BY DEF SecInv, SecTypes, CallsInv, Sound, SecCall
<1>2. Security!Orphaned(Security!Ops)[d].mine <=> (call[d].mine /\ call[d].op \notin Security!Ops)
  BY Orphans
<1>3. QED
  BY <1>1, <1>2

LEMMA SecAway == ASSUME SecInv, Security!Away, seen' = seen \cup Security!Visible(screen') PROVE SecInv'
<1>1. /\ screen' = Security!Blank /\ call' = Security!Orphaned(Security!Ops)
      /\ UNCHANGED <<account, crossed, untold>>
  BY DEF Security!Away
<1>2. seen' \subseteq Security!Sets
  BY <1>1, SecBlank, VisibleAreSets DEF SecInv, SecTypes
<1>3. QED
  BY <1>1, <1>2, Orphans, AllOrphaned, PageCloses

LEMMA SecSignedOut == ASSUME SecInv, NEW c \in Security!Calls, Security!SignedOut(c) PROVE SecInv'
<1>1. /\ screen' = Security!Blank
      /\ call' = [Security!Orphaned(Security!Ops) EXCEPT ![c] = Security!Free]
      /\ UNCHANGED <<account, crossed, untold>> /\ seen' = seen
      /\ call[c].answer = "refused" \/ call[c].op = "refresh"
  BY DEF Security!SignedOut, Security!Settled
<1>2. PICK o \in [Security!Calls -> SecCall] : o = Security!Orphaned(Security!Ops)
  BY Orphans
<1>3. \A d \in Security!Calls : SameCall(o[d], call[d]) /\ ~o[d].mine
  BY <1>2, Orphans, AllOrphaned
<1>4. call' = [o EXCEPT ![c] = Security!Free]
  BY <1>1, <1>2
<1>5. call' \in [Security!Calls -> SecCall] /\ call'[c] = Security!Free
  BY <1>4, SecFree
<1>6. \A d \in Security!Calls : d # c => call'[d] = o[d]
  BY <1>4
<1>7. Writes(call[c]) => call[c].got = None
  BY <1>1 DEF SecInv, CallsInv, Sound, Writes, Security!CodeOps
<1>8. \A d \in Security!Calls : ~call'[d].mine
  BY <1>3, <1>5, <1>6, SecFree
<1>9. ASSUME NEW d \in Security!Calls
      PROVE  \/ SameCall(call'[d], call[d])
             \/ call'[d] = Security!Free /\ (Writes(call[d]) => call[d].got = None)
  BY <1>3, <1>5, <1>6, <1>7
<1>10. seen' \subseteq Security!Sets
  BY <1>1 DEF SecInv, SecTypes
<1>11. QED
  BY <1>1, <1>5, <1>8, <1>9, <1>10, PageCloses

\* The X of the enrolment.
LEMMA EnrolmentCancels ==
  ASSUME SecInv, Security!CancelEnrolment, seen' = seen \cup Security!Visible(screen')
  PROVE  SecInv'
<1>1. /\ screen.enrol \in {"loading", "scan", "error"} /\ screen' = EnrolClosed(screen)
      /\ call' = Security!Orphaned({"start", "verify"})
      /\ account' = account /\ crossed' = crossed /\ untold' = untold
  BY DEF Security!CancelEnrolment, Security!EnrolmentClosed, EnrolClosed
<1>2. /\ call' \in [Security!Calls -> SecCall]
      /\ \A d \in Security!Calls :
           SameCall(call'[d], call[d]) /\ (call'[d].mine <=> call[d].mine /\ call[d].op \notin {"start", "verify"})
  BY <1>1, Orphans
<1>3. screen.page # "closed"
  BY <1>1, SecBlank DEF SecInv, SecTypes, GoodScreen
<1>4. /\ GoodScreen(screen') /\ screen'.page = screen.page /\ screen'.shown = screen.shown
      /\ screen'.enrol = "closed" /\ screen'.newCodes = screen.newCodes
  BY <1>1, <1>3, ScreenCleared DEF SecInv, SecTypes, SamePage
<1>5. SecTypes'
  BY <1>1, <1>2, <1>4, VisibleAreSets DEF SecInv, SecTypes
<1>6. CallsInv'
  <2>1. ASSUME NEW d \in Security!Calls PROVE Sound(call[d])' /\ Awaited(call[d])'
    <3>1. Sound(call[d]) /\ Awaited(call[d])
      BY DEF SecInv, CallsInv
    <3>2. SameCall(call'[d], call[d]) /\ (call'[d].mine <=> call[d].mine /\ call[d].op \notin {"start", "verify"})
      BY <1>2
    <3>3. Sound(call[d])'
      BY <3>1, <3>2 DEF Sound, SameCall
    <3>4. Awaited(call[d])'
      BY <1>3, <1>4, <3>1, <3>2 DEF Awaited, SameCall, Security!ListOps
    <3>5. QED
      BY <3>3, <3>4
  <2>2. QED
    BY <2>1 DEF CallsInv
<1>7. EnrolInv'
  <2>1. \A d \in Security!Calls : ~Enrols(call'[d])
    BY <1>2 DEF Enrols, SameCall
  <2>2. QED
    BY <2>1 DEF EnrolInv, EnrolsAt, Enrols
<1>8. CodesInv'
  <2>1. CASE ~crossed
    <3>1. /\ ScreenCodes
          /\ \A d \in Security!Calls : Writes(call[d]) =>
               CallCodes(call[d]) /\ \A e \in Security!Calls \ {d} : ~Writes(call[e])
      BY <2>1 DEF SecInv, CodesInv
    <3>2. ScreenCodes'
      BY <1>1, <1>4, <3>1 DEF ScreenCodes
    <3>3. \A d \in Security!Calls : Writes(call'[d]) <=> Writes(call[d])
      BY <1>2 DEF Writes, SameCall
    <3>4. ASSUME NEW d \in Security!Calls, Writes(call'[d])
          PROVE  CallCodes(call[d])' /\ \A e \in Security!Calls \ {d} : ~Writes(call'[e])
      BY <1>1, <1>2, <1>4, <3>1, <3>3, <3>4 DEF CallCodes, SameCall
    <3>5. QED
      BY <3>2, <3>4 DEF CodesInv, Writes
  <2>2. QED
    BY <1>1, <2>1 DEF CodesInv
<1>9. Security!CodesNotForgotten'
  <2>1. \A d \in Security!Calls : call'[d].op = call[d].op /\ call'[d].got = call[d].got
    BY <1>2 DEF SameCall
  <2>2. QED
    BY <1>1, <2>1 DEF SecInv, Security!CodesNotForgotten
<1>10. ListsInv'
  <2>1. \A d \in Security!Calls : Tells(call[d]) => Tells(call'[d])
    BY <1>2 DEF Tells, SameCall
  <2>2. ASSUME NEW e, Told(e) PROVE Told(e)'
    BY <1>1, <2>1, <2>2 DEF Told, Tells
  <2>3. CASE ~untold
    <3>1. screen'.shown # None => Lists(screen.shown)' \/ Told(0)'
      BY <1>1, <1>4, <2>2, <2>3 DEF SecInv, ListsInv, Lists, Security!Verified
    <3>2. ASSUME NEW d \in Security!Calls, call'[d].op = "load", call'[d].mine
          PROVE  Lists(call[d])' \/ Told(d)'
      <4>1. SameCall(call'[d], call[d]) /\ call[d].op = "load" /\ call[d].mine
        BY <1>2, <3>2 DEF SameCall
      <4>2. Lists(call[d]) \/ Told(d)
        BY <2>3, <4>1 DEF SecInv, ListsInv
      <4>3. Lists(call[d]) => Lists(call[d])'
        BY <1>1, <4>1 DEF Lists, SameCall, Security!Verified
      <4>4. QED
        BY <2>2, <4>2, <4>3
    <3>3. QED
      BY <3>1, <3>2 DEF ListsInv
  <2>4. QED
    BY <1>1, <2>3 DEF ListsInv
<1>11. QED
  BY <1>5, <1>6, <1>7, <1>8, <1>9, <1>10 DEF SecInv

-----------------------------------------------------------------------------
\* Answers arrive.  An answer that tells the page nothing new ends its call.
LEMMA SecIdle ==
  /\ \A x : None \notin Security!Ops /\ None \notin Security!CodeOps /\ None \notin Security!ListOps
  /\ Sound(Security!Free) /\ Awaited(Security!Free) /\ ~Enrols(Security!Free)
  /\ ~Writes(Security!Free) /\ ~Tells(Security!Free)
<1>1. None \notin Security!Ops /\ None \notin Security!CodeOps /\ None \notin Security!ListOps
  BY SecBounds DEF Security!Ops
<1>2. None \notin {"load", "start", "verify", "remove", "password"}
  BY <1>1 DEF Security!Ops, Security!CodeOps, Security!ListOps
<1>3. QED
  BY <1>1, <1>2, SecFree DEF Sound, Awaited, Enrols, Writes, Tells

LEMMA SecIdleNext == Sound(Security!Free)' /\ Awaited(Security!Free)'
<1>1. None \notin Security!Ops /\ None \notin Security!CodeOps /\ None \notin Security!ListOps
  BY SecIdle
<1>2. None \notin {"load", "start", "verify", "remove", "password"}
  BY <1>1 DEF Security!Ops, Security!CodeOps, Security!ListOps
<1>3. PICK r : r = Security!Free
  OBVIOUS
<1>4. r.op = None /\ ~r.mine
  BY <1>3, SecFree
<1>5. Sound(r)' /\ Awaited(r)'
  BY <1>1, <1>2, <1>4 DEF Sound, Awaited
<1>6. QED
  BY <1>3, <1>5

LEMMA SecEnds ==
  ASSUME SecInv, NEW c \in Security!Calls, call' = [call EXCEPT ![c] = Security!Free],
         UNCHANGED <<account, seen, crossed>>, Aside(screen', screen),
         untold' \in BOOLEAN, untold => untold', untold' \/ ~Tells(call[c]),
         Writes(call[c]) => call[c].got \in seen \cup {None}
  PROVE  SecInv'
<1>1. PICK r \in SecCall : r = Security!Free
  BY SecFree
<1>2. /\ call' = [call EXCEPT ![c] = r] /\ ~Enrols(r) /\ ~Writes(r) /\ ~Tells(r) /\ r.op = None
      /\ Sound(r)' /\ Awaited(r)'
  BY <1>1, SecIdle, SecIdleNext, SecFree
<1>3. /\ GoodScreen(screen') /\ screen'.page = screen.page /\ screen'.shown = screen.shown
      /\ screen'.newCodes = screen.newCodes /\ screen'.enrolCodes = screen.enrolCodes
      /\ screen'.enrol = screen.enrol /\ (screen'.busy <=> screen.busy)
  BY DEF Aside, SamePage, SameCodes, SameEnrol
<1>4. SecTypes'
  BY <1>2, <1>3, OneSecCall DEF SecInv, SecTypes
<1>5. CallsInv'
  BY <1>2, <1>3, CallsFrame
<1>6. EnrolInv'
  BY <1>2, <1>3, EnrolFrame
<1>7. CodesInv'
  BY <1>2, <1>3, CodesFrame
<1>8. Security!CodesNotForgotten'
  BY <1>2, CodesStayKnown
<1>9. ListsInv'
  <2>1. Security!Verified' = Security!Verified
    BY DEF Security!Verified
  <2>2. r.op # "load"
    BY <1>2, SecIdle, SecBounds DEF Security!Ops
  <2>3. CASE untold'
    BY <2>3 DEF ListsInv
  <2>4. CASE ~untold'
    <3>1. /\ ~Tells(call[c]) /\ (untold => untold') /\ account'.others = account.others
          /\ screen'.enrol = "codes" \/ screen.enrol # "codes"
      BY <1>3, <2>4
    <3>2. QED
      BY <1>2, <1>3, <2>1, <2>2, <3>1, ListsFrame
  <2>5. QED
    BY <2>3, <2>4
<1>10. QED
  BY <1>4, <1>5, <1>6, <1>7, <1>8, <1>9 DEF SecInv

LEMMA PasswordSettles == ASSUME SecInv, NEW c \in Security!Calls, Security!SettlePassword(c) PROVE SecInv'
<1>1. /\ call[c].op = "password" /\ call' = [call EXCEPT ![c] = Security!Free]
      /\ screen' = IF call[c].mine THEN SavingAs(screen, FALSE) ELSE screen
      /\ UNCHANGED <<account, seen, crossed>> /\ untold' = TRUE
  BY DEF Security!SettlePassword, Security!Untold, SavingAs
<1>2. GoodScreen(screen)
  BY DEF SecInv, SecTypes
<1>3. Aside(screen', screen)
  BY <1>1, <1>2, AsideItself, ScreenAside, MineIsOpen
<1>4. ~Writes(call[c])
  BY <1>1 DEF Writes, Security!CodeOps
<1>5. QED
  BY <1>1, <1>3, <1>4, SecEnds

LEMMA RefreshSettles == ASSUME SecInv, NEW c \in Security!Calls, Security!SettleRefresh(c) PROVE SecInv'
<1>1. /\ call[c].op = "refresh" /\ call' = [call EXCEPT ![c] = Security!Free]
      /\ screen' = screen /\ UNCHANGED <<account, seen, crossed>> /\ untold' = untold
  BY DEF Security!SettleRefresh, Security!Settled
<1>2. GoodScreen(screen) /\ untold \in BOOLEAN
  BY DEF SecInv, SecTypes
<1>3. Aside(screen', screen)
  BY <1>1, <1>2, AsideItself
<1>4. ~Writes(call[c]) /\ ~Tells(call[c])
  BY <1>1 DEF Writes, Tells, Security!CodeOps, Security!ListOps
<1>5. QED
  BY <1>1, <1>2, <1>3, <1>4, SecEnds

\* A change has failed: the form opens again, and an enrolment that could not start says so.
LEMMA FailureSettles == ASSUME SecInv, NEW c \in Security!Calls, Security!SettleFailure(c) PROVE SecInv'
<1>1. /\ call[c].op \in Security!ListOps \cup {"start", "verify"} /\ call[c].answer = "failed"
      /\ screen' = IF ~call[c].mine THEN screen
                   ELSE IF call[c].op = "start" THEN EnrolFailed(screen)
                   ELSE IF call[c].op = "verify" THEN BusyAs(screen, FALSE) ELSE screen
      /\ call' = [call EXCEPT ![c] = Security!Free] /\ UNCHANGED <<account, seen, crossed, untold>>
  BY DEF Security!SettleFailure, Security!Settled, EnrolFailed, BusyAs
<1>2. GoodScreen(screen) /\ untold \in BOOLEAN
  BY DEF SecInv, SecTypes
<1>3. Writes(call[c]) => call[c].got \in seen \cup {None}
  BY <1>1 DEF SecInv, CallsInv, Sound, Writes
<1>4. ~Tells(call[c])
  BY <1>1 DEF Tells, Security!ListOps
<1>5. CASE ~Enrols(call[c])
  <2>1. Aside(screen', screen)
    BY <1>1, <1>2, <1>5, AsideItself DEF Enrols
  <2>2. QED
    BY <1>1, <1>2, <1>3, <1>4, <2>1, SecEnds
<1>6. CASE Enrols(call[c])
  <2>1. PICK r \in SecCall : r = Security!Free
    BY SecFree
  <2>2. /\ call' = [call EXCEPT ![c] = r] /\ ~Enrols(r) /\ ~Writes(r) /\ ~Tells(r) /\ r.op = None
        /\ Sound(r)' /\ Awaited(r)'
    BY <1>1, <2>1, SecIdle, SecIdleNext, SecFree
  <2>3. /\ call' \in [Security!Calls -> SecCall] /\ call'[c] = r
        /\ \A d \in Security!Calls : d # c => call'[d] = call[d]
    BY <2>2, OneSecCall
  <2>4. screen.page # "closed"
    BY <1>6, MineIsOpen DEF Enrols
  <2>5. EnrolsAt(call[c])
    BY DEF SecInv, EnrolInv
  <2>6. \/ call[c].op = "start" /\ screen' = EnrolFailed(screen) /\ screen.enrol = "loading"
        \/ call[c].op = "verify" /\ screen' = BusyAs(screen, FALSE) /\ screen.enrol = "scan"
    BY <1>1, <1>6, <2>5 DEF Enrols, EnrolsAt
  <2>7. /\ GoodScreen(screen') /\ screen'.page = screen.page /\ screen'.shown = screen.shown
        /\ screen'.newCodes = screen.newCodes /\ screen'.enrol # "codes" /\ screen.enrol \notin {"codes", "closed"}
    <3>1. CASE screen' = EnrolFailed(screen) /\ screen.enrol = "loading"
      BY <1>2, <2>4, <3>1, ScreenCleared DEF SamePage
    <3>2. CASE screen' = BusyAs(screen, FALSE) /\ screen.enrol = "scan"
      <4>1. PICK b \in BOOLEAN : b = FALSE
        OBVIOUS
      <4>2. /\ GoodScreen(BusyAs(screen, b)) /\ SamePage(BusyAs(screen, b), screen)
            /\ SameCodes(BusyAs(screen, b), screen) /\ BusyAs(screen, b).enrol = screen.enrol
        BY <1>2, <2>4, ScreenBusy
      <4>3. QED
        BY <3>2, <4>1, <4>2 DEF SamePage, SameCodes
    <3>3. QED
      BY <2>6, <3>1, <3>2
  <2>8. SecTypes'
    BY <1>1, <2>3, <2>7 DEF SecInv, SecTypes
  <2>9. CallsInv'
    BY <1>1, <2>2, <2>7, CallsFrame
  <2>10. EnrolInv'
    <3>1. \A d \in Security!Calls : ~Enrols(call'[d])
      BY <1>6, <2>2, <2>3 DEF SecInv, EnrolInv
    <3>2. QED
      BY <3>1 DEF EnrolInv, EnrolsAt, Enrols
  <2>11. CodesInv'
    <3>1. CASE ~crossed
      <4>1. /\ screen.newCodes = None
            /\ \A d \in Security!Calls : Writes(call[d]) =>
                 CallCodes(call[d]) /\ \A e \in Security!Calls \ {d} : ~Writes(call[e])
        BY <2>7, <3>1 DEF SecInv, CodesInv, ScreenCodes
      <4>2. ASSUME NEW d \in Security!Calls, Writes(call'[d])
            PROVE  CallCodes(call[d])' /\ \A e \in Security!Calls \ {d} : ~Writes(call'[e])
        <5>1. d # c /\ Writes(call[d])
          BY <2>2, <2>3, <4>2
        <5>2. CallCodes(call[d]) /\ \A e \in Security!Calls \ {d} : ~Writes(call[e])
          BY <4>1, <5>1
        <5>3. CallCodes(call[d])'
          BY <1>1, <2>3, <2>7, <5>1, <5>2 DEF CallCodes
        <5>4. QED
          BY <2>2, <2>3, <5>2, <5>3
      <4>3. QED
        BY <2>7, <4>1, <4>2 DEF CodesInv, ScreenCodes, Writes
    <3>2. QED
      BY <1>1, <3>1 DEF CodesInv
  <2>12. Security!CodesNotForgotten'
    BY <1>1, <1>3, <2>2, CodesStayKnown
  <2>13. ListsInv'
    <3>1. Security!Verified' = Security!Verified
      BY <1>1 DEF Security!Verified
    <3>2. r.op # "load"
      BY <2>2, SecIdle, SecBounds DEF Security!Ops
    <3>3. QED
      BY <1>1, <1>4, <2>2, <2>7, <3>1, <3>2, ListsFrame
  <2>14. QED
    BY <2>8, <2>9, <2>10, <2>11, <2>12, <2>13 DEF SecInv
<1>7. QED
  BY <1>5, <1>6

\* A step of the enrolment has worked.
LEMMA EnrolmentSettles == ASSUME SecInv, NEW c \in Security!Calls, Security!SettleEnrolment(c) PROVE SecInv'
<1>1. /\ call[c].op \in {"start", "verify"} /\ call[c].answer = "ok"
      /\ screen' = IF ~call[c].mine THEN screen
                   ELSE IF call[c].op = "start" THEN ScanAs(screen, call[c].got)
                   ELSE EnrolCodesAs(screen, call[c].got)
      /\ seen' = seen \cup Security!Visible(screen')
                      \cup IF call[c].op = "verify" /\ ~call[c].mine THEN {call[c].got} ELSE {}
      /\ call' = [call EXCEPT ![c] = Security!Free]
      /\ untold' = (untold \/ (call[c].op = "verify" /\ ~call[c].mine))
      /\ account' = account /\ crossed' = crossed
  BY DEF Security!SettleEnrolment, Security!Settled, ScanAs, EnrolCodesAs
<1>2. GoodScreen(screen) /\ untold \in BOOLEAN /\ seen \subseteq Security!Sets
  BY DEF SecInv, SecTypes
<1>3. /\ call[c].op = "start" => call[c].got \in Methods
      /\ call[c].op = "verify" => call[c].got \in Security!Sets
  BY <1>1 DEF SecInv, CallsInv, Sound, Security!CodeOps
<1>4. PICK r \in SecCall : r = Security!Free
  BY SecFree
<1>5. /\ call' = [call EXCEPT ![c] = r] /\ ~Enrols(r) /\ ~Writes(r) /\ ~Tells(r) /\ r.op = None
      /\ Sound(r)' /\ Awaited(r)'
  BY <1>1, <1>4, SecIdle, SecIdleNext, SecFree
<1>6. /\ call' \in [Security!Calls -> SecCall] /\ call'[c] = r
      /\ \A d \in Security!Calls : d # c => call'[d] = call[d]
  BY <1>5, OneSecCall
<1>7. \/ ~call[c].mine /\ screen' = screen
      \/ /\ call[c].mine /\ call[c].op = "start" /\ screen' = ScanAs(screen, call[c].got)
         /\ screen.page # "closed" /\ screen.enrol = "loading"
      \/ /\ call[c].mine /\ call[c].op = "verify" /\ screen' = EnrolCodesAs(screen, call[c].got)
         /\ screen.page # "closed" /\ screen.enrol = "scan"
  BY <1>1, MineIsOpen DEF SecInv, EnrolInv, EnrolsAt, Enrols
<1>8. (call[c].mine /\ call[c].op = "start") =>
        /\ GoodScreen(screen') /\ screen'.page = screen.page /\ screen'.shown = screen.shown
        /\ screen'.newCodes = screen.newCodes /\ screen'.enrol = "scan"
  BY <1>2, <1>3, <1>7, ScreenScans DEF SamePage, SameCodes
<1>9. (call[c].mine /\ call[c].op = "verify") =>
        /\ GoodScreen(screen') /\ screen'.page = screen.page /\ screen'.shown = screen.shown
        /\ screen'.newCodes = screen.newCodes /\ screen'.enrol = "codes" /\ screen'.enrolCodes = call[c].got
  BY <1>2, <1>3, <1>7, ScreenFilled DEF SamePage
<1>10. GoodScreen(screen') /\ screen'.page = screen.page /\ screen'.shown = screen.shown
       /\ screen'.newCodes = screen.newCodes
  BY <1>2, <1>7, <1>8, <1>9
<1>11. seen \subseteq seen' /\ seen' \subseteq Security!Sets
  BY <1>1, <1>2, <1>3, <1>10, VisibleAreSets
<1>12. SecTypes'
  BY <1>1, <1>2, <1>6, <1>10, <1>11 DEF SecInv, SecTypes
<1>13. CallsInv'
  BY <1>5, <1>10, <1>11, CallsFrame
<1>14. EnrolInv'
  <2>1. CASE call[c].mine
    <3>1. Enrols(call[c])
      BY <1>1, <2>1 DEF Enrols
    <3>2. \A d \in Security!Calls : ~Enrols(call'[d])
      BY <1>5, <1>6, <3>1 DEF SecInv, EnrolInv
    <3>3. QED
      BY <3>2 DEF EnrolInv, EnrolsAt, Enrols
  <2>2. CASE ~call[c].mine
    BY <1>5, <1>7, <2>2, EnrolFrame
  <2>3. QED
    BY <2>1, <2>2
<1>15. CodesInv'
  <2>1. CASE ~call[c].mine
    BY <1>1, <1>5, <1>7, <2>1, CodesFrame
  <2>2. CASE call[c].mine /\ ~crossed
    <3>1. /\ ScreenCodes
          /\ \A d \in Security!Calls : Writes(call[d]) =>
               CallCodes(call[d]) /\ \A e \in Security!Calls \ {d} : ~Writes(call[e])
      BY <2>2 DEF SecInv, CodesInv
    <3>2. screen.newCodes = None
      BY <1>7, <2>2, <3>1 DEF ScreenCodes
    <3>3. \A d \in Security!Calls : Writes(call'[d]) => d # c /\ Writes(call[d])
      BY <1>5, <1>6
    <3>4. CASE call[c].op = "start"
      <4>1. ASSUME NEW d \in Security!Calls, Writes(call'[d])
            PROVE  CallCodes(call[d])' /\ \A e \in Security!Calls \ {d} : ~Writes(call'[e])
        <5>1. CallCodes(call[d]) /\ \A e \in Security!Calls \ {d} : ~Writes(call[e])
          BY <3>1, <3>3, <4>1
        <5>2. CallCodes(call[d])'
          BY <1>1, <1>6, <1>8, <2>2, <3>2, <3>3, <3>4, <4>1, <5>1 DEF CallCodes
        <5>3. QED
          BY <3>3, <5>1, <5>2
      <4>2. ScreenCodes'
        BY <1>8, <2>2, <3>2, <3>4 DEF ScreenCodes
      <4>3. QED
        BY <4>1, <4>2 DEF CodesInv, Writes
    <3>5. CASE call[c].op = "verify"
      <4>1. Writes(call[c])
        BY <3>5 DEF Writes, Security!CodeOps
      <4>2. call[c].got = account.inForce /\ \A e \in Security!Calls \ {c} : ~Writes(call[e])
        BY <1>1, <3>1, <4>1 DEF CallCodes
      <4>3. \A d \in Security!Calls : ~Writes(call'[d])
        BY <3>3, <4>2
      <4>4. ScreenCodes'
        BY <1>1, <1>9, <2>2, <3>2, <3>5, <4>2 DEF ScreenCodes
      <4>5. QED
        BY <4>3, <4>4 DEF CodesInv, Writes
    <3>6. QED
      BY <1>1, <3>4, <3>5
  <2>3. QED
    BY <1>1, <2>1, <2>2 DEF CodesInv
<1>16. Security!CodesNotForgotten'
  <2>1. ASSUME Writes(call[c]) PROVE call[c].got \in seen'
    <3>1. call[c].op = "verify"
      BY <1>1, <2>1 DEF Writes, Security!CodeOps
    <3>2. CASE ~call[c].mine
      BY <1>1, <3>1, <3>2
    <3>3. CASE call[c].mine
      <4>1. call[c].got \in Security!Visible(screen')
        BY <1>9, <3>1, <3>3 DEF Security!Visible, Security!EnrolmentCodes
      <4>2. QED
        BY <1>1, <4>1
    <3>4. QED
      BY <3>2, <3>3
  <2>2. QED
    BY <1>1, <1>5, <1>11, <2>1, CodesStayKnown
<1>17. ListsInv'
  <2>1. Security!Verified' = Security!Verified /\ account'.others = account.others
    BY <1>1 DEF Security!Verified
  <2>2. r.op # "load"
    BY <1>5, SecIdle, SecBounds DEF Security!Ops
  <2>3. CASE untold'
    BY <2>3 DEF ListsInv
  <2>4. CASE ~untold' /\ call[c].op = "verify"
    BY <1>1, <1>5, <1>9, <1>10, <2>1, <2>2, <2>4, ListsFrame
  <2>5. CASE call[c].op = "start"
    <3>1. ~Tells(call[c])
      BY <2>5 DEF Tells, Security!ListOps
    <3>2. screen'.enrol = "codes" \/ screen.enrol # "codes"
      BY <1>7, <1>8
    <3>3. QED
      BY <1>1, <1>5, <1>10, <2>1, <2>2, <3>1, <3>2, ListsFrame
  <2>6. QED
    BY <1>1, <2>3, <2>4, <2>5
<1>18. QED
  BY <1>12, <1>13, <1>14, <1>15, <1>16, <1>17 DEF SecInv

\* A change has worked: the list is loaded again, and new codes are shown.
LEMMA SecThen ==
  ASSUME SecInv, NEW c \in Security!Calls
  PROVE  /\ Security!Then(c) \in SecCall /\ Security!Then(c).op = "load"
         /\ Security!Then(c).answer = None /\ Security!Then(c).factors = None
         /\ Security!Then(c).others = None /\ (Security!Then(c).mine <=> call[c].mine)
<1>1. call[c].mine \in BOOLEAN /\ call[c].tail \in BOOLEAN
  BY DEF SecInv, SecTypes, SecCall
<1>2. PICK b \in BOOLEAN : b = call[c].tail
  BY <1>1
<1>3. PICK m \in BOOLEAN : m = call[c].mine
  BY <1>1
<1>4. PICK q \in SecCall : q = Security!Request("load", None, b)
  BY SecRequest DEF Security!Ops
<1>5. q.op = "load" /\ q.answer = None /\ q.factors = None /\ q.others = None
  BY <1>4, SecRequest DEF Security!Ops
<1>6. Security!Then(c) = OrphanOf(q, m)
  BY <1>2, <1>3, <1>4 DEF Security!Then, OrphanOf
<1>7. /\ OrphanOf(q, m) \in SecCall /\ SameCall(OrphanOf(q, m), q) /\ (OrphanOf(q, m).mine <=> m)
  BY OrphanIsSame
<1>8. QED
  BY <1>3, <1>5, <1>6, <1>7 DEF SameCall

LEMMA ChangeSettles == ASSUME SecInv, NEW c \in Security!Calls, Security!SettleChange(c) PROVE SecInv'
<1>1. /\ call[c].op \in Security!ListOps /\ call[c].answer = "ok"
      /\ screen' = IF ~call[c].mine THEN screen
                   ELSE IF call[c].op = "regenerate" THEN NewCodesAs(screen, call[c].got)
                   ELSE IF call[c].op = "remove" THEN PanelAs(screen, None) ELSE screen
      /\ crossed' = (crossed \/ (call[c].mine /\ call[c].op = "regenerate" /\ screen.enrol # "closed"))
      /\ seen' = seen \cup Security!Visible(screen')
                      \cup IF call[c].op = "regenerate" /\ ~call[c].mine THEN {call[c].got} ELSE {}
      /\ call' = [call EXCEPT ![c] = Security!Then(c)]
      /\ untold' = (untold \/ ~call[c].mine) /\ account' = account
  BY DEF Security!SettleChange, Security!Settled, Security!CodesKept, NewCodesAs, PanelAs
<1>2. /\ GoodScreen(screen) /\ untold \in BOOLEAN /\ crossed \in BOOLEAN /\ seen \subseteq Security!Sets
      /\ call[c].mine \in BOOLEAN
  BY DEF SecInv, SecTypes, SecCall
<1>3. call[c].op = "regenerate" => call[c].got \in Security!Sets
  BY <1>1 DEF SecInv, CallsInv, Sound, Security!CodeOps
<1>4. PICK r \in SecCall : /\ call' = [call EXCEPT ![c] = r] /\ r.op = "load" /\ (r.mine <=> call[c].mine)
                           /\ r.answer = None /\ r.factors = None /\ r.others = None
  BY <1>1, SecThen
<1>5. /\ call' \in [Security!Calls -> SecCall] /\ call'[c] = r
      /\ \A d \in Security!Calls : d # c => call'[d] = call[d]
  BY <1>4, OneSecCall
<1>6. call[c].mine => screen.page # "closed"
  BY <1>1, MineIsOpen DEF Security!ListOps
<1>7. (call[c].mine /\ call[c].op = "regenerate") =>
        /\ GoodScreen(screen') /\ SamePage(screen', screen) /\ SameEnrol(screen', screen)
        /\ screen'.newCodes = call[c].got /\ screen'.enrolCodes = screen.enrolCodes
  BY <1>1, <1>2, <1>3, <1>6, ScreenFilled
<1>8. ~(call[c].mine /\ call[c].op = "regenerate") => Aside(screen', screen)
  BY <1>1, <1>2, <1>6, AsideItself, ScreenAside
<1>9. /\ GoodScreen(screen') /\ screen'.page = screen.page /\ screen'.shown = screen.shown
      /\ screen'.enrol = screen.enrol /\ (screen'.busy <=> screen.busy)
      /\ screen'.enrolCodes = screen.enrolCodes
  BY <1>7, <1>8 DEF Aside, SamePage, SameCodes, SameEnrol
<1>10. /\ seen \subseteq seen' /\ seen' \subseteq Security!Sets /\ crossed' \in BOOLEAN
       /\ untold' \in BOOLEAN /\ (untold => untold') /\ (crossed => crossed')
  BY <1>1, <1>2, <1>3, <1>9, VisibleAreSets
<1>11. SecTypes'
  BY <1>1, <1>5, <1>9, <1>10 DEF SecInv, SecTypes
<1>12. None \notin Security!Ops /\ None \notin Security!Answers
  BY SecBounds
<1>13. ~Writes(r) /\ (call[c].mine => Tells(r)) /\ ~Enrols(r)
  BY <1>4 DEF Writes, Tells, Enrols, Security!CodeOps
<1>14. CallsInv'
  <2>1. Sound(r)'
    BY <1>4, <1>12 DEF Sound, Security!CodeOps, Security!Ops, Security!Answers
  <2>2. Awaited(r)'
    BY <1>4, <1>6, <1>9 DEF Awaited
  <2>3. QED
    BY <1>4, <1>9, <1>10, <2>1, <2>2, CallsFrame
<1>15. EnrolInv'
  BY <1>4, <1>9, <1>13, EnrolFrame
<1>16. CodesInv'
  <2>1. CASE crossed'
    BY <2>1 DEF CodesInv
  <2>2. CASE ~crossed' /\ call[c].mine /\ call[c].op = "regenerate"
    <3>1. ~crossed /\ screen.enrol = "closed"
      BY <1>1, <2>2
    <3>2. Writes(call[c])
      BY <2>2 DEF Writes, Security!CodeOps
    <3>3. call[c].got = account.inForce /\ \A e \in Security!Calls \ {c} : ~Writes(call[e])
      BY <1>1, <3>1, <3>2 DEF SecInv, CodesInv, CallCodes
    <3>4. \A d \in Security!Calls : ~Writes(call'[d])
      BY <1>5, <1>13, <3>3
    <3>5. ScreenCodes'
      BY <1>1, <1>7, <1>9, <2>2, <3>1, <3>3 DEF ScreenCodes
    <3>6. QED
      BY <3>4, <3>5 DEF CodesInv, Writes
  <2>3. CASE ~crossed' /\ ~(call[c].mine /\ call[c].op = "regenerate")
    <3>1. screen'.newCodes = screen.newCodes
      BY <1>8, <2>3 DEF Aside, SameCodes
    <3>2. crossed' = crossed
      BY <1>1, <1>2, <1>10, <2>3
    <3>3. QED
      BY <1>1, <1>4, <1>9, <1>13, <3>1, <3>2, CodesFrame
  <2>4. QED
    BY <2>1, <2>2, <2>3
<1>17. Security!CodesNotForgotten'
  <2>1. ASSUME Writes(call[c]), ~crossed' PROVE call[c].got \in seen'
    <3>1. call[c].op = "regenerate"
      BY <1>1, <2>1 DEF Writes, Security!CodeOps, Security!ListOps
    <3>2. CASE ~call[c].mine
      BY <1>1, <3>1, <3>2
    <3>3. CASE call[c].mine
      <4>1. screen'.enrol = "closed" /\ screen'.newCodes = call[c].got /\ call[c].got # None
        BY <1>1, <1>3, <1>7, <1>9, <2>1, <3>1, <3>3, SecBounds
      <4>2. call[c].got \in Security!Visible(screen')
        BY <4>1 DEF Security!Visible, Security!RegeneratedCodes
      <4>3. QED
        BY <1>1, <4>2
    <3>4. QED
      BY <3>2, <3>3
  <2>2. QED
    BY <1>1, <1>4, <1>10, <2>1, CodesStayKnown
<1>18. ListsInv'
  <2>1. untold' \/ Tells(r)
    BY <1>1, <1>13
  <2>2. QED
    BY <1>4, <1>10, <2>1, ListsFrame
<1>19. QED
  BY <1>11, <1>14, <1>15, <1>16, <1>17, <1>18 DEF SecInv

\* A list arrives, or does not.
LEMMA SecAfterLoad ==
  ASSUME SecInv, NEW c \in Security!Calls
  PROVE  \E r \in SecCall :
           /\ r = IF call[c].tail THEN Security!Request("refresh", None, FALSE) ELSE Security!Free
           /\ r.op \in {"refresh", None} /\ r.got = None /\ Sound(r)' /\ Awaited(r)'
           /\ ~Enrols(r) /\ ~Writes(r) /\ ~Tells(r)
<1>1. CASE call[c].tail
  <2>1. PICK b \in BOOLEAN : b = FALSE
    OBVIOUS
  <2>2. "refresh" \in Security!Ops /\ "refresh" # None
    BY SecBounds DEF Security!Ops
  <2>3. PICK r \in SecCall : r = Security!Request("refresh", None, b)
    BY <2>2, SecRequest
  <2>4. r.op = "refresh" /\ r.got = None
    BY <2>2, <2>3, SecRequest
  <2>5. Sound(r)' /\ Awaited(r)' /\ ~Enrols(r) /\ ~Writes(r) /\ ~Tells(r)
    BY <2>2, <2>4 DEF Sound, Awaited, Enrols, Writes, Tells, Security!CodeOps, Security!ListOps
  <2>6. QED
    BY <1>1, <2>1, <2>3, <2>4, <2>5
<1>2. CASE ~call[c].tail
  BY <1>2, SecFree, SecIdle, SecIdleNext
<1>3. QED
  BY <1>1, <1>2

LEMMA LoadSettles == ASSUME SecInv, NEW c \in Security!Calls, Security!SettleLoad(c) PROVE SecInv'
<1> DEFINE l == [factors |-> call[c].factors, others |-> call[c].others]
<1>1. /\ call[c].op = "load" /\ call[c].answer \in {"ok", "failed"}
      /\ screen' = IF call[c].mine /\ call[c].answer = "ok" THEN ShownAs(screen, l) ELSE screen
      /\ call' = [call EXCEPT ![c] = IF call[c].tail THEN Security!Request("refresh", None, FALSE)
                                                     ELSE Security!Free]
      /\ untold' = (untold \/ Security!Untold(c))
      /\ account' = account /\ seen' = seen /\ crossed' = crossed
  BY DEF Security!SettleLoad, ShownAs
<1>2. /\ GoodScreen(screen) /\ untold \in BOOLEAN /\ crossed \in BOOLEAN
      /\ seen \subseteq Security!Sets /\ call[c] \in SecCall
  BY DEF SecInv, SecTypes
<1>3. PICK r \in SecCall :
        /\ call' = [call EXCEPT ![c] = r] /\ r.op \in {"refresh", None} /\ Sound(r)' /\ Awaited(r)'
        /\ ~Enrols(r) /\ ~Writes(r) /\ ~Tells(r)
  BY <1>1, SecAfterLoad
<1>4. /\ call' \in [Security!Calls -> SecCall] /\ call'[c] = r
      /\ \A d \in Security!Calls : d # c => call'[d] = call[d]
  BY <1>3, OneSecCall
<1>5. /\ call[c].mine => screen.page # "closed"
      /\ call[c].answer = "ok" => call[c].factors # None /\ call[c].others # None
  BY <1>1, MineIsOpen DEF SecInv, CallsInv, Sound
<1>6. call[c].answer = "ok" => l \in SecList
  BY <1>2, <1>5 DEF SecCall, SecList
<1>7. /\ l.factors = call[c].factors /\ l.others = call[c].others
  OBVIOUS
<1> HIDE DEF l
<1>8. /\ GoodScreen(screen') /\ screen'.page = screen.page
      /\ screen'.enrol = screen.enrol /\ (screen'.busy <=> screen.busy)
      /\ screen'.newCodes = screen.newCodes /\ screen'.enrolCodes = screen.enrolCodes
  BY <1>1, <1>2, <1>5, <1>6, ScreenLists DEF SameCodes, SameEnrol
<1>9. untold' \in BOOLEAN
  BY <1>1, <1>2
<1>10. SecTypes'
  BY <1>1, <1>2, <1>4, <1>8, <1>9 DEF SecInv, SecTypes
<1>11. CallsInv'
  BY <1>1, <1>3, <1>8, CallsFrame
<1>12. EnrolInv'
  BY <1>3, <1>8, EnrolFrame
<1>13. CodesInv'
  BY <1>1, <1>3, <1>8, CodesFrame
<1>14. Security!CodesNotForgotten'
  <2>1. ~Writes(call[c])
    BY <1>1 DEF Writes, Security!CodeOps
  <2>2. QED
    BY <1>1, <1>3, <2>1, CodesStayKnown
<1>15. ListsInv'
  <2>1. CASE untold'
    BY <2>1 DEF ListsInv
  <2>2. CASE ~untold'
    <3>1. ~untold
      BY <1>1, <2>2
    <3>2. CASE ~call[c].mine
      <4>1. /\ ~Tells(call[c]) /\ r.op # "load" /\ screen' = screen
            /\ Security!Verified' = Security!Verified
        BY <1>1, <1>3, <3>2, SecBounds
           DEF Tells, Security!ListOps, Security!Ops, Security!Verified
      <4>2. QED
        BY <1>1, <1>3, <4>1, ListsFrame
    <3>3. CASE call[c].mine
      <4>o. /\ call[c].answer = "ok"
            /\ \A d \in Security!Calls \ {c} : ~(call[d].mine /\ call[d].op = "load")
        BY <1>1, <2>2, <3>3 DEF Security!Untold
      <4>n. \A d \in Security!Calls : ~(call'[d].mine /\ call'[d].op = "load")
        BY <1>3, <1>4, <4>o, SecBounds DEF Security!Ops
      <4>1. screen'.shown = l
        BY <1>1, <1>2, <1>5, <1>6, <3>3, <4>o, ScreenLists
      <4>2. Lists(call[c]) \/ Told(c)
        BY <1>1, <3>1, <3>3 DEF SecInv, ListsInv
      <4>3. CASE Lists(call[c])
        <5>1. Lists(screen.shown)'
          BY <1>1, <1>7, <4>1, <4>3 DEF Lists, Security!Verified
        <5>2. QED
          BY <4>n, <5>1 DEF ListsInv
      <4>4. CASE Told(c)
        <5>1. 0 \notin Security!Calls
          BY DEF Security!Calls
        <5>2. Told(0)'
          BY <1>4, <1>8, <4>4, <5>1 DEF Told, Tells
        <5>3. QED
          BY <4>n, <5>2 DEF ListsInv
      <4>5. QED
        BY <4>2, <4>3, <4>4
    <3>4. QED
      BY <3>2, <3>3
  <2>3. QED
    BY <2>1, <2>2
<1>16. QED
  BY <1>10, <1>11, <1>12, <1>13, <1>14, <1>15 DEF SecInv

-----------------------------------------------------------------------------
\* The server answers, and changes the account.
AnsweredAs(r, a, g) == [r EXCEPT !.answer = a, !.got = g]
FactorsAs(r, S, a) == [r EXCEPT !.factors = S, !.answer = a]
OthersAs(r, o, a) == [r EXCEPT !.others = o, !.answer = a]
FactorAs(acc, m, f) == [acc EXCEPT !.factor[m] = f]
RenewedAs(acc, n) == [acc EXCEPT !.made = n, !.inForce = n]
VerifiedAs(acc, m, n) == [acc EXCEPT !.factor[m] = "verified", !.made = n, !.inForce = n]
AloneAs(acc, b) == [acc EXCEPT !.others = b]

LEMMA CallAnswered ==
  ASSUME NEW r \in SecCall, NEW a \in Security!Answers \cup {None},
         NEW g \in Methods \cup Security!Sets \cup {None}
  PROVE  /\ AnsweredAs(r, a, g) \in SecCall
         /\ AnsweredAs(r, a, g).op = r.op /\ AnsweredAs(r, a, g).arg = r.arg
         /\ AnsweredAs(r, a, g).mine <=> r.mine
         /\ AnsweredAs(r, a, g).answer = a /\ AnsweredAs(r, a, g).got = g
         /\ AnsweredAs(r, a, g).factors = r.factors /\ AnsweredAs(r, a, g).others = r.others
<1>1. AnsweredAs(r, a, g) \in SecCall
  BY DEF AnsweredAs, SecCall
<1>2. AnsweredAs(r, a, g).mine <=> r.mine
  BY DEF AnsweredAs, SecCall
<1>3. /\ AnsweredAs(r, a, g).op = r.op /\ AnsweredAs(r, a, g).arg = r.arg
      /\ AnsweredAs(r, a, g).answer = a /\ AnsweredAs(r, a, g).got = g
      /\ AnsweredAs(r, a, g).factors = r.factors /\ AnsweredAs(r, a, g).others = r.others
  BY DEF AnsweredAs, SecCall
<1>4. QED
  BY <1>1, <1>2, <1>3

LEMMA CallFactors ==
  ASSUME NEW r \in SecCall, NEW a \in Security!Answers \cup {None}, NEW S \in SUBSET Methods
  PROVE  /\ FactorsAs(r, S, a) \in SecCall /\ FactorsAs(r, S, a).op = r.op
         /\ FactorsAs(r, S, a).mine <=> r.mine
         /\ FactorsAs(r, S, a).answer = a /\ FactorsAs(r, S, a).factors = S
         /\ FactorsAs(r, S, a).others = r.others
<1>1. FactorsAs(r, S, a) \in SecCall
  BY DEF FactorsAs, SecCall
<1>2. FactorsAs(r, S, a).mine <=> r.mine
  BY DEF FactorsAs, SecCall
<1>3. /\ FactorsAs(r, S, a).op = r.op /\ FactorsAs(r, S, a).answer = a
      /\ FactorsAs(r, S, a).factors = S /\ FactorsAs(r, S, a).others = r.others
  BY DEF FactorsAs, SecCall
<1>4. QED
  BY <1>1, <1>2, <1>3

LEMMA CallOthers ==
  ASSUME NEW r \in SecCall, NEW a \in Security!Answers \cup {None}, NEW o \in BOOLEAN \cup {None}
  PROVE  /\ OthersAs(r, o, a) \in SecCall /\ OthersAs(r, o, a).op = r.op
         /\ OthersAs(r, o, a).mine <=> r.mine
         /\ OthersAs(r, o, a).answer = a /\ OthersAs(r, o, a).others = o
         /\ OthersAs(r, o, a).factors = r.factors
<1>1. OthersAs(r, o, a) \in SecCall
  BY DEF OthersAs, SecCall
<1>2. OthersAs(r, o, a).mine <=> r.mine
  BY DEF OthersAs, SecCall
<1>3. /\ OthersAs(r, o, a).op = r.op /\ OthersAs(r, o, a).answer = a
      /\ OthersAs(r, o, a).others = o /\ OthersAs(r, o, a).factors = r.factors
  BY DEF OthersAs, SecCall
<1>4. QED
  BY <1>1, <1>2, <1>3

LEMMA AccountFactor ==
  ASSUME NEW acc \in SecAccount, NEW m \in Methods, NEW f \in {"absent", "pending", "verified", "revoked"}
  PROVE  /\ FactorAs(acc, m, f) \in SecAccount /\ FactorAs(acc, m, f).inForce = acc.inForce
         /\ FactorAs(acc, m, f).others = acc.others
         /\ FactorAs(acc, m, f).factor = [acc.factor EXCEPT ![m] = f]
  BY DEF FactorAs, SecAccount

LEMMA AccountRenewed ==
  ASSUME NEW acc \in SecAccount, NEW n \in Security!Sets
  PROVE  /\ RenewedAs(acc, n) \in SecAccount /\ RenewedAs(acc, n).inForce = n
         /\ \A m \in Methods : VerifiedAs(acc, m, n) \in SecAccount /\ VerifiedAs(acc, m, n).inForce = n
<1>1. n \in 0..MaxSets
  BY SecBounds DEF Security!Sets
<1>2. RenewedAs(acc, n) \in SecAccount /\ RenewedAs(acc, n).inForce = n
  BY <1>1 DEF RenewedAs, SecAccount
<1>3. ASSUME NEW m \in Methods
      PROVE  VerifiedAs(acc, m, n) \in SecAccount /\ VerifiedAs(acc, m, n).inForce = n
  BY <1>1 DEF VerifiedAs, SecAccount
<1>4. QED
  BY <1>2, <1>3

LEMMA AccountAlone ==
  ASSUME NEW acc \in SecAccount, NEW b \in BOOLEAN
  PROVE  AloneAs(acc, b) \in SecAccount /\ AloneAs(acc, b).inForce = acc.inForce
  BY DEF AloneAs, SecAccount

\* A call that was under way is answered: what it wrote, it carries; what it
\* changed in the lists, the page is told.
LEMMA SecReplies ==
  ASSUME SecInv, NEW c \in Security!Calls, NEW a \in Security!Answers,
         NEW g \in Methods \cup Security!Sets \cup {None},
         Security!Answer(c, a, g), call[c].answer = None, call[c].op \in Security!Ops, call[c].op # "load",
         account' \in SecAccount,
         (call[c].op = "start" /\ a = "ok") => g \in Methods,
         call[c].op \in Security!CodeOps => g \in Security!Sets \cup {None} /\ (a = "ok" <=> g # None),
         \/ account'.inForce = account.inForce /\ ~(Writes(call[c]) /\ a = "ok")
         \/ Writes(call[c]) /\ a = "ok" /\ g = account'.inForce,
         \/ Security!Verified' = Security!Verified /\ account'.others = account.others
         \/ call[c].op \in Security!ListOps \cup {"verify", "password"} /\ a = "ok"
  PROVE  SecInv'
<1>1. call \in [Security!Calls -> SecCall] /\ call[c] \in SecCall
  BY DEF SecInv, SecTypes
<1>2. /\ call' = [call EXCEPT ![c] = AnsweredAs(call[c], a, g)]
      /\ screen' = screen /\ seen' = seen /\ crossed' = crossed /\ untold' = untold
  BY <1>1 DEF Security!Answer, AnsweredAs
<1>3. PICK r \in SecCall : r = AnsweredAs(call[c], a, g)
  BY <1>1, CallAnswered
<1>4. /\ r.op = call[c].op /\ r.arg = call[c].arg /\ (r.mine <=> call[c].mine)
      /\ r.answer = a /\ r.got = g
  BY <1>1, <1>3, CallAnswered
<1>5. call' = [call EXCEPT ![c] = r]
  BY <1>2, <1>3
<1>6. /\ call' \in [Security!Calls -> SecCall] /\ call'[c] = r
      /\ \A d \in Security!Calls : d # c => call'[d] = call[d]
  BY <1>5, OneSecCall
<1>7. None \notin Security!Ops /\ None \notin Security!Answers
  BY SecBounds
<1>8. Sound(call[c]) /\ Awaited(call[c])
  BY DEF SecInv, CallsInv
<1>9. SecTypes'
  BY <1>2, <1>6 DEF SecInv, SecTypes
<1>10. CallsInv'
  <2>1. Sound(r)'
    BY <1>2, <1>4, <1>7, <1>8 DEF Sound
  <2>2. Awaited(r)'
    BY <1>2, <1>4, <1>8 DEF Awaited
  <2>3. QED
    BY <1>2, <1>5, <2>1, <2>2, CallsFrame
<1>11. EnrolInv'
  BY <1>2, <1>4, <1>5, EnrolFrame DEF Enrols
<1>12. CodesInv'
  <2>1. CASE ~(Writes(call[c]) /\ a = "ok")
    <3>1. Writes(r) => Writes(call[c]) /\ (r.answer = "ok" => r.got = account.inForce)
      BY <1>4, <2>1 DEF Writes
    <3>2. account'.inForce = account.inForce
      BY <2>1
    <3>3. QED
      BY <1>2, <1>5, <3>1, <3>2, CodesFrame
  <2>2. CASE Writes(call[c]) /\ a = "ok" /\ ~crossed
    <3>1. /\ screen.newCodes = None /\ screen.enrol # "codes"
          /\ \A e \in Security!Calls \ {c} : ~Writes(call[e])
      BY <2>2 DEF SecInv, CodesInv, CallCodes
    <3>2. \A e \in Security!Calls : Writes(call'[e]) => e = c
      BY <1>6, <3>1
    <3>3. CallCodes(call[c])'
      BY <1>2, <1>4, <1>6, <2>2, <3>1 DEF CallCodes
    <3>4. ScreenCodes'
      BY <1>2, <3>1 DEF ScreenCodes
    <3>5. QED
      BY <3>2, <3>3, <3>4 DEF CodesInv, Writes, CallCodes
  <2>3. QED
    BY <1>2, <2>1, <2>2 DEF CodesInv
<1>13. Security!CodesNotForgotten'
  <2>1. CASE Writes(call[c]) /\ a = "ok"
    <3>1. call'[c].op \in Security!CodeOps /\ call'[c].got = account'.inForce
      BY <1>4, <1>6, <2>1 DEF Writes
    <3>2. QED
      BY <3>1 DEF Security!CodesNotForgotten
  <2>2. CASE ~(Writes(call[c]) /\ a = "ok")
    <3>1. account'.inForce = account.inForce
      BY <2>2
    <3>2. Writes(call[c]) => call[c].got = None
      BY <1>8 DEF Sound, Writes
    <3>3. QED
      BY <1>2, <1>5, <3>1, <3>2, CodesStayKnown
  <2>3. QED
    BY <2>1, <2>2
<1>14. ListsInv'
  <2>1. CASE call[c].op \in Security!ListOps \cup {"verify", "password"} /\ a = "ok"
    <3>1. Tells(r) /\ r.op # "load"
      BY <1>4, <2>1 DEF Tells, Security!ListOps
    <3>2. QED
      BY <1>2, <1>5, <3>1, ListsFrame
  <2>2. CASE Security!Verified' = Security!Verified /\ account'.others = account.others
    <3>1. ~Tells(call[c]) /\ r.op # "load"
      BY <1>4, <1>7 DEF Tells, Security!Answers
    <3>2. screen'.shown = screen.shown /\ (screen'.enrol = "codes" \/ screen.enrol # "codes")
      BY <1>2
    <3>3. QED
      BY <1>2, <1>5, <2>2, <3>1, <3>2, ListsFrame
  <2>3. QED
    BY <2>1, <2>2
<1>15. QED
  BY <1>9, <1>10, <1>11, <1>12, <1>13, <1>14 DEF SecInv

\* Nothing is done.
LEMMA SecRefuses ==
  ASSUME SecInv, NEW c \in Security!Calls, NEW a \in Security!Answers, NEW ops,
         Security!Received(c, ops), ops \subseteq Security!Ops \ {"load"}, Security!Refuse(c, a),
         a = "ok" => ops \cap {"start", "verify", "regenerate"} = {}
  PROVE  SecInv'
<1>1. /\ Security!Answer(c, a, None) /\ account' = account /\ call[c].answer = None
      /\ call[c].op \in ops /\ call[c].op \in Security!Ops /\ call[c].op # "load"
  BY DEF Security!Received, Security!Refuse
<1>2. account' \in SecAccount /\ account'.inForce = account.inForce /\ account'.others = account.others
  BY <1>1 DEF SecInv, SecTypes
<1>3. Security!Verified' = Security!Verified
  BY <1>1 DEF Security!Verified
<1>4. a = "ok" => call[c].op \notin Security!CodeOps /\ call[c].op # "start"
  BY <1>1 DEF Security!CodeOps
<1>5. ~(Writes(call[c]) /\ a = "ok")
  BY <1>4 DEF Writes
<1>6. QED
  BY <1>1, <1>2, <1>3, <1>4, <1>5, SecReplies

LEMMA SecServes ==
  ASSUME SecInv, NEW c \in Security!Calls,
         \/ Security!StartTOTPEnrollment(c) \/ Security!DeleteMFA(c)
         \/ Security!SignOutOthers(c) \/ Security!ServeMe(c)
  PROVE  SecInv'
<1>1. account \in SecAccount
  BY DEF SecInv, SecTypes
<1>2. /\ {"ok", "failed", "refused"} \subseteq Security!Answers
      /\ {"start", "verify", "remove", "regenerate", "revoke", "revokeOthers", "password", "refresh"}
           \subseteq Security!Ops
      /\ {"remove", "revoke", "revokeOthers"} \subseteq Security!ListOps
      /\ Security!CodeOps = {"verify", "regenerate"}
  BY DEF Security!Answers, Security!Ops, Security!CodeOps, Security!ListOps
<1>3. CASE Security!StartTOTPEnrollment(c)
  <2>1. Security!Received(c, {"start"})
    BY <1>3 DEF Security!StartTOTPEnrollment
  <2>2. CASE Security!Refuse(c, "failed")
    BY <1>2, <2>1, <2>2, SecRefuses
  <2>3. ASSUME NEW m \in Methods, account.factor[m] = "absent", account' = FactorAs(account, m, "pending"),
               Security!Answer(c, "ok", m)
        PROVE  SecInv'
    <3>2. /\ account' \in SecAccount /\ account'.inForce = account.inForce
          /\ account'.others = account.others
          /\ account'.factor = [account.factor EXCEPT ![m] = "pending"]
      BY <1>1, <2>3, AccountFactor
    <3>3. account.factor \in [Methods -> {"absent", "pending", "verified", "revoked"}]
      BY <1>1 DEF SecAccount
    <3>4. Security!Verified' = Security!Verified
      BY <2>3, <3>2, <3>3 DEF Security!Verified
    <3>5. call[c].op = "start" /\ call[c].answer = None /\ ~Writes(call[c])
      BY <1>2, <2>1 DEF Security!Received, Writes
    <3>6. QED
      BY <1>2, <2>3, <3>2, <3>4, <3>5, SecReplies DEF Writes
  <2>4. QED
    BY <1>3, <2>2, <2>3 DEF Security!StartTOTPEnrollment, FactorAs
<1>4. CASE Security!DeleteMFA(c)
  <2>1. Security!Received(c, {"remove"})
    BY <1>4 DEF Security!DeleteMFA
  <2>2. CASE Security!Refuse(c, "refused") \/ Security!Refuse(c, "failed")
    BY <1>2, <2>1, <2>2, SecRefuses
  <2>3. CASE account' = FactorAs(account, call[c].arg, "revoked") /\ Security!Answer(c, "ok", None)
    <3>1. call[c].op = "remove" /\ call[c].answer = None /\ ~Writes(call[c])
      BY <1>2, <2>1 DEF Security!Received, Writes
    <3>2. call[c].arg \in Methods
      BY <3>1 DEF SecInv, CallsInv, Sound
    <3>3. account' \in SecAccount /\ account'.inForce = account.inForce
      BY <1>1, <2>3, <3>2, AccountFactor
    <3>4. QED
      BY <1>2, <2>3, <3>1, <3>3, SecReplies DEF Writes
  <2>4. QED
    BY <1>4, <2>2, <2>3 DEF Security!DeleteMFA, FactorAs
<1>5. CASE Security!SignOutOthers(c)
  <2>1. Security!Received(c, {"revoke", "revokeOthers", "password"})
    BY <1>5 DEF Security!SignOutOthers
  <2>2. CASE Security!Refuse(c, "refused") \/ Security!Refuse(c, "failed")
    BY <1>2, <2>1, <2>2, SecRefuses
  <2>3. CASE account' = AloneAs(account, FALSE) /\ Security!Answer(c, "ok", None)
    <3>1. /\ call[c].op \in {"revoke", "revokeOthers", "password"} /\ call[c].answer = None
          /\ ~Writes(call[c])
      BY <1>2, <2>1 DEF Security!Received, Writes
    <3>2. account' \in SecAccount /\ account'.inForce = account.inForce
      BY <1>1, <2>3, AccountAlone
    <3>3. QED
      BY <1>2, <2>3, <3>1, <3>2, SecReplies DEF Writes
  <2>4. QED
    BY <1>5, <2>2, <2>3 DEF Security!SignOutOthers, AloneAs
<1>6. CASE Security!ServeMe(c)
  BY <1>2, <1>6, SecRefuses DEF Security!ServeMe
<1>7. QED
  BY <1>3, <1>4, <1>5, <1>6

\* New codes replace the old.
LEMMA SecStores ==
  ASSUME SecInv, NEW c \in Security!Calls,
         Security!VerifyTOTPEnrollment(c) \/ Security!RegenerateRecoveryCodes(c)
  PROVE  SecInv'
<1>1. account \in SecAccount /\ account.made \in 0..MaxSets
  BY DEF SecInv, SecTypes, SecAccount
<1>2. /\ {"ok", "failed", "refused"} \subseteq Security!Answers
      /\ {"verify", "regenerate"} \subseteq Security!Ops
      /\ "regenerate" \in Security!ListOps /\ Security!CodeOps = {"verify", "regenerate"}
  BY DEF Security!Answers, Security!Ops, Security!CodeOps, Security!ListOps
<1>3. /\ call[c].answer = None /\ call[c].op \in {"verify", "regenerate"}
      /\ call[c].op = "verify" => call[c].arg \in Methods
  BY DEF SecInv, CallsInv, Sound, Security!VerifyTOTPEnrollment, Security!RegenerateRecoveryCodes,
         Security!Received
<1>4. Writes(call[c])
  BY <1>2, <1>3 DEF Writes
<1>5. CASE Security!Refuse(c, "refused") \/ Security!Refuse(c, "failed")
  <2>1. Security!Received(c, {"verify", "regenerate"})
    BY <1>3 DEF Security!Received
  <2>2. QED
    BY <1>2, <1>5, <2>1, SecRefuses
<1>6. ASSUME NEW n \in Security!Sets, account' \in SecAccount, account'.inForce = n,
             Security!Answer(c, "ok", n)
      PROVE  SecInv'
  BY <1>2, <1>3, <1>4, <1>6, SecBounds, SecReplies
<1>7. CASE /\ account.made < MaxSets /\ Security!Answer(c, "ok", account.made + 1)
           /\ \/ account' = RenewedAs(account, account.made + 1)
              \/ call[c].op = "verify" /\ account' = VerifiedAs(account, call[c].arg, account.made + 1)
  <2>1. PICK n \in Security!Sets : n = account.made + 1
    BY <1>1, <1>7, SecBounds DEF Security!Sets
  <2>2. account' \in SecAccount /\ account'.inForce = n
    BY <1>1, <1>3, <1>7, <2>1, AccountRenewed
  <2>3. QED
    BY <1>6, <1>7, <2>1, <2>2
<1>8. QED
  <2>1. CASE Security!VerifyTOTPEnrollment(c)
    <3>1. call[c].op = "verify"
      BY <2>1 DEF Security!VerifyTOTPEnrollment, Security!Received
    <3>2. QED
      BY <1>5, <1>7, <2>1, <3>1 DEF Security!VerifyTOTPEnrollment, Security!NewSet, Security!Stored, VerifiedAs
  <2>2. CASE Security!RegenerateRecoveryCodes(c)
    BY <1>5, <1>7, <2>2 DEF Security!RegenerateRecoveryCodes, Security!NewSet, Security!Stored, RenewedAs
  <2>3. QED
    BY <2>1, <2>2

LoadAnswered(c) ==
    \E r \in SecCall : /\ call' = [call EXCEPT ![c] = r] /\ r.op = "load" /\ (r.mine <=> call[c].mine)
                       /\ r.answer = "ok" => r.factors # None /\ r.others # None
                       /\ Lists(call[c]) => Lists(r)

\* Either half of a list is read from the account.
LEMMA LoadServed == ASSUME SecInv, NEW c \in Security!Calls, Security!ServeLoad(c) PROVE SecInv'
<1>1. /\ call[c].op = "load" /\ call[c].answer = None
      /\ account' = account /\ screen' = screen /\ seen' = seen /\ crossed' = crossed /\ untold' = untold
  BY DEF Security!ServeLoad, Security!Received
<1>2. /\ account \in SecAccount /\ account.others \in BOOLEAN /\ call[c] \in SecCall
      /\ call \in [Security!Calls -> SecCall] /\ Security!Verified \in SUBSET Methods
  BY DEF SecInv, SecTypes, SecAccount, Security!Verified
<1>3. PICK o \in BOOLEAN : o = account.others
  BY <1>2
<1>4. Security!Verified # None /\ o # None
  BY <1>2, <1>3, SecBounds
<1>5. LoadAnswered(c)
  <2>1. ASSUME NEW a \in Security!Answers \cup {None}, a = "ok" => call[c].others # None,
               call' = [call EXCEPT ![c].factors = Security!Verified, ![c].answer = a]
        PROVE  LoadAnswered(c)
    <3>1. call' = [call EXCEPT ![c] = FactorsAs(call[c], Security!Verified, a)]
      BY <1>2, <2>1 DEF FactorsAs
    <3>2. PICK r \in SecCall : r = FactorsAs(call[c], Security!Verified, a)
      BY <1>2, CallFactors
    <3>3. /\ r.op = "load" /\ (r.mine <=> call[c].mine) /\ r.answer = a
          /\ r.factors = Security!Verified /\ r.others = call[c].others
      BY <1>1, <1>2, <3>2, CallFactors
    <3>4. Lists(call[c]) => Lists(r)
      BY <3>3 DEF Lists
    <3>5. QED
      BY <1>4, <2>1, <3>1, <3>2, <3>3, <3>4 DEF LoadAnswered
  <2>2. ASSUME NEW a \in Security!Answers \cup {None}, a = "ok" => call[c].factors # None,
               call' = [call EXCEPT ![c].others = account.others, ![c].answer = a]
        PROVE  LoadAnswered(c)
    <3>1. call' = [call EXCEPT ![c] = OthersAs(call[c], o, a)]
      BY <1>2, <1>3, <2>2 DEF OthersAs
    <3>2. PICK r \in SecCall : r = OthersAs(call[c], o, a)
      BY <1>2, <1>3, CallOthers
    <3>3. /\ r.op = "load" /\ (r.mine <=> call[c].mine) /\ r.answer = a
          /\ r.factors = call[c].factors /\ r.others = o
      BY <1>1, <1>2, <1>3, <3>2, CallOthers
    <3>4. Lists(call[c]) => Lists(r)
      BY <1>3, <3>3 DEF Lists
    <3>5. QED
      BY <1>4, <2>2, <3>1, <3>2, <3>3, <3>4 DEF LoadAnswered
  <2>3. "ok" \in Security!Answers /\ None # "ok"
    BY SecBounds DEF Security!Answers
  <2>4. CASE call' = [call EXCEPT ![c].factors = Security!Verified,
                                  ![c].answer = IF call[c].others = None THEN None ELSE "ok"]
    BY <2>1, <2>3, <2>4
  <2>5. CASE call' = [call EXCEPT ![c].others = account.others,
                                  ![c].answer = IF call[c].factors = None THEN None ELSE "ok"]
    BY <2>2, <2>3, <2>5
  <2>6. QED
    BY <2>4, <2>5 DEF Security!ServeLoad
<1>6. PICK r \in SecCall : /\ call' = [call EXCEPT ![c] = r] /\ r.op = "load" /\ (r.mine <=> call[c].mine)
                           /\ r.answer = "ok" => r.factors # None /\ r.others # None
                           /\ Lists(call[c]) => Lists(r)
  BY <1>5 DEF LoadAnswered
<1>7. "load" \notin Security!CodeOps /\ "load" # None
  BY SecBounds DEF Security!CodeOps, Security!Ops
<1>8. SecTypes'
  BY <1>1, <1>6, OneSecCall DEF SecInv, SecTypes
<1>9. CallsInv'
  <2>1. Sound(r)'
    BY <1>6, <1>7 DEF Sound
  <2>2. Awaited(r)'
    BY <1>1, <1>6 DEF SecInv, CallsInv, Awaited
  <2>3. QED
    BY <1>1, <1>6, <2>1, <2>2, CallsFrame
<1>10. EnrolInv'
  BY <1>1, <1>6, EnrolFrame DEF Enrols
<1>11. CodesInv'
  BY <1>1, <1>6, <1>7, CodesFrame DEF Writes
<1>12. Security!CodesNotForgotten'
  <2>1. ~Writes(call[c])
    BY <1>1, <1>7 DEF Writes
  <2>2. QED
    BY <1>1, <1>6, <2>1, CodesStayKnown
<1>13. ListsInv'
  <2>1. Security!Verified' = Security!Verified
    BY <1>1 DEF Security!Verified
  <2>2. Tells(call[c]) => Tells(r)
    BY <1>1, <1>6, SecBounds DEF Tells, Security!Answers
  <2>3. screen'.shown = screen.shown /\ (screen'.enrol = "codes" \/ screen.enrol # "codes")
    BY <1>1
  <2>4. QED
    BY <1>1, <1>6, <2>1, <2>2, <2>3, ListsFrame
<1>14. QED
  BY <1>8, <1>9, <1>10, <1>11, <1>12, <1>13 DEF SecInv

\* The answer does not arrive: what the call did stays done.
LEMMA SecLoses == ASSUME SecInv, NEW c \in Security!Calls, Security!Lose(c) PROVE SecInv'
<1>1. /\ call[c].op # None /\ call[c].answer \in {None, "ok"}
      /\ call' = [call EXCEPT ![c].answer = "failed"]
      /\ seen' = IF call[c].op \in Security!CodeOps THEN seen \cup ({call[c].got} \ {None}) ELSE seen
      /\ untold' = (untold \/ call[c].answer = "ok")
      /\ account' = account /\ screen' = screen /\ crossed' = crossed
  BY DEF Security!Lose, Security!InFlight
<1>2. /\ call \in [Security!Calls -> SecCall] /\ call[c] \in SecCall /\ untold \in BOOLEAN
      /\ call[c].got \in Methods \cup Security!Sets \cup {None} /\ seen \subseteq Security!Sets
  BY DEF SecInv, SecTypes, SecCall
<1>3. Sound(call[c]) /\ Awaited(call[c])
  BY DEF SecInv, CallsInv
<1>4. "failed" \in Security!Answers /\ None # "failed"
  BY SecBounds DEF Security!Answers
<1>5. call' = [call EXCEPT ![c] = AnsweredAs(call[c], "failed", call[c].got)]
  <2>1. AnsweredAs(call[c], "failed", call[c].got) = [call[c] EXCEPT !.answer = "failed"]
    BY <1>2 DEF AnsweredAs, SecCall
  <2>2. call' = [call EXCEPT ![c] = [call[c] EXCEPT !.answer = "failed"]]
    BY <1>1
  <2>3. QED
    BY <2>1, <2>2
<1>6. PICK r \in SecCall : r = AnsweredAs(call[c], "failed", call[c].got)
  BY <1>2, <1>4, CallAnswered
<1>7. /\ call' = [call EXCEPT ![c] = r] /\ r.op = call[c].op /\ r.arg = call[c].arg
      /\ (r.mine <=> call[c].mine) /\ r.answer = "failed" /\ r.got = call[c].got
      /\ r.factors = call[c].factors /\ r.others = call[c].others
  BY <1>2, <1>4, <1>5, <1>6, CallAnswered
<1>8. /\ seen \subseteq seen' /\ seen' \subseteq Security!Sets
      /\ Writes(call[c]) => call[c].got \in seen' \cup {None}
  BY <1>1, <1>2, <1>3 DEF Sound, Writes
<1>9. SecTypes'
  BY <1>1, <1>2, <1>7, <1>8, OneSecCall DEF SecInv, SecTypes
<1>10. CallsInv'
  <2>1. Sound(r)'
    BY <1>3, <1>4, <1>7, <1>8 DEF Sound, Writes
  <2>2. Awaited(r)'
    BY <1>1, <1>3, <1>7 DEF Awaited
  <2>3. QED
    BY <1>1, <1>7, <1>8, <2>1, <2>2, CallsFrame
<1>11. EnrolInv'
  BY <1>1, <1>7, EnrolFrame DEF Enrols
<1>12. CodesInv'
  BY <1>1, <1>7, CodesFrame DEF Writes
<1>13. Security!CodesNotForgotten'
  BY <1>1, <1>7, <1>8, CodesStayKnown
<1>14. ListsInv'
  <2>1. CASE untold'
    BY <2>1 DEF ListsInv
  <2>2. CASE ~untold'
    <3>1. Security!Verified' = Security!Verified
      BY <1>1 DEF Security!Verified
    <3>2. Tells(call[c]) => Tells(r)
      BY <1>1, <1>7, <2>2 DEF Tells
    <3>3. Lists(call[c]) => Lists(r)
      BY <1>7 DEF Lists
    <3>4. screen'.shown = screen.shown /\ (screen'.enrol = "codes" \/ screen.enrol # "codes")
      BY <1>1
    <3>5. /\ untold => untold'
          /\ (r.op = "load" /\ r.mine) => call[c].op = "load" /\ call[c].mine
      BY <1>1, <1>7
    <3>6. account'.others = account.others
      BY <1>1
    <3>7. QED
      BY <1>7, <3>1, <3>2, <3>3, <3>4, <3>5, <3>6, ListsFrame
  <2>3. QED
    BY <2>1, <2>2
<1>15. QED
  BY <1>9, <1>10, <1>11, <1>12, <1>13, <1>14 DEF SecInv

LEMMA SecKeeps == SecInv /\ Security!Next => SecInv'
<1> SUFFICES ASSUME SecInv, Security!Next PROVE SecInv'
  OBVIOUS
<1>1. ASSUME Security!Click, seen' = seen \cup Security!Visible(screen') PROVE SecInv'
  BY <1>1, SecAway, SecShown, EnrolmentCancels DEF Security!Click
<1>2. ASSUME NEW c \in Security!Calls, Security!Event(c), seen' = seen \cup Security!Visible(screen')
      PROVE  SecInv'
  <2>1. CASE \E p \in {"account", "security"} : Security!Open(c, p)
    BY <1>2, <2>1, SecOpens
  <2>2. CASE \/ Security!revokeSession(c) \/ Security!revokeOthers(c) \/ Security!PersonalRevoke(c)
             \/ Security!PersonalRevokeOthers(c) \/ Security!removeMethod(c) \/ Security!regenerateCodes(c)
             \/ Security!PasswordSection(c) \/ Security!PasswordCard(c)
    BY <1>2, <2>2, SecPressed
  <2>3. CASE Security!startEnrol(c) \/ Security!PersonalEnable(c)
    BY <1>2, <2>3, EnrolmentOpens DEF Security!startEnrol, Security!PersonalEnable
  <2>4. CASE Security!onVerify(c)
    BY <1>2, <2>4, EnrolmentVerifies
  <2>5. CASE Security!CompleteEnrolment(c)
    BY <1>2, <2>5, EnrolmentCompletes
  <2>6. QED
    BY <1>2, <2>1, <2>2, <2>3, <2>4, <2>5 DEF Security!Event
<1>3. ASSUME NEW c \in Security!Calls, Security!Settle(c) PROVE SecInv'
  BY <1>3, SecSignedOut, ChangeSettles, EnrolmentSettles, LoadSettles, PasswordSettles, FailureSettles,
     RefreshSettles DEF Security!Settle
<1>4. ASSUME NEW c \in Security!Calls, Security!Serve(c) PROVE SecInv'
  BY <1>4, LoadServed, SecServes, SecStores DEF Security!Serve
<1>5. QED
  BY <1>1, <1>2, <1>3, <1>4, SecLoses DEF Security!Next

-----------------------------------------------------------------------------
(* All pages                                                               *)

PagesInv == /\ site \in {"security", "sso", "look", "console", "wizard"}
            /\ site = "security" => SecInv
            /\ site = "sso" => SsoInv
            /\ site = "look" => LookInv
            /\ site = "console" => ConsoleInv
            /\ site = "wizard" => WizardInv

LEMMA PagesStart == Init => PagesInv
BY SecStart, SsoStart, LookStart, ConsoleStart, WizardStart DEF Init, PagesInv

\* What is true of a page stays true while nothing happens.
LEMMA SecRests == ASSUME SecInv, UNCHANGED vars PROVE SecInv'
<1>1. /\ account' = account /\ screen' = screen /\ call' = call
      /\ seen' = seen /\ crossed' = crossed /\ untold' = untold
  BY DEF vars, securityVars
<1>2. SecTypes'
  BY <1>1 DEF SecInv, SecTypes
<1>3. CallsInv'
  BY <1>1 DEF SecInv, CallsInv, Sound, Awaited
<1>4. EnrolInv'
  BY <1>1 DEF SecInv, EnrolInv, EnrolsAt, Enrols
<1>5. CodesInv'
  BY <1>1 DEF SecInv, CodesInv, ScreenCodes, CallCodes, Writes
<1>6. Security!CodesNotForgotten'
  BY <1>1 DEF SecInv, Security!CodesNotForgotten
<1>7. ListsInv'
  BY <1>1 DEF SecInv, ListsInv, Lists, Told, Tells, Security!Verified
<1>8. QED
  BY <1>2, <1>3, <1>4, <1>5, <1>6, <1>7 DEF SecInv

LEMMA SsoRests == ASSUME SsoInv, UNCHANGED vars PROVE SsoInv'
<1>1. /\ table' = table /\ vouched' = vouched /\ busy' = busy /\ form' = form
      /\ outdated' = outdated /\ call' = call /\ shown' = shown
  BY DEF vars, ssoVars
<1>2. SsoTypes' /\ Removals' /\ Vouched'
  BY <1>1 DEF SsoInv, SsoTypes, Removals, Vouched
<1>3. ListKnows(shown, table)' /\ \A c \in SSO!Slots : Knows(call[c], table)'
  BY <1>1 DEF SsoInv
<1>4. Fresh' /\ SSO!BusyRowsAwait'
  BY <1>1 DEF SsoInv, Fresh, SSO!BusyRowsAwait
<1>5. QED
  BY <1>2, <1>3, <1>4 DEF SsoInv

LEMMA LookRests == ASSUME LookInv, UNCHANGED vars PROVE LookInv'
<1>1. /\ row' = row /\ user' = user /\ look' = look /\ snapshot' = snapshot /\ saving' = saving
      /\ memory' = memory /\ prefs' = prefs /\ load' = load /\ puts' = puts /\ acts' = acts
      /\ chosen' = chosen /\ overtaken' = overtaken /\ call' = call
  BY DEF vars, lookVars
<1>2. LookTyped' /\ PrefsInv'
  BY <1>1 DEF LookInv, LookTyped, PrefsInv
<1>3. ThemeInv'
  BY <1>1 DEF LookInv, ThemeInv, Alone, Stands, AtRest
<1>4. QED
  BY <1>2, <1>3 DEF LookInv

LEMMA ConsoleRests == ASSUME ConsoleInv, UNCHANGED vars PROVE ConsoleInv'
<1>1. /\ kind' = kind /\ order' = order /\ id' = id /\ status' = status /\ mark' = mark
      /\ page' = page /\ route' = route /\ asked' = asked /\ dialog' = dialog
      /\ drawer' = drawer /\ logged' = logged /\ shown' = shown
  BY DEF vars, consoleVars
<1>2. Console!Selected(page, asked)' = Console!Selected(page, asked)
  <2>1. \A i : Console!At(i)' = Console!At(i)
    BY <1>1, AtStays
  <2>2. Console!At(asked)' = Console!At(asked)
    BY <1>1, <2>1 DEF Console!At, Console!SelectInSeq, Console!Min
  <2>3. QED
    BY <1>1, <2>2 DEF Console!Selected, Console!Filtered, Console!Found, Console!First, Console!Copy
<1>3. StoreTyped' /\ MadeInOrder' /\ PageTyped' /\ DialogIsOfARow'
  BY <1>1 DEF ConsoleInv, StoreTyped, MadeInOrder, PageTyped, DialogIsOfARow, Made
<1>4. Console!ActsOnTheRowChosen' /\ DrawerIsACopy'
  BY <1>1 DEF ConsoleInv, DrawerIsACopy, Made, Console!ActsOnTheRowChosen, Console!DrawerIsCurrent,
              Console!Ambiguous, Console!Copy
<1>5. QED
  BY <1>1, <1>2, <1>3, <1>4 DEF ConsoleInv

LEMMA WizardRests == ASSUME WizardInv, UNCHANGED vars PROVE WizardInv'
BY DEF WizardInv, vars, wizardVars, Wizard!TypeOK, Wizard!StepsBehindAreValid, Wizard!SuccessNamesTheLast

LEMMA PagesKeep == PagesInv /\ [Next]_vars => PagesInv'
<1> SUFFICES ASSUME PagesInv, [Next]_vars PROVE PagesInv'
  OBVIOUS
<1>1. CASE SecurityStep
  BY <1>1, SecKeeps DEF SecurityStep, PagesInv
<1>2. CASE SSOStep
  BY <1>2, SsoKeeps DEF SSOStep, PagesInv
<1>3. CASE LookStep
  BY <1>3, LookKeeps DEF LookStep, PagesInv
<1>4. CASE ConsoleStep
  BY <1>4, ConsoleKeeps DEF ConsoleStep, PagesInv
<1>5. CASE WizardStep
  BY <1>5, WizardKeeps DEF WizardStep, PagesInv
<1>6. CASE UNCHANGED vars
  <2>1. site' = site
    BY <1>6 DEF vars
  <2>2. QED
    BY <1>6, <2>1, SecRests, SsoRests, LookRests, ConsoleRests, WizardRests DEF PagesInv
<1>7. QED
  BY <1>1, <1>2, <1>3, <1>4, <1>5, <1>6 DEF Next

LEMMA PagesInductive == Spec => []PagesInv
BY PagesStart, PagesKeep, PTL DEF Spec

\* Every page only ever holds what its types allow, whatever the user clicks and
\* in whatever order the answers of the API arrive.
THEOREM PagesTypeCorrect == Spec => []TypeOK
<1>1. PagesInv => TypeOK
  BY SecHolds, SsoHolds, LookHolds, ConsoleHolds DEF PagesInv, TypeOK, WizardInv
<1>2. QED
  BY <1>1, PagesInductive, PTL

\* What a page shows at rest is what the server or the store holds, for any number
\* of overlapping calls: unless a page cannot know, the lists of the security page,
\* the providers, the operator's theme, the rows of the store, the incident in the
\* drawer and the organization last made are current, and a busy row awaits a call.
THEOREM PagesShowWhatIsStored == Spec => []ShownIsStored
<1>1. PagesInv => ShownIsStored
  BY SecHolds, SsoHolds, LookHolds, ConsoleHolds DEF PagesInv, ShownIsStored, WizardInv
<1>2. QED
  BY <1>1, PagesInductive, PTL

\* AccountSecurityPage and InlineTotpEnroll: recovery codes on screen are those the
\* server accepts while writers do not overlap, and codes that replaced the old ones
\* are, or will be, shown to the owner unless their answer was lost.
THEOREM RecoveryCodesReachTheOwner == Spec => []CodesReachTheOwner
<1>1. PagesInv => CodesReachTheOwner
  BY SecHolds DEF PagesInv, CodesReachTheOwner
<1>2. QED
  BY <1>1, PagesInductive, PTL

\* SSO administration: no provider is enabled whose present secret was not found
\* good by a connection test, however tests, edits and enables overlap.
THEOREM EnabledProvidersWereTested == Spec => []EnabledWasTested
<1>1. PagesInv => EnabledWasTested
  BY SsoHolds DEF PagesInv, EnabledWasTested
<1>2. QED
  BY <1>1, PagesInductive, PTL

\* NavigationPreferencesContext: an edit is not taken back by the answer to an
\* earlier load, and the server ends with it once every write has arrived.
THEOREM PreferenceEditsAreKept == Spec => []EditsAreKept
<1>1. PagesInv => EditsAreKept
  BY LookHolds DEF PagesInv, EditsAreKept
<1>2. QED
  BY <1>1, PagesInductive, PTL

\* adminStore.ts: the row a mutation changes and the audit entry names is the row
\* the operator chose, as long as ids tell the rows apart.
THEOREM OperationsHitTheRowChosen == Spec => []ActsOnTheRowChosen
<1>1. PagesInv => ActsOnTheRowChosen
  BY ConsoleHolds DEF PagesInv, ActsOnTheRowChosen
<1>2. QED
  BY <1>1, PagesInductive, PTL

\* The wizard: every step behind the current one is filled in correctly, whatever
\* was gone back to and changed.
THEOREM WizardStepsBehindAreValid == Spec => []StepsBehindAreValid
<1>1. PagesInv => StepsBehindAreValid
  BY DEF PagesInv, StepsBehindAreValid, WizardInv
<1>2. QED
  BY <1>1, PagesInductive, PTL
=============================================================================
