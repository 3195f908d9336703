------------------------------- MODULE WebForms -------------------------------
(***************************************************************************)
(* Two screens of which something must come of itself: the pages behind    *)
(* mailed links, and the brand theme.  They share no state, so a behaviour *)
(* follows one of them, its site; the variables of the other are None.     *)
(***************************************************************************)
EXTENDS Naturals

CONSTANTS Tabs, MaxLinks, Fields, Saves, MaxVersion, None

VARIABLES
    site,
    owner, link, made, mailed, tab,
    published, page, look, theme, due, shell, owns, document, seen, call, publishing, preview, missed

Links == INSTANCE AccountLinks
Brand == INSTANCE BrandTheme

ASSUME FormsBounds == Links!Bounds /\ Brand!Bounds

links == <<owner, link, made, mailed, tab>>
brand == <<published, page, look, theme, due, shell, owns, document, seen, call, publishing,
           preview, missed>>
vars == <<site, links, brand>>

-----------------------------------------------------------------------------
NoLinks == owner = None /\ link = None /\ made = None /\ mailed = None /\ tab = None
NoBrand ==
    /\ published = None /\ page = None /\ look = None /\ theme = None /\ due = None
    /\ shell = None /\ owns = None /\ document = None /\ seen = None /\ call = None
    /\ publishing = None /\ preview = None /\ missed = None

Init ==
    \/ site = "links" /\ Links!Init /\ NoBrand
    \/ site = "brand" /\ Brand!Init /\ NoLinks

OnLinks(A) == site = "links" /\ A /\ UNCHANGED <<site, brand>>
OnBrand(A) == site = "brand" /\ A /\ UNCHANGED <<site, links>>

Next == OnLinks(Links!Next) \/ OnBrand(Brand!Next)

\* A tab's answers are handled, its call is served or fails, rows and deadlocks
\* are released; the timer of the poll goes off, its calls end and are handled,
\* and of the polls sent for ever some are answered.
Fairness ==
    /\ \A x \in Tabs : WF_vars(OnLinks(Links!Settle(x))) /\ SF_vars(OnLinks(Links!Serve(x)))
    /\ WF_vars(OnBrand(Brand!PollTimer)) /\ WF_vars(OnBrand(Brand!PollSettles))
    /\ WF_vars(OnBrand(Brand!Answer("poll"))) /\ SF_vars(OnBrand(Brand!GetTheme("poll")))

Spec == Init /\ [][Next]_vars /\ Fairness

-----------------------------------------------------------------------------
TypeOK ==
    /\ site = "links" => Links!TypeOK
    /\ site = "brand" => Brand!TypeOK

\* "Can only be used once", whatever tabs and resets do at the same time: no two
\* tabs report that one link worked, and where "Password updated" is shown no
\* link that was out when the reset got to them can change the password again.
LinksWorkOnce == site = "links" => Links!LinksWorkOnce /\ Links!OldLinksAreDead

\* Every submitted form gets its button or its answer back, also when two resets
\* wait for each other's rows.
FormsAnswer ==
    \A x \in Tabs : (site = "links" /\ Links!Waiting(x)) ~> ~(site = "links" /\ Links!Waiting(x))

\* Brand and personal theme paint the same document: while answers, edits and
\* pages come in any order, a dashboard with a theme of its own never shows the
\* brand, every other page shows the theme its provider holds, also after the
\* dashboard closed, unless it closed before it had rendered that theme.
DocumentShowsItsTheme == site = "brand" => Brand!DocumentShowsItsTheme

\* A theme published anywhere reaches every open page, unless it shows an
\* unpublished change of its own.
CatchesUp == (site = "brand" /\ Brand!Behind) ~> ~(site = "brand" /\ Brand!Behind)
=============================================================================
