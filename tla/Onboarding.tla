------------------------------ MODULE Onboarding ------------------------------
(***************************************************************************)
(* The wizard that onboards an organization                                *)
(* (OrganizationOnboardingPage.tsx): one form over several steps, of which *)
(* only the fields of the current step are on screen.  "Next" validates    *)
(* these, activation the whole form; a field that went wrong on a step     *)
(* left behind would refuse the activation without a word.  A click and    *)
(* the validation it waits for end before the next click.                  *)
(***************************************************************************)
EXTENDS Naturals

CONSTANTS
    MaxMade,   \* bounds how many organizations are made
    None

Bounds == MaxMade \in Nat

VARIABLES
    step,           \* currentStep
    invalid,        \* steps with a field the schema refuses
    isActivated,
    createdOrgId,   \* the organizations are numbered as they are made
    made

wizard == <<step, invalid, isActivated, createdOrgId>>
vars == <<wizard, made>>

Review == 7
Activate == 8
Steps == 1..Activate

\* Steps with a text or a number to fill in; on the others every choice is right.
CanGoWrong == {1, 2, 4, 6}

-----------------------------------------------------------------------------
GoTo(s) == step' = s /\ UNCHANGED <<invalid, isActivated, createdOrgId, made>>

\* The fields on screen are edited; they become right or wrong.
Edit ==
    /\ step \in CanGoWrong
    /\ invalid' \in {invalid \cup {step}, invalid \ {step}}
    /\ invalid' # invalid
    /\ UNCHANGED <<step, isActivated, createdOrgId, made>>

\* Mutant: quotas are not validated on the way.
PassesButQuotas(s) == s = 4 \/ s \notin invalid

\* form.trigger(STEP_FIELDS[currentStep])
Passes(s) == s \notin invalid

handleNext ==
    /\ step < Review /\ Passes(step)
    /\ GoTo(step + 1)

\* Mutant: "Back" is there on the first step too.
BackFromFirst == step < Activate /\ GoTo(step - 1)

Back == step \in 2..Review /\ GoTo(step - 1)

\* The breadcrumb of a step further on is disabled; those behind work also from
\* the last step, back into the form that was sent.
Breadcrumb(s) == s < step /\ GoTo(s)

\* handleSubmit: the whole form must be valid.  The Enter key submits too: before
\* the review that is "Next".
SubmitEarly == invalid = {} /\ handleNext

\* Mutant: the success page names the organization of the first activation.
CreatedFirst == IF isActivated THEN createdOrgId ELSE made + 1

\* setCreatedOrgId(org.id)
Created == made + 1

onSubmit ==
    /\ step = Review /\ invalid = {}
    /\ made < MaxMade /\ made' = made + 1
    /\ createdOrgId' = Created
    /\ isActivated' = TRUE
    /\ step' = Activate
    /\ UNCHANGED invalid

\* The page is left and opened again; a draft is not kept ("Save Draft" only says so).
Reopen ==
    /\ step # 1
    /\ step' = 1 /\ invalid' = {1, 2} /\ isActivated' = FALSE /\ createdOrgId' = None
    /\ UNCHANGED made

-----------------------------------------------------------------------------
Init ==
    /\ step = 1 /\ invalid = {1, 2}
    /\ isActivated = FALSE /\ createdOrgId = None
    /\ made = 0

Next ==
    \/ Edit \/ handleNext \/ Back \/ SubmitEarly \/ onSubmit \/ Reopen
    \/ \E s \in Steps : Breadcrumb(s)

Spec == Init /\ [][Next]_vars

-----------------------------------------------------------------------------
TypeOK ==
    /\ step \in Steps /\ invalid \subseteq CanGoWrong
    /\ isActivated \in BOOLEAN /\ made \in 0..MaxMade
    /\ createdOrgId \in 1..MaxMade \cup {None}

\* Whatever was gone back to and changed, the steps behind the current one are
\* filled in correctly: "Activate Organization" is never refused in silence over
\* a field that is not on screen.
StepsBehindAreValid == \A s \in invalid : s >= step

\* The last step shows its success page, for the organization made last, also
\* when the operator went back from it and activated once more.
SuccessNamesTheLast == step = Activate => isActivated /\ createdOrgId = made
=============================================================================
