------------------------------ MODULE HireFlow ------------------------------
(***************************************************************************)
(* Hiring from the screen: the drawer of                                   *)
(* apps/desktop/renderer/src/org/HireDrawer.tsx, its states                *)
(* (org/hire-flow.ts), and as much of the control plane as it hears from:  *)
(* the turn each POST /hire waits for (routes/hire.ts), the hire.progress  *)
(* it publishes and the answer.                                            *)
(*                                                                         *)
(* The drawer keeps one timer and one subscription in refs, whatever       *)
(* submissions are still unanswered: 60 seconds without an answer or an    *)
(* event end a submission on the screen, never in the control plane.       *)
(* A draft is the id it asks for; the other fields decide nothing here.    *)
(***************************************************************************)
EXTENDS Naturals, Sequences, FiniteSets

CONSTANTS
  Wanted,    \* the ids the operator may fill in
  MaxPosts,  \* bound of the model: submissions
  NoId

Posts == 1..MaxPosts

VARIABLES
  drawer,    \* open, phase, draft, retryable, and the id in the form
  timer,     \* stallTimer.current: "off", "armed", or "fired" and not cleared
  watched,   \* the position the subscription listens for, or NoId
  post,      \* each submission: where it is in the control plane, its id, what it comes to,
             \* whether the drawer has been told, and whether it is a retry
  hired,     \* the positions of the organization
  progress   \* hire.progress events on their way, each the id it is about

hireVars == <<drawer, timer, watched, post, hired, progress>>

HireInit ==
  /\ drawer = [open |-> FALSE, phase |-> "draft", draft |-> NoId, retryable |-> FALSE, form |-> NoId]
  /\ timer = "off" /\ watched = NoId
  /\ post = [n \in Posts |-> [at |-> "new", id |-> NoId, outcome |-> NoId, told |-> "no", retry |-> FALSE]]
  /\ hired = {} /\ progress = <<>>

Posted == {n \in Posts : post[n].at # "new"}
Latest == Cardinality(Posted)

-----------------------------------------------------------------------------
(* The operator *)

OpenDrawer ==
  /\ ~ drawer.open
  /\ drawer' = [drawer EXCEPT !.open = TRUE]
  /\ UNCHANGED <<timer, watched, post, hired, progress>>

FillIn ==
  /\ drawer.open /\ drawer.phase = "draft"
  /\ \E id \in Wanted \ {drawer.form} : drawer' = [drawer EXCEPT !.form = id]
  /\ UNCHANGED <<timer, watched, post, hired, progress>>

\* The drawer's own close button, refused while a submission is under way; the cancel button
\* of a draft leaves the timer and the subscription of an earlier one.
CloseDrawer ==
  /\ drawer.open /\ drawer.phase \notin {"submitting", "approval"}
  /\ drawer' = [drawer EXCEPT !.open = FALSE]
  /\ \/ timer' = "off" /\ watched' = NoId
     \/ drawer.phase = "draft" /\ UNCHANGED <<timer, watched>>
  /\ UNCHANGED <<post, hired, progress>>

\* dispatch edit and submit, armStallTimer, and the request.
Submits(id, retry) ==
  /\ Latest < MaxPosts
  /\ drawer' = [drawer EXCEPT !.phase = "submitting", !.draft = id]
  /\ timer' = "armed" /\ watched' = id
  /\ post' = [post EXCEPT ![Latest + 1] =
                [at |-> "sent", id |-> id, outcome |-> NoId, told |-> "no", retry |-> retry]]
  /\ UNCHANGED <<hired, progress>>

Submit ==
  /\ drawer.open /\ drawer.phase = "draft" /\ drawer.form # NoId
  /\ Submits(drawer.form, FALSE)

Retry ==
  /\ drawer.open /\ drawer.phase = "failed" /\ drawer.retryable
  /\ Submits(drawer.draft, TRUE)

\* The other button of a failure: back to the form.
EditAgain ==
  /\ drawer.open /\ drawer.phase = "failed"
  /\ drawer' = [drawer EXCEPT !.phase = "draft"]
  /\ UNCHANGED <<timer, watched, post, hired, progress>>

-----------------------------------------------------------------------------
(* The control plane *)

Gates == {"validate", "stage", "apply"}

\* emitHireProgress, at the boundaries of the gates only.
Emits(id) == progress' = Append(progress, id)

Goes(n, gate) == post' = [post EXCEPT ![n].at = gate]

\* It is over, and the answer is on its way unless the connection has been lost.
Replies(n, outcome) ==
  post' = [post EXCEPT ![n].at = "over",
                       ![n].outcome = IF post[n].told = "no" THEN outcome ELSE @,
                       ![n].told = IF @ = "no" THEN "coming" ELSE @]

Failures == {"retryable", "final"}

\* withOrgMutationLock: one hire at a time, in no order the drawer relies on.
Admit(n) ==
  /\ post[n].at = "sent" /\ \A o \in Posts : post[o].at \notin Gates
  /\ IF post[n].id \in hired
     THEN Replies(n, "final") /\ UNCHANGED progress
     ELSE Goes(n, "validate") /\ Emits(post[n].id)
  /\ UNCHANGED <<drawer, timer, watched, hired>>

\* A gate is passed, or the hire fails there.
Pass(n) ==
  /\ \/ post[n].at = "validate" /\ Goes(n, "stage") /\ Emits(post[n].id) /\ UNCHANGED hired
     \/ post[n].at = "stage" /\ Goes(n, "apply") /\ Emits(post[n].id) /\ UNCHANGED hired
     \/ post[n].at = "apply" /\ Replies(n, "hired") /\ hired' = hired \cup {post[n].id} /\ UNCHANGED progress
  /\ UNCHANGED <<drawer, timer, watched>>

Refuse(n) ==
  /\ post[n].at \in Gates
  /\ \E outcome \in Failures : Replies(n, outcome)
  /\ UNCHANGED <<drawer, timer, watched, hired, progress>>

\* The connection is lost; the control plane goes on with what it has begun.
Unreachable(n) ==
  /\ post[n].at # "new" /\ post[n].told = "no"
  /\ post' = [post EXCEPT ![n].outcome = "retryable", ![n].told = "coming"]
  /\ UNCHANGED <<drawer, timer, watched, hired, progress>>

-----------------------------------------------------------------------------
(* The drawer *)

\* reduceHireFlow: succeed and fail count only while a submission is under way.
Succeeds(d) == IF d.phase = "submitting" THEN [d EXCEPT !.phase = "succeeded"] ELSE d
Fails(d, retryable) ==
  IF d.phase = "submitting" THEN [d EXCEPT !.phase = "failed", !.retryable = retryable] ELSE d

\* onClose, and for a first attempt the drawer is emptied for the next.
Concludes(d, retry) ==
  IF retry THEN [d EXCEPT !.open = FALSE]
  ELSE [d EXCEPT !.open = FALSE, !.phase = "draft", !.draft = NoId, !.form = NoId]

\* The answer to any submission clears the timer and the subscription.
AnswerHire(n) ==
  /\ post[n].told = "coming"
  /\ timer' = "off" /\ watched' = NoId
  /\ drawer' = IF post[n].outcome = "hired" THEN Concludes(Succeeds(drawer), post[n].retry)
               ELSE Fails(drawer, post[n].outcome = "retryable")
  /\ post' = [post EXCEPT ![n].told = "yes"]
  /\ UNCHANGED <<hired, progress>>

\* Variant: an event stops the timer and does not start it again (refuted by WaitIsWatched).
StopsOnly(clock) == "off"

\* The 60 seconds begin again, also if they had passed and the timer was not cleared since.
Restarts(clock) == IF clock = "off" THEN "off" ELSE "armed"

HearProgress ==
  /\ progress # <<>>
  /\ progress' = Tail(progress)
  /\ timer' = IF watched = Head(progress) THEN Restarts(timer) ELSE timer
  /\ UNCHANGED <<drawer, watched, post, hired>>

\* The event stream is down.
LoseProgress ==
  /\ progress # <<>>
  /\ progress' = Tail(progress)
  /\ UNCHANGED <<drawer, timer, watched, post, hired>>

\* hire_timeout
Stall ==
  /\ timer = "armed"
  /\ timer' = "fired"
  /\ drawer' = Fails(drawer, TRUE)
  /\ UNCHANGED <<watched, post, hired, progress>>

HireNext ==
  \/ OpenDrawer \/ FillIn \/ CloseDrawer \/ Submit \/ Retry \/ EditAgain
  \/ \E n \in Posts : Admit(n) \/ Pass(n) \/ Refuse(n) \/ Unreachable(n) \/ AnswerHire(n)
  \/ HearProgress \/ LoseProgress \/ Stall

HireSpec == HireInit /\ [][HireNext]_hireVars

-----------------------------------------------------------------------------
(* Properties *)

(***************************************************************************)
(* HireDrawer.tsx:38, "60s without any event or response -> S4 failure,    *)
(* never wait forever": whenever a submission is under way the timer that  *)
(* would end it is running and the subscription is its own, whatever       *)
(* events, lost events, timeouts and closings came before.  An answer to   *)
(* an earlier submission clears the timer they share (HireDrawer.tsx:155,  *)
(* :190), but decides the later one with it: that may end too early, never *)
(* wait unwatched.                                                         *)
(***************************************************************************)
WaitIsWatched ==
  drawer.phase = "submitting" => timer = "armed" /\ watched = drawer.draft
=============================================================================
