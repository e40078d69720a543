--------------------------- MODULE RendererProofs ---------------------------
(***************************************************************************)
(* Proofs about the renderer: the canvas of the organization, the drawer   *)
(* that hires and the conversation on the screen, for any number of calls, *)
(* refreshes, submissions, positions and sessions.                         *)
(*                                                                         *)
(* What makes the canvas right is that every change leaves an event, a     *)
(* call or a refresh that will read the tree, and that among the answers   *)
(* still to come all those read before the newest know that they are late  *)
(* once it is shown (Current).  What makes the conversation right is that  *)
(* a call remembers the position it was made for and what is answered are  *)
(* sessions of that position (AskIsOf), and that a session is of one       *)
(* position only (ChainTypes).                                             *)
(*                                                                         *)
(* What makes a drop right is that one call at a time locks the canvas     *)
(* (OneCall) and that what is shown while none does has the order of the   *)
(* tree for all positions it shows (ShownOK, SameOrder), though others may *)
(* have been hired meanwhile; and that the overlay and the one that an     *)
(* undo puts back list no others before a child (Tidy).                    *)
(***************************************************************************)
EXTENDS OrgCanvas, HireFlow, SessionMount, FiniteSetTheorems, WellFoundedInduction, TLAPS

-----------------------------------------------------------------------------
(* OrgCanvas *)

\* A task has the fields the proof needs.
Fielded(r) == {"at", "kind", "changes", "gesture", "tree", "after", "late"} \subseteq DOMAIN r

\* The tasks whose answer has been read and is not shown yet, and those that will read.
Answers == {x \in Tasks : task[x].at = "read"}
WillRead == {x \in Tasks : task[x].at \in {"ok", "asking", "open"}}

\* The types of what the proof needs.
CanvasTypes ==
  /\ task = [x \in Tasks |-> task[x]]
  /\ \A x \in Tasks : /\ Fielded(task[x]) /\ task[x].late \in BOOLEAN
                      /\ task[x].at \in {"new", "sent", "ok", "refused", "asking", "open", "read", "cards", "done"}
  /\ news \in Nat /\ faults \in Nat /\ opened \in BOOLEAN /\ overtaken \in BOOLEAN

\* The order of reading: after is about answers to come, and nothing is read before itself.
ReadInOrder ==
  /\ \A x \in Tasks : task[x].after \subseteq Answers
  /\ \A x \in Tasks \ Answers : task[x].after = {} /\ ~ task[x].late
  /\ \A x, y \in Answers : x \in task[y].after => y \notin task[x].after

\* The tree as it is now will be read, or has been read last, or has been shown last; in the last
\* case everything still to come is late, as it is after an answer that was itself late.
Current ==
  \/ news > 0 \/ WillRead # {}
  \/ \E x \in Answers : task[x].tree = Lists /\ ~ task[x].late /\ Answers \ {x} \subseteq task[x].after
  \/ (shown = Lists \/ overtaken) /\ \A y \in Answers : task[y].late

\* The inductive invariant of OrgCanvas: after a fault nothing is promised.
CanvasInv == CanvasTypes /\ (faults = 0 => ReadInOrder /\ (opened => Current))

\* A task that reads nothing is set to r: what could be lost by it is said by its last hypothesis.
LEMMA OtherTask ==
  ASSUME CanvasInv, NEW x \in Tasks, NEW r, task' = [task EXCEPT ![x] = r],
         Fielded(r), r.late \in BOOLEAN,
         r.at \in {"new", "sent", "ok", "refused", "asking", "open", "cards", "done"},
         news' \in Nat, faults' \in Nat, opened' \in BOOLEAN, overtaken' \in BOOLEAN,
         faults' = 0 => /\ faults = 0 /\ task[x].at # "read" /\ r.after = {} /\ ~ r.late
                        /\ \/ r.at \in {"ok", "asking", "open"}
                           \/ /\ UNCHANGED <<news, opened, Lists, shown, overtaken>>
                              /\ task[x].at \notin {"ok", "asking", "open"}
  PROVE  CanvasInv'
<1>1. task' = [y \in Tasks |-> IF y = x THEN r ELSE task[y]]
  BY DEF CanvasInv, CanvasTypes
<1>2. CanvasTypes'
  BY <1>1 DEF CanvasInv, CanvasTypes, Fielded
<1>3. \A y \in Tasks : y # x => task'[y] = task[y]
  BY <1>1
<1>4. task'[x] = r
  BY <1>1
<1>5. ASSUME faults' = 0 PROVE Answers' = Answers /\ x \notin Answers
  BY <1>3, <1>4, <1>5 DEF Answers
<1>6. ASSUME faults' = 0 PROVE ReadInOrder'
  BY <1>3, <1>4, <1>5, <1>6 DEF CanvasInv, ReadInOrder
<1>7. ASSUME faults' = 0, opened' PROVE Current'
  <2>1. CASE r.at \in {"ok", "asking", "open"}
    <3>1. x \in WillRead'
      BY <2>1, <1>4 DEF WillRead
    <3>. QED BY <3>1 DEF Current
  <2>2. CASE UNCHANGED <<news, opened, Lists, shown, overtaken>> /\ task[x].at \notin {"ok", "asking", "open"}
    <3>1. WillRead \subseteq WillRead'
      BY <2>2, <1>3 DEF WillRead
    <3>2. Current
      BY <2>2, <1>7 DEF CanvasInv
    <3>. QED BY <2>2, <3>1, <3>2, <1>3, <1>5, <1>7 DEF Current
  <2>. QED BY <2>1, <2>2, <1>7
<1>. QED BY <1>2, <1>6, <1>7 DEF CanvasInv

\* The first answer is on its way: it was read last.
LEMMA OneMoreRead ==
  ASSUME CanvasInv, NEW x \in Tasks, NEW tree, Reads(x, tree), task[x].at \in {"asking", "open"},
         opened => tree = Lists, UNCHANGED <<plane, news, canvas, observed>>
  PROVE  CanvasInv'
<1>. DEFINE r == [task[x] EXCEPT !.at = "read", !.tree = tree, !.after = Answers]
<1>0. Lists' = Lists /\ news' = news /\ faults' = faults /\ opened' = opened /\ shown' = shown
        /\ overtaken' = overtaken
  BY DEF plane, canvas, observed, Lists
<1>1. task' = [y \in Tasks |-> IF y = x THEN r ELSE task[y]]
  BY DEF CanvasInv, CanvasTypes, Reads, Answers
<1>2. Fielded(r) /\ r.at = "read" /\ r.tree = tree /\ r.after = Answers /\ r.late = task[x].late
  <2>1. Fielded(task[x])
    BY DEF CanvasInv, CanvasTypes
  <2>. QED BY <2>1 DEF Fielded
<1>. HIDE DEF r
<1>3. CanvasTypes'
  BY <1>0, <1>1, <1>2 DEF CanvasInv, CanvasTypes, Fielded
<1>4. (\A y \in Tasks : y # x => task'[y] = task[y]) /\ task'[x] = r
  BY <1>1
<1>5. Answers' = Answers \cup {x} /\ x \notin Answers
  BY <1>2, <1>4 DEF Answers
<1>6. ASSUME faults = 0 PROVE ReadInOrder'
  <2>1. ReadInOrder
    BY <1>6 DEF CanvasInv
  <2>2. \A y \in Tasks : task'[y].after \subseteq Answers
    BY <2>1, <1>2, <1>4 DEF ReadInOrder
  <2>3. \A y \in Tasks \ Answers' : task'[y].after = {} /\ ~ task'[y].late
    BY <2>1, <1>4, <1>5 DEF ReadInOrder
  <2>4. ASSUME NEW y \in Answers', NEW z \in Answers', y \in task'[z].after PROVE z \notin task'[y].after
    <3>1. z # x => z \in Answers /\ y \in task[z].after
      BY <2>4, <1>4, <1>5 DEF Answers
    <3>2. z = x => y \in Answers /\ y # x
      BY <2>4, <1>2, <1>4, <1>5
    <3>3. CASE z = x
      <4>1. y \in Tasks /\ task'[y] = task[y] /\ task[y].after \subseteq Answers
        BY <3>2, <3>3, <2>1, <1>4 DEF Answers, ReadInOrder
      <4>. QED BY <4>1, <3>3, <1>5
    <3>4. CASE z # x
      <4>1. z \in Tasks /\ z \in Answers /\ task[z].after \subseteq Answers /\ y \in task[z].after
        BY <3>1, <3>4, <2>1 DEF Answers, ReadInOrder
      <4>2. y \in Answers /\ y \in Tasks /\ task'[y] = task[y]
        BY <4>1, <1>4, <1>5 DEF Answers
      <4>. QED BY <4>1, <4>2, <2>1 DEF ReadInOrder
    <3>. QED BY <3>3, <3>4
  <2>. QED BY <2>2, <2>3, <2>4, <1>5 DEF ReadInOrder
<1>7. ASSUME faults = 0, opened PROVE Current'
  <2>1. ~ task[x].late
    BY <1>5, <1>7 DEF CanvasInv, ReadInOrder
  <2>2. x \in Answers' /\ task'[x].tree = Lists' /\ ~ task'[x].late /\ Answers' \ {x} \subseteq task'[x].after
    BY <2>1, <1>0, <1>2, <1>4, <1>5, <1>7
  <2>. QED BY <2>2 DEF Current
<1>. QED BY <1>0, <1>3, <1>6, <1>7 DEF CanvasInv

\* An answer is shown: those read before it are late from now on.
LEMMA OneMoreShown ==
  ASSUME CanvasInv, NEW x \in Tasks, ShowTree(x)
  PROVE  CanvasInv'
<1>. DEFINE next == IF task[x].kind \in {"adjust", "undo"} THEN [task[x] EXCEPT !.at = "cards", !.tree = None]
                    ELSE Over(x)
            mine == [next EXCEPT !.after = {}, !.late = FALSE]
            other(y) == [task[y] EXCEPT !.after = @ \ {x}, !.late = @ \/ y \in task[x].after]
<1>0. /\ task[x].at = "read" /\ shown' = task[x].tree /\ overtaken' = task[x].late
      /\ task' = [y \in Tasks |-> IF y = x THEN mine ELSE other(y)]
      /\ news' = news /\ faults' = faults /\ opened' = opened /\ Lists' = Lists
  BY DEF ShowTree, plane, Lists
<1>1. Fielded(mine) /\ mine.after = {} /\ mine.late = FALSE /\ mine.at \in {"new", "cards", "done"}
  <2>1. Fielded(task[x])
    BY DEF CanvasInv, CanvasTypes
  <2>2. CASE task[x].kind \in {"adjust", "undo"}
    <3>1. next = [task[x] EXCEPT !.at = "cards", !.tree = None]
      BY <2>2
    <3>2. Fielded(next) /\ next.at = "cards"
      BY <2>1, <3>1 DEF Fielded
    <3>. HIDE DEF next
    <3>. QED BY <3>2 DEF Fielded
  <2>3. CASE task[x].kind \notin {"adjust", "undo"}
    <3>1. Fielded(next) /\ next.at \in {"new", "done"}
      BY <2>3 DEF Fielded, Over, Fresh
    <3>. HIDE DEF next
    <3>. QED BY <3>1 DEF Fielded
  <2>. QED BY <2>2, <2>3
<1>2. \A y \in Tasks : /\ Fielded(other(y)) /\ other(y).after = task[y].after \ {x}
                       /\ other(y).late = (task[y].late \/ y \in task[x].after)
                       /\ other(y).at = task[y].at /\ other(y).tree = task[y].tree
  <2>. SUFFICES ASSUME NEW y \in Tasks
                PROVE /\ Fielded(other(y)) /\ other(y).after = task[y].after \ {x}
                      /\ other(y).late = (task[y].late \/ y \in task[x].after)
                      /\ other(y).at = task[y].at /\ other(y).tree = task[y].tree
    OBVIOUS
  <2>1. Fielded(task[y])
    BY DEF CanvasInv, CanvasTypes
  <2>. QED BY <2>1 DEF Fielded
<1>. HIDE DEF mine, other
<1>3. task'[x] = mine /\ (\A y \in Tasks : y # x => task'[y] = other(y))
  BY <1>0
<1>4. CanvasTypes'
  <2>1. \A y \in Tasks : other(y).late \in BOOLEAN /\ task[y].late \in BOOLEAN
    BY <1>2 DEF CanvasInv, CanvasTypes
  <2>2. task' = [y \in Tasks |-> task'[y]]
    BY <1>0
  <2>3. \A y \in Tasks : Fielded(task'[y])
    BY <1>1, <1>2, <1>3 DEF Fielded
  <2>4. \A y \in Tasks : task'[y].late \in BOOLEAN
    BY <1>1, <1>3, <2>1
  <2>5. \A y \in Tasks : task'[y].at \in {"new", "sent", "ok", "refused", "asking", "open", "read", "cards", "done"}
    BY <1>1, <1>2, <1>3 DEF CanvasInv, CanvasTypes
  <2>6. overtaken' \in BOOLEAN /\ news' \in Nat /\ faults' \in Nat /\ opened' \in BOOLEAN
    BY <1>0, <2>1 DEF CanvasInv, CanvasTypes
  <2>. QED BY <2>2, <2>3, <2>4, <2>5, <2>6 DEF CanvasTypes, Fielded
<1>5. Answers' = Answers \ {x} /\ x \in Answers
  BY <1>0, <1>1, <1>2, <1>3 DEF Answers
<1>6. ASSUME faults = 0 PROVE ReadInOrder'
  <2>1. ReadInOrder
    BY <1>6 DEF CanvasInv
  <2>2. \A y \in Tasks : task'[y].after \subseteq Answers'
    BY <2>1, <1>1, <1>2, <1>3, <1>5 DEF ReadInOrder
  <2>3. \A y \in Tasks : task[x].after \subseteq Answers
    BY <2>1 DEF ReadInOrder
  <2>4. \A y \in Tasks \ Answers' : task'[y].after = {} /\ ~ task'[y].late
    <3>. SUFFICES ASSUME NEW y \in Tasks \ Answers' PROVE task'[y].after = {} /\ ~ task'[y].late
      OBVIOUS
    <3>1. CASE y = x
      BY <3>1, <1>1, <1>3
    <3>2. CASE y # x
      <4>1. y \notin Answers /\ y \notin task[x].after
        BY <3>2, <1>5, <2>3
      <4>2. task[y].after = {} /\ ~ task[y].late
        BY <4>1, <2>1 DEF ReadInOrder
      <4>. QED BY <3>2, <4>1, <4>2, <1>2, <1>3
    <3>. QED BY <3>1, <3>2
  <2>5. \A y, z \in Answers' : y \in task'[z].after => z \notin task'[y].after
    <3>1. \A y \in Answers' : y \in Answers /\ y \in Tasks /\ task'[y].after \subseteq task[y].after
      BY <1>2, <1>3, <1>5 DEF Answers
    <3>. QED BY <3>1, <2>1 DEF ReadInOrder
  <2>. QED BY <2>2, <2>4, <2>5 DEF ReadInOrder
<1>7. ASSUME faults = 0, opened PROVE Current'
  <2>1. ReadInOrder /\ Current
    BY <1>7 DEF CanvasInv
  <2>2. WillRead \subseteq WillRead'
    <3>1. \A y \in WillRead : y # x /\ y \in Tasks
      BY <1>0 DEF WillRead
    <3>. QED BY <3>1, <1>2, <1>3 DEF WillRead
  <2>3. CASE news > 0 \/ WillRead # {}
    BY <2>2, <2>3, <1>0 DEF Current
  <2>4. ASSUME NEW z \in Answers, task[z].tree = Lists, ~ task[z].late, Answers \ {z} \subseteq task[z].after
        PROVE Current'
    <3>0. z \in Tasks
      BY DEF Answers
    <3>1. CASE z = x
      <4>1. \A y \in Answers' : y \in Tasks /\ y # x /\ y \in task[x].after
        BY <2>4, <3>1, <1>5 DEF Answers
      <4>2. \A y \in Answers' : task'[y].late
        BY <4>1, <1>2, <1>3
      <4>3. shown' = Lists'
        BY <2>4, <3>1, <1>0
      <4>. QED BY <4>2, <4>3 DEF Current
    <3>2. CASE z # x
      <4>1. x \in task[z].after
        BY <2>4, <3>2, <1>5
      <4>2. z \notin task[x].after
        BY <4>1, <2>1, <1>5 DEF ReadInOrder
      <4>3. task'[z] = other(z) /\ ~ task'[z].late
        BY <3>0, <3>2, <4>2, <2>4, <1>2, <1>3
      <4>4. task'[z].tree = Lists' /\ Answers' \ {z} \subseteq task'[z].after /\ z \in Answers'
        BY <3>0, <3>2, <4>3, <2>4, <1>0, <1>2, <1>5
      <4>. QED BY <4>3, <4>4 DEF Current
    <3>. QED BY <3>1, <3>2
  <2>5. CASE (shown = Lists \/ overtaken) /\ \A y \in Answers : task[y].late
    <3>1. overtaken'
      BY <2>5, <1>0, <1>5
    <3>2. \A y \in Answers' : y \in Tasks /\ y # x /\ y \in Answers
      BY <1>5 DEF Answers
    <3>3. \A y \in Answers' : task'[y].late
      BY <2>5, <3>2, <1>2, <1>3
    <3>. QED BY <3>1, <3>3 DEF Current
  <2>. QED BY <2>1, <2>3, <2>4, <2>5 DEF Current
<1>. QED BY <1>0, <1>4, <1>6, <1>7 DEF CanvasInv

\* At the start a refresh is on its way.
LEMMA CanvasInit == Init => CanvasInv
<1>. SUFFICES ASSUME Init PROVE CanvasInv
  OBVIOUS
<1>0. \A x \in Tasks : task[x] = IF x = CallCount + 1 THEN [Fresh EXCEPT !.at = Asking] ELSE Fresh
  BY DEF Init
<1>1. \A x \in Tasks : /\ Fielded(task[x]) /\ task[x].after = {} /\ task[x].late = FALSE
                       /\ task[x].at = IF x = CallCount + 1 THEN Asking ELSE "new"
  BY <1>0 DEF Fresh, Fielded, Asking
<1>2. Answers = {}
  BY <1>1 DEF Answers, Asking
<1>3. CanvasTypes
  BY <1>1 DEF Init, CanvasTypes, Asking
<1>4. ReadInOrder
  BY <1>1, <1>2 DEF ReadInOrder
<1>5. CallCount + 1 \in WillRead
  <2>1. CallCount + 1 \in Tasks
    BY CanvasAssumption DEF Tasks, Hearings
  <2>. QED BY <1>1, <2>1 DEF WillRead, Asking
<1>. QED BY <1>3, <1>4, <1>5 DEF CanvasInv, Current

\* Every step keeps what is promised about what is on its way.
LEMMA CanvasStep == CanvasInv /\ [Next]_vars => CanvasInv'
<1>. SUFFICES ASSUME CanvasInv, [Next]_vars PROVE CanvasInv'
  OBVIOUS
<1>. USE DEF plane, canvas, observed
<1>0. CanvasTypes
  BY DEF CanvasInv
<1>1. ASSUME NEW c \in Calls, NEW kind, NEW changes, NEW gesture, First(c, Calls),
             Sends(c, kind, changes, gesture), UNCHANGED <<plane, news, shown, overtaken, faults>>
      PROVE  CanvasInv'
  <2>. DEFINE r == [Fresh EXCEPT !.at = "sent", !.kind = kind, !.changes = changes, !.gesture = gesture]
  <2>1. Fielded(r) /\ r.at = "sent" /\ r.after = {} /\ r.late = FALSE
    BY DEF Fresh, Fielded
  <2>2. task' = [task EXCEPT ![c] = r] /\ task[c].at = "new" /\ c \in Tasks
    BY <1>1 DEF Sends, First, Tasks
  <2>. HIDE DEF r
  <2>3. Lists' = Lists
    BY <1>1 DEF Lists
  <2>. QED BY <1>1, <2>1, <2>2, <2>3, <1>0, OtherTask DEF CanvasTypes
<1>2. ASSUME NEW c \in Calls, Drop(c) PROVE CanvasInv'
  <2>1. PICK g, changes : Sends(c, "adjust", changes, g)
    BY <1>2 DEF Drop
  <2>. QED BY <1>1, <1>2, <2>1 DEF Drop
<1>3. ASSUME NEW c \in Calls, Dismiss(c) PROVE CanvasInv'
  <2>1. PICK id : Sends(c, "adjust", <<[op |-> "delete", id |-> id]>>, None)
    BY <1>3 DEF Dismiss
  <2>. QED BY <1>1, <1>3, <2>1 DEF Dismiss
<1>4. ASSUME NEW c \in Calls, Undo(c) PROVE CanvasInv'
  BY <1>1, <1>4 DEF Undo
<1>5. ASSUME NEW c \in Calls, Hire(c) PROVE CanvasInv'
  <2>1. PICK n \in Newcomers : Sends(c, "hire", n, None)
    BY <1>5 DEF Hire
  <2>. QED BY <1>1, <1>5, <2>1 DEF Hire
<1>6. ASSUME NEW c \in Calls, Serve(c) PROVE CanvasInv'
  <2>. DEFINE r(ok) == [task[c] EXCEPT !.at = IF ok THEN "ok" ELSE "refused"]
  <2>1. task[c].at = "sent" /\ c \in Tasks /\ UNCHANGED <<canvas, overtaken, faults>>
    BY <1>6 DEF Serve, Tasks
  <2>2. ASSUME NEW ok \in BOOLEAN, Answered(c, ok) PROVE task' = [task EXCEPT ![c] = r(ok)]
    BY <2>2 DEF Answered
  <2>3. \A ok \in BOOLEAN : /\ Fielded(r(ok)) /\ r(ok).at = IF ok THEN "ok" ELSE "refused"
                            /\ r(ok).after = task[c].after /\ r(ok).late = task[c].late
    <3>1. Fielded(task[c])
      BY <2>1, <1>0 DEF CanvasTypes
    <3>. QED BY <3>1 DEF Fielded
  <2>4. ASSUME faults = 0 PROVE task[c].after = {} /\ task[c].late = FALSE
    BY <2>1, <2>4, <1>0 DEF CanvasInv, ReadInOrder, Answers, CanvasTypes
  <2>. HIDE DEF r
  <2>5. ASSUME NEW ok \in BOOLEAN, Answered(c, ok), news' \in Nat, opened' = opened,
               ok \/ (news' = news /\ Lists' = Lists)
        PROVE  CanvasInv'
    <3>1. UNCHANGED <<shown, overtaken, faults>> /\ r(ok).late \in BOOLEAN
      BY <2>1, <2>3, <1>0 DEF CanvasTypes
    <3>2. faults' \in Nat /\ opened' \in BOOLEAN /\ overtaken' \in BOOLEAN
      BY <3>1, <2>5, <1>0 DEF CanvasTypes
    <3>3. Fielded(r(ok)) /\ r(ok).at \in {"ok", "refused"} /\ (ok => r(ok).at = "ok")
      BY <2>3
    <3>4. faults = 0 => r(ok).after = {} /\ ~ r(ok).late
      BY <2>3, <2>4
    <3>5. task' = [task EXCEPT ![c] = r(ok)]
      BY <2>2, <2>5
    <3>. QED BY <3>1, <3>2, <3>3, <3>4, <3>5, <2>1, <2>5, OtherTask
  <2>6. ASSUME NEW tree, Refuses(c, tree) PROVE CanvasInv'
    BY <2>5, <2>6, <1>0 DEF Refuses, Lists, CanvasTypes
  <2>7. ASSUME NEW tree, NEW list, NEW undo, Applies(c, tree, list, undo) PROVE CanvasInv'
    <3>1. Answered(c, TRUE)
      BY <2>7 DEF Applies
    <3>2. news' \in Nat /\ opened' = opened
      BY <2>7, <1>0 DEF Applies, Published, CanvasTypes
    <3>. QED BY <3>1, <3>2, <2>5
  <2>8. ASSUME NEW list, NEW undo, Orders(c, list, undo) PROVE CanvasInv'
    <3>1. Answered(c, TRUE)
      BY <2>8 DEF Orders
    <3>2. news' \in Nat /\ opened' = opened
      BY <2>8, <1>0 DEF Orders, Published, CanvasTypes
    <3>. QED BY <3>1, <3>2, <2>5
  <2>9. CASE Adjust(c)
    BY <2>9, <2>6, <2>7, <2>8, Zenon DEF Adjust
  <2>10. CASE Undoes(c)
    BY <2>10, <2>6, <2>7, <2>8, Zenon DEF Undoes
  <2>11. CASE Hires(c)
    BY <2>11, <2>6, <2>7, Zenon DEF Hires
  <2>. QED BY <1>6, <2>9, <2>10, <2>11 DEF Serve
<1>7. ASSUME NEW x \in Tasks, Ends(x), faults' \in Nat, news' = news, opened' = opened,
             shown' = shown, overtaken' = overtaken, Lists' = Lists,
             faults' = 0 => faults = 0 /\ task[x].at \in {"refused", "cards"}
      PROVE  CanvasInv'
  <2>1. task' = [task EXCEPT ![x] = Over(x)]
    BY <1>7 DEF Ends
  <2>2. Fielded(Over(x)) /\ Over(x).after = {} /\ Over(x).late = FALSE /\ Over(x).at \in {"new", "done"}
    BY DEF Over, Fresh, Fielded
  <2>. QED BY <1>7, <2>1, <2>2, <1>0, OtherTask DEF CanvasTypes
<1>8. ASSUME NEW c \in Calls, Answer(c) PROVE CanvasInv'
  <2>0. c \in Tasks /\ UNCHANGED <<plane, news, shown, observed>> /\ Lists' = Lists
    BY <1>8 DEF Answer, Tasks, Lists
  <2>1. CASE task[c].at = "refused" /\ Ends(c)
    BY <2>0, <2>1, <1>7, <1>0 DEF CanvasTypes
  <2>2. CASE /\ task[c].at = "ok"
             /\ task' = [task EXCEPT ![c].at = "open", ![c].gesture = None, ![c].changes = <<>>]
    <3>. DEFINE r == [task[c] EXCEPT !.at = "open", !.gesture = None, !.changes = <<>>]
    <3>1. task' = [task EXCEPT ![c] = r]
      BY <2>2, <2>0, <1>0 DEF CanvasTypes
    <3>2. Fielded(r) /\ r.at = "open" /\ r.after = task[c].after /\ r.late = task[c].late
      <4>1. Fielded(task[c])
        BY <2>0, <1>0 DEF CanvasTypes
      <4>. QED BY <4>1 DEF Fielded
    <3>3. ASSUME faults = 0 PROVE task[c].after = {} /\ ~ task[c].late
      BY <2>0, <2>2, <3>3 DEF CanvasInv, ReadInOrder, Answers
    <3>. HIDE DEF r
    <3>4. news' \in Nat /\ faults' \in Nat /\ opened' \in BOOLEAN /\ overtaken' \in BOOLEAN /\ faults' = faults
      BY <2>0, <1>0 DEF CanvasTypes
    <3>5. r.late \in BOOLEAN
      BY <2>0, <3>2, <1>0 DEF CanvasTypes
    <3>. QED BY <2>0, <2>2, <3>1, <3>2, <3>3, <3>4, <3>5, OtherTask
  <2>. QED BY <1>8, <2>1, <2>2 DEF Answer
<1>9. ASSUME NEW c \in Calls, AnswerLost(c) PROVE CanvasInv'
  <2>1. c \in Tasks /\ Ends(c) /\ UNCHANGED <<plane, news, shown, overtaken>> /\ faults' = faults + 1
    BY <1>9 DEF AnswerLost, Fault, Tasks
  <2>2. Lists' = Lists /\ faults' \in Nat /\ faults' # 0
    BY <2>1, <1>0 DEF Lists, CanvasTypes
  <2>. QED BY <2>1, <2>2, <1>7
<1>10. ASSUME NEW x \in Hearings, Hear(x) PROVE CanvasInv'
  <2>. DEFINE r == [Fresh EXCEPT !.at = Asking]
  <2>1. Fielded(r) /\ r.after = {} /\ r.late = FALSE /\ r.at \in {"asking", "open"}
    <3>1. Asking \in {"asking", "open"}
      BY DEF Asking
    <3>. QED BY <3>1 DEF Fresh, Fielded
  <2>2. /\ x \in Tasks /\ task' = [task EXCEPT ![x] = r] /\ task[x].at = "new" /\ news' \in Nat
        /\ UNCHANGED <<opened, shown, overtaken, faults>>
    BY <1>10, <1>0 DEF Hear, Hears, First, Tasks, CanvasTypes
  <2>. HIDE DEF r
  <2>. QED BY <2>1, <2>2, <1>0, OtherTask DEF CanvasTypes
<1>11. ASSUME NEW x \in Tasks, ReadWorkspace(x) PROVE CanvasInv'
  <2>1. CASE opened
    <3>. DEFINE r == [task[x] EXCEPT !.at = "open"]
    <3>1. task' = [task EXCEPT ![x] = r] /\ task[x].at = "asking" /\ UNCHANGED <<plane, news, canvas, observed>>
      BY <1>11, <2>1 DEF ReadWorkspace
    <3>2. Fielded(r) /\ r.at = "open" /\ r.after = task[x].after /\ r.late = task[x].late
      <4>1. Fielded(task[x])
        BY <1>0 DEF CanvasTypes
      <4>. QED BY <4>1 DEF Fielded
    <3>3. ASSUME faults = 0 PROVE task[x].after = {} /\ ~ task[x].late
      BY <3>1, <3>3 DEF CanvasInv, ReadInOrder, Answers
    <3>. HIDE DEF r
    <3>. QED BY <3>1, <3>2, <3>3, <1>0, OtherTask DEF CanvasTypes
  <2>2. CASE ~ opened
    <3>1. Reads(x, None) /\ task[x].at = "asking" /\ UNCHANGED <<plane, news, canvas, observed>>
      BY <1>11, <2>2 DEF ReadWorkspace
    <3>. QED BY <3>1, <2>2, OneMoreRead
  <2>. QED BY <2>1, <2>2
<1>12. ASSUME NEW x \in Tasks, ReadTree(x) PROVE CanvasInv'
  BY <1>12, OneMoreRead DEF ReadTree
<1>13. ASSUME NEW x \in Tasks, ReadCards(x) PROVE CanvasInv'
  BY <1>13, <1>7, <1>0 DEF ReadCards, Lists, CanvasTypes
<1>14. ASSUME NEW x \in Tasks, RefreshFails(x) PROVE CanvasInv'
  BY <1>14, <1>7, <1>0 DEF RefreshFails, Fault, Lists, CanvasTypes
<1>15. CASE Open
  <2>1. CanvasTypes' /\ news' > 0
    BY <1>15, <1>0 DEF Open, CanvasTypes, Fielded
  <2>2. ReadInOrder => ReadInOrder'
    BY <1>15 DEF Open, ReadInOrder, Answers
  <2>. QED BY <1>15, <2>1, <2>2 DEF Open, CanvasInv, Current
<1>16. CASE EventLost
  BY <1>16, <1>0 DEF EventLost, Fault, CanvasInv, CanvasTypes, Fielded
<1>17. CASE UNCHANGED vars
  BY <1>17 DEF vars, CanvasInv, CanvasTypes, Fielded, ReadInOrder, Current, Answers, WillRead, Lists
<1>. QED BY <1>2, <1>3, <1>4, <1>5, <1>6, <1>8, <1>9, <1>10, <1>11, <1>12, <1>13, <1>14, <1>15, <1>16, <1>17,
            OneMoreShown DEF Next, Refresh

\* The canvas catches up with the control plane: whatever gestures, calls of others, events and
\* refreshes overlap, for any number of them.
THEOREM CanvasCatches == Spec => []CanvasCatchesUp
<1>1. CanvasInv => CanvasCatchesUp
  <2>. SUFFICES ASSUME CanvasInv, Quiet, opened, faults = 0, ~ overtaken PROVE shown = Lists
    BY DEF CanvasCatchesUp
  <2>1. Answers = {} /\ WillRead = {} /\ ~ news > 0
    BY DEF Quiet, Answers, WillRead
  <2>. QED BY <2>1 DEF CanvasInv, Current
<1>. QED BY CanvasInit, CanvasStep, <1>1, PTL DEF Spec

-----------------------------------------------------------------------------
(* Drops: lists and folds *)

\* The order of the naturals, as a set of pairs.
LEMMA LessThanPairs == OpToRel(<, Nat) = {ss \in Nat \X Nat : ss[1] < ss[2]}
BY Zenon DEF OpToRel

\* A set of naturals that has a member has a least one.
LEMMA Least == ASSUME NEW S, S \subseteq Nat, S # {} PROVE \E m \in S : \A k \in S : m <= k
<1> DEFINE R == OpToRel(<, Nat)
<1>1. PICK m \in S : \A y \in S : ~ (<<y, m>> \in R)
  BY NatLessThanWellFounded, WFMin
<1>2. R = {ss \in Nat \X Nat : ss[1] < ss[2]}
  BY LessThanPairs
<1>3. ASSUME NEW k \in S PROVE m <= k
  <2> HIDE DEF R
  <2>1. ~(<<k, m>> \in {ss \in Nat \X Nat : ss[1] < ss[2]})
    BY <1>1, <1>2, Zenon
  <2> QED BY <2>1
<1> QED BY <1>3

\* Induction over the naturals, on a set instead of a predicate.
LEMMA Induction == ASSUME NEW S, 0 \in S, \A n \in Nat : n \in S => n + 1 \in S PROVE Nat \subseteq S
<1> SUFFICES ASSUME Nat \ S # {} PROVE FALSE
  OBVIOUS
<1>1. PICK m \in Nat \ S : \A k \in Nat \ S : m <= k
  BY Least
<1>2. m - 1 \in Nat /\ m - 1 \in S
  BY <1>1
<1> QED BY <1>2, <1>1

\* What a function is that starts with x and takes a step for every number up to N.
Steps(f, N, S, x, step) ==
  /\ f \in [0 .. N -> S] /\ f[0] = x
  /\ \A n \in 1 .. N : f[n] = step[<<n, f[n - 1]>>]

\* Recursion on a bounded number of steps: a function with a first value and one step after the other.
LEMMA Recursion ==
  ASSUME NEW N \in Nat, NEW S, NEW x \in S, NEW step \in [(1 .. N) \X S -> S]
  PROVE  \E f : Steps(f, N, S, x, step)
<1>. DEFINE P(k, f) == f[0] = x /\ \A n \in 1 .. k : f[n] = step[<<n, f[n - 1]>>]
            A == {k \in Nat : k <= N => \E f \in [0 .. k -> S] : P(k, f)}
<1>1. 0 \in A
  <2>. DEFINE f == [n \in 0 .. 0 |-> x]
  <2>1. f \in [0 .. 0 -> S] /\ P(0, f)
    OBVIOUS
  <2>. QED BY <2>1
<1>2. ASSUME NEW k \in Nat, k \in A
      PROVE  k + 1 \in A
  <2>. SUFFICES ASSUME k + 1 <= N
                PROVE  \E f \in [0 .. k + 1 -> S] : P(k + 1, f)
    OBVIOUS
  <2>1. PICK f \in [0 .. k -> S] : P(k, f)
    BY <1>2
  <2>. DEFINE last == step[<<k + 1, f[k]>>]
              g == [n \in 0 .. k + 1 |-> IF n <= k THEN f[n] ELSE last]
  <2>2. last \in S
    <3>1. <<k + 1, f[k]>> \in (1 .. N) \X S
      BY <2>1
    <3>. QED BY <3>1
  <2>3. g \in [0 .. k + 1 -> S]
    <3>. HIDE DEF last
    <3>. QED BY <2>1, <2>2
  <2>4. g[0] = x
    BY <2>1
  <2>5. ASSUME NEW n \in 1 .. k + 1
        PROVE  g[n] = step[<<n, g[n - 1]>>]
    <3>1. CASE n <= k
      BY <2>1, <3>1
    <3>2. CASE n = k + 1
      BY <3>2
    <3>. QED BY <3>1, <3>2
  <2>. HIDE DEF g
  <2>. QED BY <2>3, <2>4, <2>5
<1>. HIDE DEF A
<1>3. Nat \subseteq A
  BY <1>1, <1>2, Induction
<1>. QED BY <1>3 DEF A, Steps

\* What a function is that keeps the members in K of one beginning of a list after the other.
Keeping(f, T, list, K) ==
  /\ f \in [0 .. Len(list) -> Seq(T)]
  /\ f[0] = << >> /\ Kept(list, K) = f[Len(list)]
  /\ \A n \in 1 .. Len(list) : f[n] = IF list[n] \in K THEN Append(f[n - 1], list[n]) ELSE f[n - 1]

\* The recursive definition of Kept has the value it says.
LEMMA KeptIs ==
  ASSUME NEW T, NEW list \in Seq(T), NEW K
  PROVE  \E f : Keeping(f, T, list, K)
<1>. DEFINE N == Len(list)
            R(g) == [n \in 0 .. N |-> IF n = 0 THEN << >>
                                      ELSE IF list[n] \in K THEN Append(g[n - 1], list[n]) ELSE g[n - 1]]
            f == CHOOSE g : g = R(g)
<1>1. Kept(list, K) = f[N]
  BY DEF Kept
<1>2. N \in Nat /\ \A n \in 1 .. N : list[n] \in T
  OBVIOUS
<1>3. \E g : g = R(g)
  <2>. DEFINE step == [p \in (1 .. N) \X Seq(T) |-> IF list[p[1]] \in K THEN Append(p[2], list[p[1]]) ELSE p[2]]
  <2>1. step \in [(1 .. N) \X Seq(T) -> Seq(T)] /\ << >> \in Seq(T)
    BY <1>2
  <2>0. PICK g : Steps(g, N, Seq(T), << >>, step)
    <3>1. N \in Nat
      BY <1>2
    <3>. HIDE DEF step, N, R
    <3>. QED BY <3>1, <2>1, Recursion, Zenon
  <2>2. /\ g \in [0 .. N -> Seq(T)] /\ g[0] = << >>
        /\ \A n \in 1 .. N : g[n] = step[<<n, g[n - 1]>>]
    <3>. HIDE DEF step, N, R
    <3>. QED BY <2>0 DEF Steps
  <2>3. ASSUME NEW n \in 0 .. N
        PROVE  g[n] = R(g)[n]
    <3>1. CASE n = 0
      BY <2>2, <3>1
    <3>2. CASE n \in 1 .. N
      <4>0. n - 1 \in 0 .. N
        BY <1>2, <3>2
      <4>1. g[n - 1] \in Seq(T)
        BY <2>2, <4>0
      <4>2. <<n, g[n - 1]>> \in (1 .. N) \X Seq(T)
        BY <3>2, <4>1, Zenon
      <4>3. step[<<n, g[n - 1]>>] = IF list[n] \in K THEN Append(g[n - 1], list[n]) ELSE g[n - 1]
        BY <4>2
      <4>. QED BY <2>2, <3>2, <4>3
    <3>. QED BY <1>2, <3>1, <3>2
  <2>4. g = [n \in 0 .. N |-> g[n]] /\ R(g) = [n \in 0 .. N |-> R(g)[n]]
    BY <2>2
  <2>. HIDE DEF R
  <2>5. g = R(g)
    BY <2>3, <2>4
  <2>. QED BY <2>5
<1>4. f = R(f)
  BY <1>3
<1>. HIDE DEF f
<1>5. \A n \in 0 .. N : f[n] = IF n = 0 THEN << >>
                               ELSE IF list[n] \in K THEN Append(f[n - 1], list[n]) ELSE f[n - 1]
  BY <1>4, Zenon
<1>. HIDE DEF N
<1>6. \A n \in 0 .. N : f[n] \in Seq(T)
  <2>. DEFINE A == {n \in Nat : n <= N => f[n] \in Seq(T)}
  <2>1. 0 \in A
    <3>1. f[0] = << >> /\ << >> \in Seq(T)
      BY <1>2, <1>5
    <3>. QED BY <3>1
  <2>2. ASSUME NEW n \in Nat, n \in A
        PROVE  n + 1 \in A
    <3>. SUFFICES ASSUME n + 1 <= N
                  PROVE  f[n + 1] \in Seq(T)
      OBVIOUS
    <3>1. n + 1 \in 0 .. N /\ n + 1 # 0 /\ (n + 1) - 1 = n /\ n + 1 \in 1 .. N /\ f[n] \in Seq(T)
      BY <1>2, <2>2
    <3>2. f[n + 1] = IF list[n + 1] \in K THEN Append(f[n], list[n + 1]) ELSE f[n]
      BY <1>5, <3>1
    <3>. QED BY <1>2, <3>1, <3>2
  <2>. HIDE DEF A
  <2>3. Nat \subseteq A
    BY <2>1, <2>2, Induction
  <2>. QED BY <1>2, <2>3 DEF A
<1>7. f \in [0 .. N -> Seq(T)]
  <2>1. f = [n \in 0 .. N |-> f[n]]
    BY <1>4
  <2>. QED BY <1>6, <2>1
<1>8. f[0] = << >> /\ \A n \in 1 .. N : f[n] = IF list[n] \in K THEN Append(f[n - 1], list[n]) ELSE f[n - 1]
  BY <1>2, <1>5
<1>. QED BY <1>1, <1>7, <1>8 DEF N, Keeping

\* The trees of a validation: the scanned one, and each the effect of a change on the one before.
LEMMA TreesAre ==
  ASSUME NEW parents, NEW T, NEW changes \in Seq(T), NEW owner
  PROVE  /\ Trees(parents, changes, owner)[0] = parents
         /\ \A n \in 1 .. Len(changes) :
              Trees(parents, changes, owner)[n] = Effect(Trees(parents, changes, owner)[n - 1], changes[n])
<1> DEFINE N == Len(changes)
           R(g) == [n \in 0 .. N |-> IF n = 0 THEN parents ELSE Effect(g[n - 1], changes[n])]
           trees == CHOOSE g : g = R(g)
<1>0. N \in Nat
  OBVIOUS
<1>1. Trees(parents, changes, owner) = trees
  BY DEF Trees
<1> HIDE DEF N
<1>2. \E g : g = R(g)
  <2> DEFINE P(k, g) == g[0] = parents /\ \A n \in 1 .. k : g[n] = Effect(g[n - 1], changes[n])
             A == {k \in Nat : \E g : P(k, g)}
  <2>1. 0 \in A
    <3> DEFINE g == [n \in 0 .. 0 |-> parents]
    <3>1. P(0, g)
      OBVIOUS
    <3> QED  BY <3>1
  <2>2. ASSUME NEW k \in Nat, k \in A PROVE k + 1 \in A
    <3>1. PICK g : P(k, g)
      BY <2>2
    <3> DEFINE last == Effect(g[k], changes[k + 1])
               h == [n \in 0 .. k + 1 |-> IF n <= k THEN g[n] ELSE last]
    <3> HIDE DEF last
    <3>2. h[0] = parents
      BY <3>1
    <3>3. ASSUME NEW n \in 1 .. k + 1 PROVE h[n] = Effect(h[n - 1], changes[n])
      <4>1. CASE n <= k
        <5>1. h[n] = g[n] /\ h[n - 1] = g[n - 1] /\ n \in 1 .. k
          BY <4>1
        <5>2. g[n] = Effect(g[n - 1], changes[n])
          BY <3>1, <5>1
        <5> QED  BY <5>1, <5>2, Zenon
      <4>2. CASE n = k + 1
        <5>1. h[n] = last /\ h[n - 1] = g[k]
          BY <4>2
        <5> QED  BY <4>2, <5>1, Zenon DEF last
      <4> QED  BY <4>1, <4>2
    <3> HIDE DEF h
    <3> QED  BY <3>2, <3>3
  <2> HIDE DEF A
  <2>3. N \in A
    BY <1>0, <2>1, <2>2, Induction
  <2>4. PICK g : P(N, g)
    BY <2>3 DEF A
  <2> DEFINE f == [n \in 0 .. N |-> g[n]]
  <2>5. ASSUME NEW n \in 0 .. N PROVE f[n] = R(f)[n]
    <3>1. CASE n = 0
      BY <2>4, <3>1
    <3>2. CASE n # 0
      <4>1. n \in 1 .. N /\ n - 1 \in 0 .. N
        BY <1>0, <3>2
      <4>2. f[n] = g[n] /\ f[n - 1] = g[n - 1]
        BY <4>1
      <4>3. g[n] = Effect(g[n - 1], changes[n])
        BY <2>4, <4>1
      <4>4. R(f)[n] = Effect(f[n - 1], changes[n])
        BY <3>2
      <4> QED  BY <4>2, <4>3, <4>4, Zenon
    <3> QED  BY <3>1, <3>2
  <2>6. f = [n \in 0 .. N |-> f[n]]
    OBVIOUS
  <2> HIDE DEF f
  <2>7. R(f) = [n \in 0 .. N |-> R(f)[n]]
    BY Zenon
  <2> HIDE DEF R
  <2>8. f = R(f)
    BY <2>5, <2>6, <2>7
  <2> QED  BY <2>8
<1>3. trees = R(trees)
  BY <1>2, Zenon
<1> HIDE DEF trees
<1>4. \A n \in 0 .. N : trees[n] = IF n = 0 THEN parents ELSE Effect(trees[n - 1], changes[n])
  BY <1>3, Zenon
<1>5. 0 \in 0 .. N /\ \A n \in 1 .. N : n \in 0 .. N /\ n # 0
  BY <1>0
<1>6. trees[0] = parents /\ \A n \in 1 .. N : trees[n] = Effect(trees[n - 1], changes[n])
  BY <1>4, <1>5, Zenon
<1> QED  BY <1>1, <1>6 DEF N

-----------------------------------------------------------------------------
(* Lists *)

\* Induction over the lists of a set, on a set instead of a predicate.
LEMMA SeqInduction ==
  ASSUME NEW T, NEW P, << >> \in P, \A s \in Seq(T), x \in T : s \in P => Append(s, x) \in P
  PROVE  Seq(T) \subseteq P
<1>. DEFINE A == {n \in Nat : \A s \in Seq(T) : Len(s) = n => s \in P}
<1>1. 0 \in A
  <2>1. \A s \in Seq(T) : Len(s) = 0 => s = << >>
    OBVIOUS
  <2>. QED BY <2>1
<1>2. ASSUME NEW n \in Nat, n \in A PROVE n + 1 \in A
  <2>. SUFFICES ASSUME NEW s \in Seq(T), Len(s) = n + 1 PROVE s \in P
    OBVIOUS
  <2>. DEFINE r == SubSeq(s, 1, n)
  <2>1. r \in Seq(T) /\ Len(r) = n /\ s[n + 1] \in T /\ \A i \in 1 .. n : r[i] = s[i]
    OBVIOUS
  <2>. HIDE DEF r
  <2>2. Append(r, s[n + 1]) = s
    <3>1. /\ Append(r, s[n + 1]) \in Seq(T) /\ Len(Append(r, s[n + 1])) = n + 1
          /\ \A i \in 1 .. n + 1 : Append(r, s[n + 1])[i] = s[i]
      BY <2>1
    <3>. QED BY <3>1
  <2>3. r \in P
    BY <1>2, <2>1
  <2>. QED BY <2>1, <2>2, <2>3
<1>. HIDE DEF A
<1>3. Nat \subseteq A
  BY <1>1, <1>2, Induction
<1>. QED BY <1>3 DEF A

\* Nothing is kept of the empty list.
LEMMA KeptEmpty == ASSUME NEW K PROVE Kept(<< >>, K) = << >>
<1>1. << >> \in Seq({}) /\ Len(<< >>) = 0
  OBVIOUS
<1>2. PICK f : Keeping(f, {}, << >>, K)
  BY <1>1, KeptIs, Zenon
<1>. QED BY <1>1, <1>2 DEF Keeping

\* What is kept of a list with one more member.
LEMMA KeptLonger ==
  ASSUME NEW T, NEW s \in Seq(T), NEW x \in T, NEW K
  PROVE  /\ Kept(s, K) \in Seq(T)
         /\ x \in K => Kept(Append(s, x), K) = Append(Kept(s, K), x)
         /\ x \notin K => Kept(Append(s, x), K) = Kept(s, K)
<1>. DEFINE N == Len(s)
            t == Append(s, x)
<1>1. t \in Seq(T) /\ Len(t) = N + 1 /\ N \in Nat /\ t[N + 1] = x /\ \A n \in 1 .. N : t[n] = s[n]
  OBVIOUS
<1>a. PICK f : Keeping(f, T, s, K)
  BY KeptIs, Zenon
<1>b. PICK g : Keeping(g, T, t, K)
  BY <1>1, KeptIs, Zenon
<1>2. /\ f \in [0 .. N -> Seq(T)]
      /\ f[0] = << >> /\ Kept(s, K) = f[N]
      /\ \A n \in 1 .. N : f[n] = IF s[n] \in K THEN Append(f[n - 1], s[n]) ELSE f[n - 1]
  BY <1>a, Zenon DEF Keeping
<1>. HIDE DEF t, N
<1>3. /\ g \in [0 .. N + 1 -> Seq(T)]
      /\ g[0] = << >> /\ Kept(t, K) = g[N + 1]
      /\ \A n \in 1 .. N + 1 : g[n] = IF t[n] \in K THEN Append(g[n - 1], t[n]) ELSE g[n - 1]
  BY <1>1, <1>b DEF Keeping
<1>. DEFINE A == {n \in Nat : n <= N => g[n] = f[n]}
<1>4. 0 \in A
  BY <1>2, <1>3
<1>. HIDE DEF A
<1>5. ASSUME NEW n \in Nat, n \in A PROVE n + 1 \in A
  <2>. SUFFICES ASSUME n + 1 <= N PROVE g[n + 1] = f[n + 1]
    BY DEF A
  <2>1. n + 1 \in 1 .. N /\ n + 1 \in 1 .. N + 1 /\ (n + 1) - 1 = n /\ g[n] = f[n] /\ t[n + 1] = s[n + 1]
    <3>1. n + 1 \in 1 .. N /\ n + 1 \in 1 .. N + 1 /\ (n + 1) - 1 = n /\ n <= N
      BY <1>1
    <3>. QED BY <1>1, <1>5, <3>1 DEF A
  <2>2. g[n + 1] = IF t[n + 1] \in K THEN Append(g[n], t[n + 1]) ELSE g[n]
    BY <1>3, <2>1
  <2>3. f[n + 1] = IF s[n + 1] \in K THEN Append(f[n], s[n + 1]) ELSE f[n]
    BY <1>2, <2>1
  <2>. QED BY <2>1, <2>2, <2>3
<1>6. N \in A
  BY <1>1, <1>4, <1>5, Induction
<1>7. g[N] = f[N]
  BY <1>1, <1>6 DEF A
<1>8. N + 1 \in 1 .. N + 1 /\ (N + 1) - 1 = N /\ N \in 0 .. N
  BY <1>1
<1>9. g[N + 1] = IF x \in K THEN Append(f[N], x) ELSE f[N]
  BY <1>1, <1>3, <1>7, <1>8
<1>. QED BY <1>2, <1>3, <1>8, <1>9 DEF t

\* A last member that is kept comes last.
LEMMA KeptAppend ==
  ASSUME NEW T, NEW s \in Seq(T), NEW x \in T, NEW K, x \in K
  PROVE  Kept(Append(s, x), K) = Append(Kept(s, K), x)
BY KeptLonger

\* A last member that is not kept is left out.
LEMMA KeptSkips ==
  ASSUME NEW T, NEW s \in Seq(T), NEW x \in T, NEW K, x \notin K
  PROVE  Kept(Append(s, x), K) = Kept(s, K)
BY KeptLonger

\* A member of a list with one more member.
LEMMA RangeAppend ==
  ASSUME NEW T, NEW s \in Seq(T), NEW x \in T
  PROVE  Range(Append(s, x)) = Range(s) \cup {x} /\ Range(s) \subseteq T
<1>1. /\ Append(s, x) \in Seq(T) /\ Len(Append(s, x)) = Len(s) + 1
      /\ Append(s, x)[Len(s) + 1] = x /\ \A n \in 1 .. Len(s) : Append(s, x)[n] = s[n]
  OBVIOUS
<1>. DEFINE t == Append(s, x)
<1>. HIDE DEF t
<1>2. /\ t \in Seq(T) /\ Len(t) = Len(s) + 1 /\ Len(s) \in Nat
      /\ t[Len(s) + 1] = x /\ \A n \in 1 .. Len(s) : t[n] = s[n]
  BY <1>1 DEF t
<1>3. Range(t) = Range(s) \cup {x}
  <2>1. ASSUME NEW y \in Range(t) PROVE y \in Range(s) \cup {x}
    <3>1. PICK n \in 1 .. Len(s) + 1 : y = t[n]
      BY <1>2 DEF Range
    <3>2. n \in 1 .. Len(s) \/ n = Len(s) + 1
      BY <1>2
    <3>. QED BY <3>1, <3>2, <1>2 DEF Range
  <2>2. ASSUME NEW y \in Range(s) PROVE y \in Range(t)
    <3>1. PICK n \in 1 .. Len(s) : y = s[n]
      BY DEF Range
    <3>2. n \in DOMAIN t /\ t[n] = y
      BY <1>2, <3>1
    <3>. QED BY <3>2 DEF Range
  <2>3. x \in Range(t)
    <3>1. Len(s) + 1 \in DOMAIN t
      BY <1>2
    <3>. QED BY <1>2, <3>1 DEF Range
  <2>. QED BY <2>1, <2>2, <2>3
<1>4. Range(s) \subseteq T
  BY DEF Range
<1>. QED BY <1>3, <1>4 DEF t

\* A list of ids without repetition.
Plain(l) == l \in Seq(Ids) /\ IsInjective(l)

\* An injective list stays so with one more member iff that is new.
LEMMA InjectiveAppend ==
  ASSUME NEW T, NEW s \in Seq(T), NEW x \in T
  PROVE  IsInjective(Append(s, x)) <=> IsInjective(s) /\ x \notin Range(s)
<1>. DEFINE t == Append(s, x)
<1>1. /\ t \in Seq(T) /\ Len(t) = Len(s) + 1 /\ Len(s) \in Nat /\ DOMAIN s = 1 .. Len(s)
      /\ DOMAIN t = 1 .. Len(s) + 1
      /\ t[Len(s) + 1] = x /\ \A n \in 1 .. Len(s) : t[n] = s[n]
  OBVIOUS
<1>. HIDE DEF t
<1>2. ASSUME IsInjective(t) PROVE IsInjective(s) /\ x \notin Range(s)
  <2>1. IsInjective(s)
    BY <1>1, <1>2 DEF IsInjective
  <2>2. \A n \in 1 .. Len(s) : s[n] # x
    BY <1>1, <1>2 DEF IsInjective
  <2>. QED BY <1>1, <2>1, <2>2 DEF Range
<1>3. ASSUME IsInjective(s), x \notin Range(s) PROVE IsInjective(t)
  <2>1. \A n \in 1 .. Len(s) : s[n] # x
    BY <1>1, <1>3 DEF Range
  <2>. QED BY <1>1, <1>3, <2>1 DEF IsInjective
<1>. QED BY <1>2, <1>3 DEF t

\* What is kept has the members it should.
LEMMA KeptRange ==
  ASSUME NEW T, NEW l \in Seq(T), NEW K
  PROVE  Kept(l, K) \in Seq(T) /\ Range(Kept(l, K)) = Range(l) \cap K
<1>. DEFINE P == {s \in Seq(T) : Kept(s, K) \in Seq(T) /\ Range(Kept(s, K)) = Range(s) \cap K}
<1>1. << >> \in P
  <2>1. Range(<< >>) = {} /\ << >> \in Seq(T)
    BY DEF Range
  <2>. QED BY <2>1, KeptEmpty
<1>2. ASSUME NEW s \in Seq(T), NEW x \in T, s \in P PROVE Append(s, x) \in P
  <2>. DEFINE k == Kept(s, K)
              t == Append(s, x)
              m == Kept(t, K)
  <2>1. k \in Seq(T) /\ Range(k) = Range(s) \cap K /\ t \in Seq(T)
    BY <1>2
  <2>2a. x \in K => m = Append(k, x)
    BY KeptAppend
  <2>2b. x \notin K => m = k
    BY KeptSkips
  <2>3. Range(t) = Range(s) \cup {x}
    BY RangeAppend
  <2>. HIDE DEF k, t, m
  <2>4. Range(Append(k, x)) = Range(k) \cup {x} /\ Append(k, x) \in Seq(T)
    BY <2>1, RangeAppend
  <2>5. m \in Seq(T) /\ Range(m) = Range(t) \cap K
    BY <2>1, <2>2a, <2>2b, <2>3, <2>4
  <2>. QED BY <2>1, <2>5 DEF t, m
<1>. HIDE DEF P
<1>3. l \in P
  BY <1>1, <1>2, SeqInduction
<1>. QED BY <1>3 DEF P

\* What is kept of a list without repetition has none.
LEMMA KeptInjective ==
  ASSUME NEW T, NEW l \in Seq(T), IsInjective(l), NEW K
  PROVE  IsInjective(Kept(l, K))
<1>. DEFINE P == {s \in Seq(T) : IsInjective(s) => IsInjective(Kept(s, K))}
<1>1. << >> \in P
  BY KeptEmpty DEF IsInjective
<1>2. ASSUME NEW s \in Seq(T), NEW x \in T, s \in P PROVE Append(s, x) \in P
  <2>. SUFFICES ASSUME IsInjective(Append(s, x)) PROVE IsInjective(Kept(Append(s, x), K))
    OBVIOUS
  <2>1. IsInjective(s) /\ x \notin Range(s)
    BY InjectiveAppend
  <2>2. IsInjective(Kept(s, K)) /\ Kept(s, K) \in Seq(T) /\ x \notin Range(Kept(s, K))
    BY <1>2, <2>1, KeptRange
  <2>3. IsInjective(Append(Kept(s, K), x))
    BY <2>2, InjectiveAppend
  <2>4. x \in K => Kept(Append(s, x), K) = Append(Kept(s, K), x)
    BY KeptAppend
  <2>5. x \notin K => Kept(Append(s, x), K) = Kept(s, K)
    BY KeptSkips
  <2>. QED BY <2>2, <2>3, <2>4, <2>5
<1>. HIDE DEF P
<1>3. l \in P
  BY <1>1, <1>2, SeqInduction
<1>. QED BY <1>3 DEF P

\* Two sets that agree about the members of a list keep the same of it.
LEMMA KeptSame ==
  ASSUME NEW T, NEW l \in Seq(T), NEW K, NEW J, \A x \in Range(l) : x \in K <=> x \in J
  PROVE  Kept(l, K) = Kept(l, J)
<1>. DEFINE P == {s \in Seq(T) : (\A x \in Range(s) : x \in K <=> x \in J) => Kept(s, K) = Kept(s, J)}
<1>1. << >> \in P
  BY KeptEmpty
<1>2. ASSUME NEW s \in Seq(T), NEW x \in T, s \in P PROVE Append(s, x) \in P
  <2>. SUFFICES ASSUME \A y \in Range(Append(s, x)) : y \in K <=> y \in J
                PROVE  Kept(Append(s, x), K) = Kept(Append(s, x), J)
    OBVIOUS
  <2>1. (x \in K <=> x \in J) /\ \A y \in Range(s) : y \in K <=> y \in J
    BY RangeAppend
  <2>2. Kept(s, K) = Kept(s, J)
    BY <1>2, <2>1
  <2>3a. x \in K => Kept(Append(s, x), K) = Append(Kept(s, K), x)
    BY KeptAppend
  <2>3b. x \notin K => Kept(Append(s, x), K) = Kept(s, K)
    BY KeptSkips
  <2>3c. x \in J => Kept(Append(s, x), J) = Append(Kept(s, J), x)
    BY KeptAppend
  <2>3d. x \notin J => Kept(Append(s, x), J) = Kept(s, J)
    BY KeptSkips
  <2>. QED BY <2>1, <2>2, <2>3a, <2>3b, <2>3c, <2>3d
<1>. HIDE DEF P
<1>3. l \in P
  BY <1>1, <1>2, SeqInduction
<1>. QED BY <1>3 DEF P

\* A list of which everything is kept, and one of which nothing is.
LEMMA KeptAll ==
  ASSUME NEW T, NEW l \in Seq(T), NEW K
  PROVE  /\ Range(l) \subseteq K => Kept(l, K) = l
         /\ Range(l) \cap K = {} => Kept(l, K) = << >>
<1>. DEFINE P == {s \in Seq(T) : /\ Range(s) \subseteq K => Kept(s, K) = s
                                 /\ Range(s) \cap K = {} => Kept(s, K) = << >>}
<1>1. << >> \in P
  BY KeptEmpty
<1>2. ASSUME NEW s \in Seq(T), NEW x \in T, s \in P PROVE Append(s, x) \in P
  <2>1. Range(Append(s, x)) = Range(s) \cup {x}
    BY RangeAppend
  <2>2a. x \in K => Kept(Append(s, x), K) = Append(Kept(s, K), x)
    BY KeptAppend
  <2>2b. x \notin K => Kept(Append(s, x), K) = Kept(s, K)
    BY KeptSkips
  <2>3. Append(s, x) \in Seq(T)
    OBVIOUS
  <2>4. Range(Append(s, x)) \subseteq K => Kept(Append(s, x), K) = Append(s, x)
    BY <1>2, <2>1, <2>2a, <2>2b
  <2>5. Range(Append(s, x)) \cap K = {} => Kept(Append(s, x), K) = << >>
    BY <1>2, <2>1, <2>2a, <2>2b
  <2>. QED BY <2>3, <2>4, <2>5
<1>. HIDE DEF P
<1>3. l \in P
  BY <1>1, <1>2, SeqInduction
<1>. QED BY <1>3 DEF P

\* What is kept of what is kept.
LEMMA KeptTwice ==
  ASSUME NEW T, NEW l \in Seq(T), NEW K, NEW J
  PROVE  Kept(Kept(l, K), J) = Kept(l, K \cap J)
<1>. DEFINE P == {s \in Seq(T) : Kept(Kept(s, K), J) = Kept(s, K \cap J)}
<1>1. << >> \in P
  BY KeptEmpty
<1>2. ASSUME NEW s \in Seq(T), NEW x \in T, s \in P PROVE Append(s, x) \in P
  <2>. DEFINE k == Kept(s, K)
  <2>1a. x \in K => Kept(Append(s, x), K) = Append(k, x)
    BY KeptAppend
  <2>1b. x \notin K => Kept(Append(s, x), K) = k
    BY KeptSkips
  <2>1e. k \in Seq(T)
    BY KeptRange
  <2>2a. x \in K \cap J => Kept(Append(s, x), K \cap J) = Append(Kept(s, K \cap J), x)
    BY KeptAppend
  <2>2b. x \notin K \cap J => Kept(Append(s, x), K \cap J) = Kept(s, K \cap J)
    BY KeptSkips
  <2>3. Kept(k, J) = Kept(s, K \cap J) /\ Append(s, x) \in Seq(T)
    BY <1>2
  <2>. HIDE DEF k
  <2>4a. x \in J => Kept(Append(k, x), J) = Append(Kept(k, J), x)
    BY <2>1e, KeptAppend
  <2>4b. x \notin J => Kept(Append(k, x), J) = Kept(k, J)
    BY <2>1e, KeptSkips
  <2>5. Kept(Kept(Append(s, x), K), J) = Kept(Append(s, x), K \cap J)
    BY <2>1a, <2>1b, <2>1e, <2>2a, <2>2b, <2>3, <2>4a, <2>4b
  <2>. QED BY <2>3, <2>5
<1>. HIDE DEF P
<1>3. l \in P
  BY <1>1, <1>2, SeqInduction
<1>. QED BY <1>3 DEF P

\* What is kept of two lists, one after the other.
LEMMA KeptBoth ==
  ASSUME NEW T, NEW l \in Seq(T), NEW m \in Seq(T), NEW K
  PROVE  Kept(l \o m, K) = Kept(l, K) \o Kept(m, K)
<1>. DEFINE P == {s \in Seq(T) : Kept(l \o s, K) = Kept(l, K) \o Kept(s, K)}
<1>1. << >> \in P
  <2>1. l \o << >> = l /\ Kept(l, K) \in Seq(T)
    BY KeptRange
  <2>2. Kept(l, K) \o << >> = Kept(l, K)
    BY <2>1
  <2>. QED BY <2>1, <2>2, KeptEmpty
<1>2. ASSUME NEW s \in Seq(T), NEW x \in T, s \in P PROVE Append(s, x) \in P
  <2>1. l \o Append(s, x) = Append(l \o s, x) /\ l \o s \in Seq(T) /\ Append(s, x) \in Seq(T)
    OBVIOUS
  <2>2a. x \in K => Kept(Append(l \o s, x), K) = Append(Kept(l \o s, K), x)
    BY <2>1, KeptAppend
  <2>2b. x \notin K => Kept(Append(l \o s, x), K) = Kept(l \o s, K)
    BY <2>1, KeptSkips
  <2>3a. x \in K => Kept(Append(s, x), K) = Append(Kept(s, K), x)
    BY KeptAppend
  <2>3b. x \notin K => Kept(Append(s, x), K) = Kept(s, K)
    BY KeptSkips
  <2>4. Kept(l, K) \in Seq(T) /\ Kept(s, K) \in Seq(T)
    BY KeptRange
  <2>5. Kept(l, K) \o Append(Kept(s, K), x) = Append(Kept(l, K) \o Kept(s, K), x)
    BY <2>4
  <2>6. Kept(l \o s, K) = Kept(l, K) \o Kept(s, K)
    BY <1>2
  <2>. QED BY <2>1, <2>2a, <2>2b, <2>3a, <2>3b, <2>5, <2>6
<1>. HIDE DEF P
<1>3. m \in P
  BY <1>1, <1>2, SeqInduction
<1>. QED BY <1>3 DEF P

\* The members of two lists, one after the other, and when there is no repetition.
LEMMA BothLists ==
  ASSUME NEW T, NEW l \in Seq(T), NEW m \in Seq(T)
  PROVE  /\ l \o m \in Seq(T) /\ Range(l \o m) = Range(l) \cup Range(m)
         /\ Len(l \o m) = Len(l) + Len(m)
         /\ \A n \in 1 .. Len(l) : (l \o m)[n] = l[n]
         /\ \A n \in Len(l) + 1 .. Len(l) + Len(m) : (l \o m)[n] = m[n - Len(l)]
         /\ IsInjective(l) /\ IsInjective(m) /\ Range(l) \cap Range(m) = {} => IsInjective(l \o m)
<1>. DEFINE b == l \o m
<1>1. /\ b \in Seq(T) /\ Len(b) = Len(l) + Len(m) /\ Len(l) \in Nat /\ Len(m) \in Nat
      /\ \A n \in 1 .. Len(l) : b[n] = l[n]
      /\ \A n \in Len(l) + 1 .. Len(l) + Len(m) : b[n] = m[n - Len(l)]
  OBVIOUS
<1>2. DOMAIN b = 1 .. Len(l) + Len(m) /\ DOMAIN l = 1 .. Len(l) /\ DOMAIN m = 1 .. Len(m)
  BY <1>1
<1>. HIDE DEF b
<1>3. \A n \in 1 .. Len(m) : /\ n + Len(l) \in Len(l) + 1 .. Len(l) + Len(m) /\ n + Len(l) \in 1 .. Len(l) + Len(m)
                             /\ (n + Len(l)) - Len(l) = n
  BY <1>1
<1>4. \A n \in 1 .. Len(l) + Len(m) : n \in 1 .. Len(l) \/ (n \in Len(l) + 1 .. Len(l) + Len(m) /\ n - Len(l) \in 1 .. Len(m))
  BY <1>1
<1>5. \A n \in 1 .. Len(l) : n \in 1 .. Len(l) + Len(m)
  BY <1>1
<1>6. Range(b) = Range(l) \cup Range(m)
  <2>1. ASSUME NEW y \in Range(b) PROVE y \in Range(l) \cup Range(m)
    BY <1>1, <1>2, <1>4 DEF Range
  <2>2. ASSUME NEW y \in Range(l) PROVE y \in Range(b)
    BY <1>1, <1>2, <1>5 DEF Range
  <2>3. ASSUME NEW y \in Range(m) PROVE y \in Range(b)
    <3>1. PICK n \in 1 .. Len(m) : y = m[n]
      BY <1>2 DEF Range
    <3>2. n + Len(l) \in DOMAIN b /\ b[n + Len(l)] = y
      BY <1>1, <1>2, <1>3, <3>1
    <3>. QED BY <3>2 DEF Range
  <2>. QED BY <2>1, <2>2, <2>3
<1>7. ASSUME IsInjective(l), IsInjective(m), Range(l) \cap Range(m) = {} PROVE IsInjective(b)
  <2>. SUFFICES ASSUME NEW i \in 1 .. Len(l) + Len(m), NEW j \in 1 .. Len(l) + Len(m), b[i] = b[j] PROVE i = j
    BY <1>2 DEF IsInjective
  <2>1. \A n \in 1 .. Len(l) : l[n] \in Range(l)
    BY <1>2 DEF Range
  <2>2. \A n \in 1 .. Len(m) : m[n] \in Range(m)
    BY <1>2 DEF Range
  <2>3. CASE i \in 1 .. Len(l) /\ j \in 1 .. Len(l)
    BY <1>1, <1>2, <1>7, <2>3 DEF IsInjective
  <2>4. CASE i \notin 1 .. Len(l) /\ j \notin 1 .. Len(l)
    <3>1. m[i - Len(l)] = m[j - Len(l)] /\ i - Len(l) \in 1 .. Len(m) /\ j - Len(l) \in 1 .. Len(m)
      BY <1>1, <1>4, <2>4
    <3>2. i - Len(l) = j - Len(l)
      BY <1>2, <1>7, <3>1 DEF IsInjective
    <3>. QED BY <1>1, <3>2
  <2>5. CASE i \in 1 .. Len(l) /\ j \notin 1 .. Len(l)
    BY <1>1, <1>4, <1>7, <2>1, <2>2, <2>5
  <2>6. CASE i \notin 1 .. Len(l) /\ j \in 1 .. Len(l)
    BY <1>1, <1>4, <1>7, <2>1, <2>2, <2>6
  <2>. QED BY <2>3, <2>4, <2>5, <2>6
<1>. QED BY <1>1, <1>6, <1>7 DEF b

-----------------------------------------------------------------------------
(* Trees, overlays and lists of children *)

\* A tree of position ids, and an overlay (or a snapshot) of lists of them.
IsTree(t) ==
  DOMAIN t \subseteq Ids /\ t = [i \in DOMAIN t |-> t[i]] /\ \A i \in DOMAIN t : t[i] \in Ids \cup {Root}

IsOverlay(o) == o = [key \in DOMAIN o |-> o[key]] /\ \A key \in DOMAIN o : Plain(o[key])

\* A snapshot: every position is in one list.
Listing(S) ==
  /\ DOMAIN S \subseteq Ids \cup {Root} /\ IsOverlay(S)
  /\ \A key, other \in DOMAIN S, i \in Ids : i \in Range(S[key]) /\ i \in Range(S[other]) => key = other

\* What lists have of the positions of S, they have in the lists and in the order of S.
SameOrder(S, lists) ==
  \A key \in Ids \cup {Root} : Kept(ListAt(lists, key), Shown(S)) = ListAt(S, key)

\* Every list of an overlay is one of different ids, also the empty one of a parent it does not have.
LEMMA ListIsPlain == ASSUME NEW o, IsOverlay(o), NEW key PROVE Plain(ListAt(o, key)) /\ Range(ListAt(o, key)) \subseteq Ids
<1>1. Plain(<< >>)
  BY DEF Plain, IsInjective
<1>2. Plain(ListAt(o, key))
  BY <1>1 DEF IsOverlay, ListAt
<1>3. \A l \in Seq(Ids) : Range(l) \subseteq Ids
  BY DEF Range
<1>. QED BY <1>2, <1>3 DEF Plain

\* The children in their order are the children.
LEMMA OrderedIs ==
  ASSUME NEW l, Plain(l), NEW C, C \subseteq Ids
  PROVE  Plain(Ordered(l, C)) /\ Range(Ordered(l, C)) = C
<1>. DEFINE k == Kept(l, C)
            m == Kept(Alphabet, C \ Range(l))
<1>0. Alphabet \in Seq(Ids) /\ IsInjective(Alphabet) /\ Range(Alphabet) = Ids
  BY TreeAssumption DEF Ids
<1>1. k \in Seq(Ids) /\ Range(k) = Range(l) \cap C
  BY KeptRange DEF Plain
<1>2. m \in Seq(Ids) /\ Range(m) = Ids \cap (C \ Range(l))
  BY <1>0, KeptRange
<1>3. IsInjective(k) /\ IsInjective(m)
  BY <1>0, KeptInjective DEF Plain
<1>. HIDE DEF k, m
<1>4. k \o m \in Seq(Ids) /\ Range(k \o m) = C /\ IsInjective(k \o m)
  <2>1. Range(k) \cap Range(m) = {} /\ Range(k) \cup Range(m) = C
    BY <1>1, <1>2
  <2>2. k \o m \in Seq(Ids) /\ Range(k \o m) = Range(k) \cup Range(m)
    BY <1>1, <1>2, BothLists
  <2>3. IsInjective(k \o m)
    BY <1>1, <1>2, <1>3, <2>1, BothLists
  <2>. QED BY <2>1, <2>2, <2>3
<1>. QED BY <1>4 DEF Plain, Ordered, k, m

\* With fewer children the others keep their order.
LEMMA OrderedLess ==
  ASSUME NEW l \in Seq(Ids), NEW C, NEW D
  PROVE  Kept(Ordered(l, C), D) = Ordered(l, C \cap D)
<1>. DEFINE k == Kept(l, C)
            m == Kept(Alphabet, C \ Range(l))
<1>0. Alphabet \in Seq(Ids)
  BY TreeAssumption
<1>1. k \in Seq(Ids) /\ m \in Seq(Ids)
  BY <1>0, KeptRange
<1>2. Kept(k, D) = Kept(l, C \cap D)
  BY KeptTwice
<1>3. Kept(m, D) = Kept(Alphabet, (C \ Range(l)) \cap D)
  BY <1>0, KeptTwice
<1>4. (C \ Range(l)) \cap D = (C \cap D) \ Range(l)
  OBVIOUS
<1>. HIDE DEF k, m
<1>5. Kept(k \o m, D) = Kept(k, D) \o Kept(m, D)
  BY <1>1, KeptBoth
<1>. QED BY <1>2, <1>3, <1>4, <1>5 DEF Ordered, k, m

\* When a list has all children, the alphabet adds nothing.
LEMMA OrderedAll ==
  ASSUME NEW l \in Seq(Ids), NEW C, C \subseteq Range(l)
  PROVE  Ordered(l, C) = Kept(l, C)
<1>0. Alphabet \in Seq(Ids)
  BY TreeAssumption
<1>1. C \ Range(l) = {}
  OBVIOUS
<1>2. Kept(Alphabet, C \ Range(l)) = << >>
  BY <1>0, <1>1, KeptAll
<1>3. Kept(l, C) \in Seq(Ids)
  BY KeptRange
<1>4. Kept(l, C) \o << >> = Kept(l, C)
  BY <1>3
<1>. QED BY <1>2, <1>4 DEF Ordered

\* A list of exactly the children is their order.
LEMMA OrderedSame ==
  ASSUME NEW l \in Seq(Ids), NEW C, C = Range(l)
  PROVE  Ordered(l, C) = l
BY OrderedAll, KeptAll

\* What reconcileLayout makes of an overlay: the list of every parent has its children.
LEMMA ReconcileIs ==
  ASSUME NEW t, IsTree(t), NEW o, IsOverlay(o)
  PROVE  LET lists == Reconcile(t, o) IN
         /\ Listing(lists)
         /\ Shown(lists) = DOMAIN t
         /\ \A key : /\ ListAt(lists, key) = Ordered(ListAt(o, key), Children(t, key))
                     /\ Range(ListAt(lists, key)) = Children(t, key)
                     /\ Plain(ListAt(lists, key))
<1>. DEFINE lists == Reconcile(t, o)
<1>1. lists = [key \in Range(t) |-> Ordered(ListAt(o, key), Children(t, key))]
  BY DEF Reconcile, Keys
<1>2. \A key : Children(t, key) \subseteq Ids
  BY DEF Children, IsTree
<1>3. \A key : Plain(ListAt(o, key))
  BY ListIsPlain
<1>4. \A key : /\ Plain(Ordered(ListAt(o, key), Children(t, key)))
               /\ Range(Ordered(ListAt(o, key), Children(t, key))) = Children(t, key)
  BY <1>2, <1>3, OrderedIs
<1>. HIDE DEF lists
<1>5. ASSUME NEW key PROVE ListAt(lists, key) = Ordered(ListAt(o, key), Children(t, key))
  <2>1. CASE key \in Range(t)
    BY <1>1, <2>1 DEF ListAt
  <2>2. CASE key \notin Range(t)
    <3>1. Children(t, key) = {}
      BY <2>2 DEF Children, Range
    <3>2. ListAt(lists, key) = << >>
      BY <1>1, <2>2 DEF ListAt
    <3>3. ASSUME NEW l, Plain(l), Range(l) = {} PROVE l = << >>
      <4>1. l \in Seq(Ids) /\ (Len(l) # 0 => l[1] \in Range(l))
        BY <3>3 DEF Plain, Range
      <4>. QED BY <3>3, <4>1
    <3>. QED BY <3>1, <3>2, <3>3, <1>4
  <2>. QED BY <2>1, <2>2
<1>6. Listing(lists)
  <2>1. DOMAIN lists = Range(t) /\ Range(t) \subseteq Ids \cup {Root}
    BY <1>1 DEF IsTree, Range
  <2>2. \A key \in DOMAIN lists : lists[key] = ListAt(lists, key)
    BY DEF ListAt
  <2>3. IsOverlay(lists)
    BY <1>1, <1>4, <1>5, <2>2 DEF IsOverlay
  <2>4. \A key \in DOMAIN lists : Range(lists[key]) = Children(t, key)
    BY <1>4, <1>5, <2>2
  <2>5. \A key, other, i : i \in Children(t, key) /\ i \in Children(t, other) => key = other
    BY DEF Children
  <2>. QED BY <2>1, <2>3, <2>4, <2>5 DEF Listing
<1>7. Shown(lists) = DOMAIN t
  <2>1. \A key \in DOMAIN lists : Range(lists[key]) = Children(t, key)
    BY <1>4, <1>5 DEF ListAt
  <2>2. Shown(lists) \subseteq DOMAIN t
    BY <2>1 DEF Shown, Children
  <2>3. ASSUME NEW i \in DOMAIN t PROVE i \in Shown(lists)
    <3>1. t[i] \in DOMAIN lists /\ i \in Children(t, t[i])
      BY <1>1 DEF Range, Children
    <3>. QED BY <2>1, <3>1 DEF Shown
  <2>. QED BY <2>2, <2>3
<1>. QED BY <1>4, <1>5, <1>6, <1>7 DEF lists

\* The list a position is shown in is that of its parent.
LEMMA ShownUnder ==
  ASSUME NEW S, Listing(S), NEW i
  PROVE  /\ \A key : i \in Range(ListAt(S, key)) => ParentShown(S, i) = key /\ key \in DOMAIN S /\ i \in Shown(S)
         /\ i \in Shown(S) => /\ ParentShown(S, i) \in DOMAIN S /\ i \in Range(ListAt(S, ParentShown(S, i)))
                              /\ i \in Ids /\ ParentShown(S, i) \in Ids \cup {Root}
<1>0. \A key \in DOMAIN S : Range(S[key]) \subseteq Ids
  <2>1. ASSUME NEW key \in DOMAIN S PROVE Range(S[key]) \subseteq Ids
    <3>1. S[key] \in Seq(Ids)
      BY DEF Listing, IsOverlay, Plain
    <3>. QED BY <3>1 DEF Range
  <2>. QED BY <2>1
<1>1. ASSUME NEW key \in DOMAIN S, i \in Range(S[key]) PROVE ParentShown(S, i) = key
  <2>1. \A other \in DOMAIN S : i \in Range(S[other]) => other = key
    BY <1>0, <1>1 DEF Listing
  <2>. QED BY <1>1, <2>1 DEF ParentShown
<1>2. ASSUME NEW key, i \in Range(ListAt(S, key)) PROVE key \in DOMAIN S /\ i \in Range(S[key]) /\ i \in Shown(S)
  <2>1. Range(<< >>) = {}
    BY DEF Range
  <2>. QED BY <1>2, <2>1 DEF ListAt, Shown
<1>3. ASSUME i \in Shown(S)
      PROVE  /\ ParentShown(S, i) \in DOMAIN S /\ i \in Range(ListAt(S, ParentShown(S, i)))
             /\ i \in Ids /\ ParentShown(S, i) \in Ids \cup {Root}
  <2>1. PICK key \in DOMAIN S : i \in Range(S[key])
    BY <1>3 DEF Shown
  <2>2. ParentShown(S, i) = key
    BY <1>1, <2>1
  <2>. QED BY <1>0, <2>1, <2>2 DEF ListAt, Listing
<1>. QED BY <1>1, <1>2, <1>3

\* What extends what extends S extends S.
LEMMA SameOrderOf ==
  ASSUME NEW S, Listing(S), NEW L, Listing(L), NEW M, Listing(M), SameOrder(S, L), SameOrder(L, M)
  PROVE  SameOrder(S, M)
<1>1. Shown(S) \subseteq Shown(L)
  <2>. SUFFICES ASSUME NEW i \in Shown(S) PROVE i \in Shown(L)
    OBVIOUS
  <2>. DEFINE key == ParentShown(S, i)
  <2>1. i \in Range(ListAt(S, key)) /\ key \in Ids \cup {Root}
    BY ShownUnder
  <2>. HIDE DEF key
  <2>2. ListAt(S, key) = Kept(ListAt(L, key), Shown(S))
    BY <2>1 DEF SameOrder
  <2>3. ListAt(L, key) \in Seq(Ids)
    BY ListIsPlain DEF Listing, Plain
  <2>4. i \in Range(ListAt(L, key))
    BY <2>1, <2>2, <2>3, KeptRange
  <2>. QED BY <2>4, ShownUnder
<1>2. ASSUME NEW key \in Ids \cup {Root} PROVE Kept(ListAt(M, key), Shown(S)) = ListAt(S, key)
  <2>1. ListAt(M, key) \in Seq(Ids)
    BY ListIsPlain DEF Listing, Plain
  <2>2. Kept(Kept(ListAt(M, key), Shown(L)), Shown(S)) = Kept(ListAt(M, key), Shown(L) \cap Shown(S))
    BY <2>1, KeptTwice
  <2>3. Shown(L) \cap Shown(S) = Shown(S)
    BY <1>1
  <2>. QED BY <2>2, <2>3, <1>2 DEF SameOrder
<1>. QED BY <1>2 DEF SameOrder

\* All but the last of an overlay's list are children: whoever is hired below the owner with no
\* parent is appended to the list of the roots, and whoever has left stays in no list.
Tidy(o, t) == \A key \in DOMAIN o : \A n \in 1..Len(o[key]) - 1 : o[key][n] \in Children(t, key)

\* An overlay stays tidy when every parent keeps its children.
LEMMA TidyGrows ==
  ASSUME NEW o, NEW t, NEW u, Tidy(o, t), \A key : Children(t, key) \subseteq Children(u, key)
  PROVE  Tidy(o, u)
BY DEF Tidy

\* reconcileLayout leaves an overlay that is tidy.
LEMMA TidyReconciled == ASSUME NEW t, IsTree(t), NEW o, IsOverlay(o) PROVE Tidy(Reconcile(t, o), t)
<1>. DEFINE lists == Reconcile(t, o)
<1>1. ASSUME NEW key \in DOMAIN lists, NEW n \in 1..Len(lists[key]) - 1 PROVE lists[key][n] \in Children(t, key)
  <2>1. ListAt(lists, key) = lists[key]
    BY <1>1 DEF ListAt
  <2>. HIDE DEF lists
  <2>2. lists[key] \in Seq(Ids) /\ Range(lists[key]) = Children(t, key)
    BY <2>1, ReconcileIs DEF Plain, lists
  <2>. QED BY <2>2 DEF Range
<1>. HIDE DEF lists
<1>. QED BY <1>1 DEF Tidy, lists

\* reconcileLayout changes nothing in what it has made.
LEMMA ReconcileTwice ==
  ASSUME NEW t, IsTree(t), NEW o, IsOverlay(o), NEW key
  PROVE  ListAt(Reconcile(t, Reconcile(t, o)), key) = ListAt(Reconcile(t, o), key)
<1>. DEFINE lists == Reconcile(t, o)
<1>1. Listing(lists) /\ Range(ListAt(lists, key)) = Children(t, key) /\ Plain(ListAt(lists, key))
  BY ReconcileIs
<1>. HIDE DEF lists
<1>2. IsOverlay(lists)
  BY <1>1 DEF Listing
<1>3. ListAt(Reconcile(t, lists), key) = Ordered(ListAt(lists, key), Children(t, key))
  BY <1>2, ReconcileIs
<1>. QED BY <1>1, <1>3, OrderedSame DEF lists, Plain

\* A list without one of its members.
LEMMA WithoutIs ==
  ASSUME NEW l, Plain(l), NEW id
  PROVE  /\ Without(l, id) = Kept(l, Ids \ {id})
         /\ Plain(Without(l, id)) /\ Range(Without(l, id)) = Range(l) \ {id}
<1>1. l \in Seq(Ids) /\ Range(l) \subseteq Ids
  BY DEF Plain, Range
<1>2. Kept(l, Range(l) \ {id}) = Kept(l, Ids \ {id})
  BY <1>1, KeptSame
<1>3. Plain(Kept(l, Range(l) \ {id}))
  BY <1>1, KeptRange, KeptInjective DEF Plain
<1>4. Range(Kept(l, Range(l) \ {id})) = Range(l) \cap (Range(l) \ {id})
  BY <1>1, KeptRange
<1>. QED BY <1>2, <1>3, <1>4 DEF Without

\* A list of the snapshot without one child is the order of the other children.
LEMMA ListWithout ==
  ASSUME NEW t, IsTree(t), NEW o, IsOverlay(o), NEW key, NEW id
  PROVE  Without(ListAt(Reconcile(t, o), key), id) = Ordered(ListAt(o, key), Children(t, key) \ {id})
<1>. DEFINE l == ListAt(Reconcile(t, o), key)
<1>1. Plain(l) /\ l = Ordered(ListAt(o, key), Children(t, key))
  BY ReconcileIs
<1>2. ListAt(o, key) \in Seq(Ids)
  BY ListIsPlain DEF Plain
<1>3. Kept(Ordered(ListAt(o, key), Children(t, key)), Ids \ {id}) = Ordered(ListAt(o, key), Children(t, key) \cap (Ids \ {id}))
  BY <1>2, OrderedLess
<1>4. Children(t, key) \cap (Ids \ {id}) = Children(t, key) \ {id}
  BY DEF Children, IsTree
<1>. HIDE DEF l
<1>5. Without(l, id) = Kept(l, Ids \ {id})
  BY <1>1, WithoutIs
<1>. QED BY <1>1, <1>3, <1>4, <1>5 DEF l

\* A list put together from its two parts.
LEMMA JoinedIs ==
  ASSUME NEW T, NEW A \in Seq(T), NEW B \in Seq(T), NEW l \in Seq(T), Len(l) = Len(A) + Len(B),
         \A n \in 1 .. Len(A) : A[n] = l[n], \A n \in 1 .. Len(B) : B[n] = l[Len(A) + n]
  PROVE  A \o B = l
<1>1. /\ A \o B \in Seq(T) /\ Len(A \o B) = Len(A) + Len(B)
      /\ \A n \in 1 .. Len(A) : (A \o B)[n] = A[n]
      /\ \A n \in Len(A) + 1 .. Len(A) + Len(B) : (A \o B)[n] = B[n - Len(A)]
  BY BothLists, Zenon
<1>. DEFINE C == A \o B
<1>. HIDE DEF C
<1>2. /\ C \in Seq(T) /\ Len(C) = Len(l)
      /\ \A n \in 1 .. Len(A) : C[n] = A[n]
      /\ \A n \in Len(A) + 1 .. Len(A) + Len(B) : C[n] = B[n - Len(A)]
  BY <1>1 DEF C
<1>3. ASSUME NEW n \in 1 .. Len(l) PROVE C[n] = l[n]
  <2>1. CASE n \in 1 .. Len(A)
    BY <1>2, <2>1
  <2>2. CASE n \notin 1 .. Len(A)
    <3>1. n \in Len(A) + 1 .. Len(A) + Len(B) /\ n - Len(A) \in 1 .. Len(B) /\ Len(A) + (n - Len(A)) = n
      BY <2>2
    <3>. QED BY <1>2, <3>1
  <2>. QED BY <2>1, <2>2
<1>4. C = l
  <2>1. C = [n \in 1 .. Len(l) |-> C[n]] /\ l = [n \in 1 .. Len(l) |-> l[n]]
    BY <1>2
  <2>. QED BY <2>1, <1>3, Zenon
<1>. QED BY <1>4 DEF C

\* What is kept of a list of three parts.
LEMMA KeptThree ==
  ASSUME NEW T, NEW l \in Seq(T), NEW m \in Seq(T), NEW r \in Seq(T), NEW K
  PROVE  Kept((l \o m) \o r, K) = (Kept(l, K) \o Kept(m, K)) \o Kept(r, K)
<1>1. ASSUME NEW b \in Seq(T) PROVE Kept(b \o r, K) = Kept(b, K) \o Kept(r, K)
  BY KeptBoth
<1>2. l \o m \in Seq(T)
  OBVIOUS
<1>3. Kept((l \o m) \o r, K) = Kept(l \o m, K) \o Kept(r, K)
  BY <1>1, <1>2
<1>4. Kept(l \o m, K) = Kept(l, K) \o Kept(m, K)
  BY KeptBoth
<1>. QED BY <1>3, <1>4

\* The list a drop beside an anchor asks for: the dragged position is next to it, and without it
\* the list is as it was.
LEMMA InsertedIs ==
  ASSUME NEW l, Plain(l), NEW id \in Ids, NEW anchor \in Range(l), id # anchor, NEW zone \in {"before", "after"}
  PROVE  LET list == Inserted(l, id, anchor, zone)
             at == IndexOf(list, id)
         IN  /\ Plain(list) /\ Range(list) = Range(l) \cup {id} /\ Without(list, id) = Without(l, id)
             /\ zone = "before" => at < Len(list) /\ list[at + 1] = anchor
             /\ zone = "after" => at > 1 /\ list[at - 1] = anchor
<1>. DEFINE ids == Without(l, id)
            i == IndexOf(ids, anchor)
            j == IF zone = "before" THEN i ELSE i + 1
            list == Inserted(l, id, anchor, zone)
            A == SubSeq(ids, 1, j - 1)
            B == SubSeq(ids, j, Len(ids))
<1>1. Plain(ids) /\ Range(ids) = Range(l) \ {id} /\ anchor \in Range(ids)
  BY WithoutIs
<1>2. list = A \o <<id>> \o B
  BY DEF Inserted, InsertAt
<1>. HIDE DEF ids, list
<1>3. ids \in Seq(Ids) /\ IsInjective(ids) /\ Len(ids) \in Nat /\ DOMAIN ids = 1 .. Len(ids)
  BY <1>1 DEF Plain
<1>4. i \in 1 .. Len(ids) /\ ids[i] = anchor
  <2>1. \E n \in DOMAIN ids : ids[n] = anchor
    BY <1>1 DEF Range
  <2>. QED BY <2>1, <1>3 DEF IndexOf
<1>. HIDE DEF i
<1>5. j \in 1 .. Len(ids) + 1 /\ (zone = "before" => j = i) /\ (zone = "after" => j = i + 1)
  BY <1>3, <1>4
<1>. HIDE DEF j
<1>6. /\ A \in Seq(Ids) /\ Len(A) = j - 1 /\ \A n \in 1 .. j - 1 : A[n] = ids[n]
      /\ B \in Seq(Ids) /\ Len(B) = Len(ids) - j + 1 /\ \A n \in 1 .. Len(ids) - j + 1 : B[n] = ids[(j - 1) + n]
      /\ A \o B = ids
  <2>1. A \in Seq(Ids) /\ Len(A) = j - 1 /\ \A n \in 1 .. j - 1 : A[n] = ids[n]
    BY <1>3, <1>5
  <2>2. B \in Seq(Ids) /\ Len(B) = Len(ids) - j + 1 /\ \A n \in 1 .. Len(ids) - j + 1 : B[n] = ids[(j - 1) + n]
    BY <1>3, <1>5
  <2>. HIDE DEF A, B
  <2>3. A \o B = ids
    <3>1. Len(ids) = Len(A) + Len(B) /\ \A n \in 1 .. Len(A) : A[n] = ids[n]
      BY <1>3, <1>5, <2>1, <2>2
    <3>2. \A n \in 1 .. Len(B) : B[n] = ids[Len(A) + n]
      BY <1>3, <1>5, <2>1, <2>2
    <3>. QED BY <1>3, <2>1, <2>2, <3>1, <3>2, JoinedIs, Zenon
  <2>. QED BY <2>1, <2>2, <2>3
<1>. HIDE DEF A, B
<1>7. /\ list \in Seq(Ids) /\ Len(list) = Len(ids) + 1 /\ list[j] = id
      /\ \A n \in 1 .. j - 1 : list[n] = ids[n]
      /\ \A n \in j + 1 .. Len(ids) + 1 : list[n] = ids[n - 1]
  <2>. DEFINE C == A \o <<id>>
  <2>1. C \in Seq(Ids) /\ Len(C) = j /\ C[j] = id /\ \A n \in 1 .. j - 1 : C[n] = A[n]
    <3>. DEFINE I == <<id>>
    <3>1. I \in Seq(Ids) /\ Len(I) = 1 /\ I[1] = id
      OBVIOUS
    <3>. HIDE DEF I
    <3>0. A \in Seq(Ids)
      BY <1>6
    <3>2. /\ A \o I \in Seq(Ids) /\ Len(A \o I) = Len(A) + Len(I)
          /\ \A n \in 1 .. Len(A) : (A \o I)[n] = A[n]
          /\ \A n \in Len(A) + 1 .. Len(A) + Len(I) : (A \o I)[n] = I[n - Len(A)]
      BY <3>0, <3>1, BothLists, Zenon
    <3>3. Len(A \o I) = j /\ (A \o I)[j] = id /\ \A n \in 1 .. j - 1 : (A \o I)[n] = A[n]
      <4>1. Len(A) = j - 1 /\ j \in Nat \ {0}
        BY <1>3, <1>5, <1>6
      <4>. QED BY <3>1, <3>2, <4>1
    <3>. QED BY <3>2, <3>3 DEF I
  <2>2. list = C \o B
    BY <1>2
  <2>. HIDE DEF C
  <2>2a. Len(C) + Len(B) = Len(ids) + 1
    BY <1>3, <1>5, <1>6, <2>1
  <2>2b. /\ list \in Seq(Ids) /\ Len(list) = Len(C) + Len(B)
         /\ \A n \in 1 .. Len(C) : list[n] = C[n]
         /\ \A n \in Len(C) + 1 .. Len(C) + Len(B) : list[n] = B[n - Len(C)]
    <3>1. B \in Seq(Ids) /\ C \in Seq(Ids)
      BY <1>6, <2>1
    <3>2. /\ C \o B \in Seq(Ids) /\ Len(C \o B) = Len(C) + Len(B)
          /\ \A n \in 1 .. Len(C) : (C \o B)[n] = C[n]
          /\ \A n \in Len(C) + 1 .. Len(C) + Len(B) : (C \o B)[n] = B[n - Len(C)]
      BY <3>1, BothLists, Zenon
    <3>. QED BY <2>2, <3>2, Zenon
  <2>3. list \in Seq(Ids) /\ Len(list) = Len(ids) + 1 /\ \A n \in 1 .. j : list[n] = C[n]
    BY <2>1, <2>2a, <2>2b
  <2>4. ASSUME NEW n \in j + 1 .. Len(ids) + 1 PROVE list[n] = ids[n - 1]
    <3>1. n - j \in 1 .. Len(ids) - j + 1 /\ (j - 1) + (n - j) = n - 1
      BY <1>3, <1>5
    <3>2. list[n] = B[n - j]
      BY <2>1, <2>2a, <2>2b
    <3>. QED BY <1>6, <3>1, <3>2
  <2>5. list[j] = id
    BY <1>5, <2>1, <2>3
  <2>6. ASSUME NEW n \in 1 .. j - 1 PROVE list[n] = ids[n]
    <3>1. n \in 1 .. j
      BY <1>5
    <3>. QED BY <1>6, <2>1, <2>3, <3>1
  <2>. QED BY <2>3, <2>4, <2>5, <2>6
<1>8. id \notin Range(ids) /\ \A n \in 1 .. Len(ids) : ids[n] # id
  <2>1. id \notin Range(ids)
    BY <1>1
  <2>. QED BY <2>1, <1>3 DEF Range
<1>9. DOMAIN list = 1 .. Len(ids) + 1
  BY <1>7
<1>10. \A n \in 1 .. Len(ids) + 1 : n \in 1 .. j - 1 \/ n = j \/ n \in j + 1 .. Len(ids) + 1
  BY <1>3, <1>5
<1>11. \A n \in 1 .. j - 1 : n \in 1 .. Len(ids)
  BY <1>3, <1>5
<1>12. \A n \in j + 1 .. Len(ids) + 1 : n - 1 \in 1 .. Len(ids)
  BY <1>3, <1>5
<1>13. IsInjective(list)
  <2>. SUFFICES ASSUME NEW m \in 1 .. Len(ids) + 1, NEW n \in 1 .. Len(ids) + 1, list[m] = list[n] PROVE m = n
    BY <1>9 DEF IsInjective
  <2>1. \A a, b \in 1 .. Len(ids) : ids[a] = ids[b] => a = b
    BY <1>3 DEF IsInjective
  <2>2. CASE m = j \/ n = j
    BY <1>7, <1>8, <1>10, <1>11, <1>12, <2>2
  <2>3. CASE m \in 1 .. j - 1
    <3>1. list[m] = ids[m] /\ m \in 1 .. Len(ids)
      BY <1>7, <1>11, <2>3
    <3>2. CASE n \in 1 .. j - 1
      BY <1>7, <1>11, <2>1, <3>1, <3>2
    <3>3. CASE n \in j + 1 .. Len(ids) + 1
      <4>1. list[n] = ids[n - 1] /\ n - 1 \in 1 .. Len(ids)
        BY <1>7, <1>12, <3>3
      <4>2. m = n - 1
        BY <2>1, <3>1, <4>1
      <4>. QED BY <1>3, <1>5, <2>3, <3>3, <4>2
    <3>. QED BY <1>10, <2>2, <3>2, <3>3
  <2>4. CASE m \in j + 1 .. Len(ids) + 1
    <3>1. list[m] = ids[m - 1] /\ m - 1 \in 1 .. Len(ids)
      BY <1>7, <1>12, <2>4
    <3>2. CASE n \in 1 .. j - 1
      <4>1. list[n] = ids[n] /\ n \in 1 .. Len(ids)
        BY <1>7, <1>11, <3>2
      <4>2. n = m - 1
        BY <2>1, <3>1, <4>1
      <4>. QED BY <1>3, <1>5, <2>4, <3>2, <4>2
    <3>3. CASE n \in j + 1 .. Len(ids) + 1
      <4>1. list[n] = ids[n - 1] /\ n - 1 \in 1 .. Len(ids)
        BY <1>7, <1>12, <3>3
      <4>2. n - 1 = m - 1
        BY <2>1, <3>1, <4>1
      <4>. QED BY <1>3, <1>5, <4>2
    <3>. QED BY <1>10, <2>2, <3>2, <3>3
  <2>. QED BY <1>10, <2>2, <2>3, <2>4
<1>14. Range(list) = Range(l) \cup {id}
  <2>1. ASSUME NEW x \in Range(list) PROVE x \in Range(ids) \cup {id}
    <3>1. PICK n \in 1 .. Len(ids) + 1 : x = list[n]
      BY <1>9, <2>1 DEF Range
    <3>. QED BY <3>1, <1>3, <1>7, <1>10, <1>11, <1>12 DEF Range
  <2>2. ASSUME NEW x \in Range(ids) PROVE x \in Range(list)
    <3>1. PICK n \in 1 .. Len(ids) : x = ids[n]
      BY <1>3, <2>2 DEF Range
    <3>2. CASE n <= j - 1
      <4>1. n \in 1 .. j - 1 /\ n \in DOMAIN list
        BY <1>3, <1>5, <1>9, <3>2
      <4>. QED BY <1>7, <3>1, <4>1 DEF Range
    <3>3. CASE n > j - 1
      <4>1. n + 1 \in j + 1 .. Len(ids) + 1 /\ n + 1 \in DOMAIN list /\ (n + 1) - 1 = n
        BY <1>3, <1>5, <1>9, <3>3
      <4>. QED BY <1>7, <3>1, <4>1 DEF Range
    <3>. QED BY <1>3, <1>5, <3>2, <3>3
  <2>3. id \in Range(list)
    BY <1>5, <1>7, <1>9 DEF Range
  <2>4. Range(ids) = Range(l) \ {id}
    BY <1>1
  <2>. QED BY <2>1, <2>2, <2>3, <2>4
<1>15. Without(list, id) = ids
  <2>. DEFINE K == Ids \ {id}
              I == <<id>>
  <2>1. Without(list, id) = Kept(list, K)
    BY <1>7, <1>13, WithoutIs DEF Plain
  <2>2. I \in Seq(Ids) /\ Range(I) = {id} /\ list = (A \o I) \o B
    BY <1>2 DEF Range
  <2>5. Kept(I, K) = << >>
    BY <2>2, KeptAll
  <2>. HIDE DEF K, I
  <2>3. A \in Seq(Ids) /\ B \in Seq(Ids) /\ A \o I \in Seq(Ids)
    BY <1>6, <2>2
  <2>4. Kept(list, K) = (Kept(A, K) \o Kept(I, K)) \o Kept(B, K)
    <3>1. ASSUME NEW a \in Seq(Ids), NEW b \in Seq(Ids), NEW c \in Seq(Ids)
          PROVE  Kept((a \o b) \o c, K) = (Kept(a, K) \o Kept(b, K)) \o Kept(c, K)
      BY KeptThree, SMTT(30)
    <3>2. B \in Seq(Ids) /\ I \in Seq(Ids) /\ A \in Seq(Ids)
      BY <2>2, <2>3
    <3>3. Kept((A \o I) \o B, K) = (Kept(A, K) \o Kept(I, K)) \o Kept(B, K)
      BY <3>1, <3>2, Zenon
    <3>. QED BY <2>2, <3>3, Zenon
  <2>6. Range(A) \subseteq K /\ Range(B) \subseteq K
    <3>1. \A n \in 1 .. j - 1 : A[n] \in K
      BY <1>3, <1>6, <1>8, <1>11 DEF K
    <3>2. ASSUME NEW n \in 1 .. Len(ids) - j + 1 PROVE B[n] \in K
      <4>1. (j - 1) + n \in 1 .. Len(ids)
        BY <1>3, <1>5
      <4>. QED BY <1>3, <1>6, <1>8, <4>1 DEF K
    <3>3. DOMAIN A = 1 .. j - 1 /\ DOMAIN B = 1 .. Len(ids) - j + 1
      BY <1>6
    <3>. QED BY <3>1, <3>2, <3>3 DEF Range
  <2>7. Kept(A, K) = A /\ Kept(B, K) = B
    BY <1>6, <2>6, KeptAll
  <2>8. Kept(list, K) = (A \o << >>) \o B
    BY <2>4, <2>5, <2>7, Zenon
  <2>9. A \o << >> = A
    BY <1>6
  <2>. QED BY <1>6, <2>1, <2>8, <2>9, Zenon
<1>16. IndexOf(list, id) = j
  <2>1. j \in DOMAIN list /\ \A n \in DOMAIN list : list[n] = id => n = j
    BY <1>5, <1>7, <1>9, <1>13 DEF IsInjective
  <2>. QED BY <1>7, <2>1 DEF IndexOf
<1>17. zone = "before" => j < Len(list) /\ list[j + 1] = anchor
  <2>. SUFFICES ASSUME zone = "before" PROVE j < Len(list) /\ list[j + 1] = anchor
    OBVIOUS
  <2>1. j = i /\ j + 1 \in j + 1 .. Len(ids) + 1 /\ (j + 1) - 1 = i
    BY <1>3, <1>4, <1>5
  <2>2. list[j + 1] = ids[i]
    BY <1>7, <2>1
  <2>. QED BY <1>3, <1>4, <1>7, <2>1, <2>2
<1>18. zone = "after" => j > 1 /\ list[j - 1] = anchor
  <2>. SUFFICES ASSUME zone = "after" PROVE j > 1 /\ list[j - 1] = anchor
    OBVIOUS
  <2>1. j - 1 = i /\ j - 1 \in 1 .. j - 1 /\ j > 1
    BY <1>3, <1>4, <1>5
  <2>. QED BY <1>4, <1>7, <2>1
<1>. QED BY <1>7, <1>13, <1>14, <1>15, <1>16, <1>17, <1>18 DEF Plain, ids, list

-----------------------------------------------------------------------------
(* Chains and manifests *)

\* The ids that positions can have are finitely many.
LEMMA IdsFinite == IsFiniteSet(Ids)
<1>1. Alphabet \in [1 .. Len(Alphabet) -> Ids] /\ Len(Alphabet) \in Nat
  BY TreeAssumption
<1>2. \A i \in Ids : \E n \in 1 .. Len(Alphabet) : Alphabet[n] = i
  BY <1>1 DEF Ids, Range
<1>3. Alphabet \in Surjection(1 .. Len(Alphabet), Ids)
  BY <1>1, <1>2 DEF Surjection
<1>4. IsFiniteSet(1 .. Len(Alphabet))
  BY <1>1, FS_Interval
<1>. QED BY <1>3, <1>4, FS_Surjection

\* The walk from a position towards the root begins with the position itself.
LEMMA ChainHas == ASSUME NEW parents, IsFiniteSet(DOMAIN parents), NEW id \in DOMAIN parents PROVE id \in Chain(parents, id)
<1>. DEFINE S == DOMAIN parents
            N == Cardinality(S)
            up(m) == m \cup ({parents[i] : i \in m} \cap S)
            R(g) == [n \in 0 .. N |-> IF n = 0 THEN {id} \cap S ELSE up(g[n - 1])]
            met == CHOOSE g : g = R(g)
<1>1. Chain(parents, id) = met[N]
  BY DEF Chain
<1>2. N \in Nat
  BY FS_CardinalityType
<1>3. \E g : g = R(g)
  <2>. DEFINE step == [p \in (1 .. N) \X SUBSET S |-> up(p[2])]
  <2>1. step \in [(1 .. N) \X SUBSET S -> SUBSET S] /\ {id} \in SUBSET S
    OBVIOUS
  <2>0. PICK g : Steps(g, N, SUBSET S, {id}, step)
    <3>. HIDE DEF step, N, R
    <3>. QED BY <1>2, <2>1, Recursion, Zenon
  <2>2. /\ g \in [0 .. N -> SUBSET S] /\ g[0] = {id}
        /\ \A n \in 1 .. N : g[n] = step[<<n, g[n - 1]>>]
    <3>. HIDE DEF step, N, R
    <3>. QED BY <2>0 DEF Steps
  <2>3. ASSUME NEW n \in 0 .. N PROVE g[n] = R(g)[n]
    <3>1. CASE n = 0
      BY <2>2, <3>1
    <3>2. CASE n \in 1 .. N
      <4>. HIDE DEF N
      <4>0. n - 1 \in 0 .. N /\ n # 0
        BY <1>2, <3>2
      <4>1. g[n - 1] \in SUBSET S
        BY <2>2, <4>0
      <4>2. <<n, g[n - 1]>> \in (1 .. N) \X SUBSET S
        BY <3>2, <4>1, Zenon
      <4>3. step[<<n, g[n - 1]>>] = up(g[n - 1])
        <5>. HIDE DEF up
        <5>. QED BY <4>2
      <4>4. R(g)[n] = up(g[n - 1])
        <5>. HIDE DEF up
        <5>. QED BY <4>0
      <4>. QED BY <2>2, <3>2, <4>3, <4>4, Zenon
    <3>. QED BY <1>2, <3>1, <3>2
  <2>4. g = [n \in 0 .. N |-> g[n]] /\ R(g) = [n \in 0 .. N |-> R(g)[n]]
    BY <2>2
  <2>. HIDE DEF R
  <2>. QED BY <2>3, <2>4
<1>4. met = R(met)
  BY <1>3
<1>. HIDE DEF met
<1>5. \A n \in 0 .. N : met[n] = IF n = 0 THEN {id} \cap S ELSE up(met[n - 1])
  BY <1>4, Zenon
<1>. HIDE DEF N
<1>. DEFINE A == {n \in Nat : n <= N => id \in met[n]}
<1>6. 0 \in A
  <2>1. 0 \in 0 .. N
    BY <1>2
  <2>2. met[0] = {id} \cap S
    BY <1>5, <2>1, Zenon
  <2>. QED BY <2>2
<1>7. ASSUME NEW n \in Nat, n \in A PROVE n + 1 \in A
  <2>. SUFFICES ASSUME n + 1 <= N PROVE id \in met[n + 1]
    OBVIOUS
  <2>1. n + 1 \in 0 .. N /\ n + 1 # 0 /\ (n + 1) - 1 = n /\ id \in met[n]
    BY <1>2, <1>7
  <2>. QED BY <1>5, <2>1
<1>. HIDE DEF A
<1>8. N \in A
  BY <1>2, <1>6, <1>7, Induction
<1>. QED BY <1>1, <1>2, <1>8 DEF A, N

\* The three kinds of changes.
Move(id, p) == [op |-> "move", id |-> id, reportTo |-> p]
Delete(id) == [op |-> "delete", id |-> id]
ToOrder(p, list) == [op |-> "reorder", parentId |-> p, order |-> list]

\* The structural changes of the manifests that the canvas sends.
LEMMA StructuralOf ==
  /\ \A id, p : Structural(<<Move(id, p)>>) = <<Move(id, p)>>
  /\ \A id : Structural(<<Delete(id)>>) = <<Delete(id)>>
  /\ \A p, list : Structural(<<ToOrder(p, list)>>) = << >>
  /\ \A id, q, p, list : Structural(<<Move(id, q), ToOrder(p, list)>>) = <<Move(id, q)>>
<1>1. ASSUME NEW c PROVE /\ c.op # "reorder" => Structural(<<c>>) = <<c>>
                         /\ c.op = "reorder" => Structural(<<c>>) = << >>
  <2>1. <<c>> \in Seq({c}) /\ Range(<<c>>) = {c}
    BY DEF Range
  <2>. DEFINE l == <<c>>
              K == {x \in Range(l) : x.op # "reorder"}
  <2>2. l \in Seq({c}) /\ Range(l) = {c}
    BY <2>1
  <2>. HIDE DEF l
  <2>3. Range(l) \subseteq K => Kept(l, K) = l
    BY <2>2, KeptAll
  <2>4. Range(l) \cap K = {} => Kept(l, K) = << >>
    BY <2>2, KeptAll
  <2>. QED BY <2>2, <2>3, <2>4 DEF Structural, l
<1>2. ASSUME NEW c, NEW d, c.op # "reorder", d.op = "reorder" PROVE Structural(<<c, d>>) = <<c>>
  <2>. DEFINE l == <<c>>
              m == <<c, d>>
              K == {x \in Range(m) : x.op # "reorder"}
  <2>1. l \in Seq({c, d}) /\ Range(l) = {c} /\ m = Append(l, d) /\ Range(m) = {c, d}
    BY DEF Range
  <2>. HIDE DEF l, m
  <2>2. d \notin K /\ Range(l) \subseteq K
    BY <2>1, <1>2
  <2>3. Kept(Append(l, d), K) = Kept(l, K)
    BY <2>1, <2>2, KeptSkips
  <2>4. Kept(l, K) = l
    BY <2>1, <2>2, KeptAll
  <2>. QED BY <2>1, <2>3, <2>4 DEF Structural, l, m
<1>3. ASSUME NEW id, NEW p PROVE Move(id, p).op = "move" /\ Delete(id).op = "delete" /\ ToOrder(p, id).op = "reorder"
  BY DEF Move, Delete, ToOrder
<1>. QED BY <1>1, <1>2, <1>3

\* An overlay with one list replaced.
Put(o, p, list) == [key \in DOMAIN o \cup {p} |-> IF key = p THEN list ELSE o[key]]

\* The tree after a move.
Moved(t, id, p) == [i \in DOMAIN t |-> IF i = id THEN p ELSE t[i]]

\* The tree after a delete.
Pruned(t, id) == [i \in {j \in DOMAIN t : ~ IsDescendant(t, j, id)} |-> t[i]]

\* A function, for the overlays.
IsMap(o) == o = [key \in DOMAIN o |-> o[key]]

\* The trees of a manifest with one change or two.
LEMMA TreesOf ==
  ASSUME NEW t, NEW T, NEW changes \in Seq(T), Len(changes) >= 1
  PROVE  /\ Trees(t, changes, Owner)[0] = t
         /\ Trees(t, changes, Owner)[1] = Effect(t, changes[1])
         /\ Len(changes) = 2 => Trees(t, changes, Owner)[2] = Effect(Effect(t, changes[1]), changes[2])
<1>1. \A n \in 1 .. Len(changes) : Trees(t, changes, Owner)[n] = Effect(Trees(t, changes, Owner)[n - 1], changes[n])
  BY TreesAre
<1>2. Trees(t, changes, Owner)[0] = t
  BY TreesAre
<1>3. 1 \in 1 .. Len(changes) /\ 1 - 1 = 0 /\ (Len(changes) = 2 => 2 \in 1 .. Len(changes)) /\ 2 - 1 = 1
  OBVIOUS
<1>4. Trees(t, changes, Owner)[1] = Effect(Trees(t, changes, Owner)[1 - 1], changes[1])
  BY <1>1, <1>3, Zenon
<1>5. Len(changes) = 2 => Trees(t, changes, Owner)[2] = Effect(Trees(t, changes, Owner)[2 - 1], changes[2])
  BY <1>1, <1>3, Zenon
<1>. QED BY <1>2, <1>3, <1>4, <1>5, Zenon

\* What validation and application make of a move.
LEMMA MoveIs ==
  ASSUME NEW T, NEW changes \in Seq(T), Len(changes) = 1, NEW id, NEW p, changes[1] = Move(id, p)
  PROVE  /\ \A t : Trees(t, changes, Owner)[Len(changes)] = Moved(t, id, p)
         /\ \A t : Valid(t, changes, Owner) => id \in DOMAIN t
         /\ \A o : IsMap(o) => Reordered(o, changes) = o
         /\ ~ \E n \in DOMAIN changes : changes[n].op = "delete"
<1>1. DOMAIN changes = {1}
  OBVIOUS
<1>2. \A t : Trees(t, changes, Owner)[0] = t /\ Trees(t, changes, Owner)[1] = Effect(t, Move(id, p))
  BY <1>1, TreesOf
<1>3. Move(id, p).op = "move" /\ Move(id, p).id = id /\ Move(id, p).reportTo = p
  BY DEF Move
<1>4. \A t : Effect(t, Move(id, p)) = Moved(t, id, p)
  BY <1>3 DEF Effect, Moved
<1>5. ASSUME NEW t, Valid(t, changes, Owner) PROVE id \in DOMAIN t
  <2>1. \A n \in 1 .. Len(changes) : Permits(Trees(t, changes, Owner)[n - 1], changes[n], Owner)
    BY <1>5, Zenon DEF Valid
  <2>2. 1 \in 1 .. Len(changes) /\ 1 - 1 = 0
    BY <1>1
  <2>3. Permits(Trees(t, changes, Owner)[1 - 1], changes[1], Owner)
    BY <2>1, <2>2, Zenon
  <2>4. Permits(t, Move(id, p), Owner)
    BY <1>1, <1>2, <2>2, <2>3, Zenon
  <2>. QED BY <1>3, <2>4 DEF Permits
<1>6. Reorders(changes) = {}
  BY <1>1, <1>3 DEF Reorders
<1>7. \A o : IsMap(o) => Reordered(o, changes) = o
  BY <1>6 DEF Reordered, IsMap
<1>8. \A t : Trees(t, changes, Owner)[Len(changes)] = Moved(t, id, p)
  BY <1>2, <1>4, Zenon
<1>9. ~ \E n \in DOMAIN changes : changes[n].op = "delete"
  BY <1>1, <1>3
<1>. QED BY <1>5, <1>7, <1>8, <1>9

\* Of a delete.
LEMMA DeleteIs ==
  ASSUME NEW T, NEW changes \in Seq(T), Len(changes) = 1, NEW id, changes[1] = Delete(id)
  PROVE  /\ \A t : Trees(t, changes, Owner)[Len(changes)] = Pruned(t, id)
         /\ \A o : IsMap(o) => Reordered(o, changes) = o
         /\ \E n \in DOMAIN changes : changes[n].op = "delete"
<1>1. DOMAIN changes = {1}
  OBVIOUS
<1>2. \A t : Trees(t, changes, Owner)[1] = Effect(t, Delete(id))
  BY <1>1, TreesOf
<1>3. Delete(id).op = "delete" /\ Delete(id).id = id
  BY DEF Delete
<1>4. \A t : Effect(t, Delete(id)) = Pruned(t, id)
  BY <1>3 DEF Effect, Pruned
<1>6. Reorders(changes) = {}
  BY <1>1, <1>3 DEF Reorders
<1>7. \A o : IsMap(o) => Reordered(o, changes) = o
  BY <1>6 DEF Reordered, IsMap
<1>8. \A t : Trees(t, changes, Owner)[Len(changes)] = Pruned(t, id)
  BY <1>2, <1>4, Zenon
<1>. QED BY <1>1, <1>3, <1>7, <1>8

\* Of an order alone.
LEMMA OrderIs ==
  ASSUME NEW T, NEW changes \in Seq(T), Len(changes) = 1, NEW p, NEW list, changes[1] = ToOrder(p, list)
  PROVE  /\ \A t : Valid(t, changes, Owner) => Range(list) = Children(t, p) /\ IsInjective(list)
         /\ \A o : Reordered(o, changes) = Put(o, p, list)
         /\ ~ \E n \in DOMAIN changes : changes[n].op = "delete"
<1>1. DOMAIN changes = {1}
  OBVIOUS
<1>3. ToOrder(p, list).op = "reorder" /\ ToOrder(p, list).parentId = p /\ ToOrder(p, list).order = list
  BY DEF ToOrder
<1>2. \A t : Trees(t, changes, Owner)[Len(changes)] = t
  <2>1. \A t : Trees(t, changes, Owner)[1] = Effect(t, ToOrder(p, list))
    BY <1>1, TreesOf
  <2>2. \A t : Effect(t, ToOrder(p, list)) = t
    BY <1>3 DEF Effect
  <2>. QED BY <2>1, <2>2, Zenon
<1>4. Reorders(changes) = {1}
  BY <1>1, <1>3 DEF Reorders
<1>5. ASSUME NEW t, Valid(t, changes, Owner) PROVE Range(list) = Children(t, p) /\ IsInjective(list)
  <2>1. \A n \in Reorders(changes) :
          /\ Range(changes[n].order) = Children(Trees(t, changes, Owner)[Len(changes)], changes[n].parentId)
          /\ IsInjective(changes[n].order)
    BY <1>5, Zenon DEF Valid
  <2>. QED BY <1>1, <1>2, <1>3, <1>4, <2>1
<1>7. ASSUME NEW o PROVE Reordered(o, changes) = Put(o, p, list)
  <2>1. {changes[n].parentId : n \in Reorders(changes)} = {p}
    BY <1>1, <1>3, <1>4
  <2>2. (CHOOSE n \in Reorders(changes) : changes[n].parentId = p) = 1
    BY <1>1, <1>3, <1>4
  <2>. QED BY <1>1, <1>3, <2>1, <2>2 DEF Reordered, Put
<1>8. ~ \E n \in DOMAIN changes : changes[n].op = "delete"
  BY <1>1, <1>3
<1>. QED BY <1>5, <1>7, <1>8

\* Of a move and an order.
LEMMA MoveOrderIs ==
  ASSUME NEW T, NEW changes \in Seq(T), Len(changes) = 2, NEW id, NEW q, NEW p, NEW list,
         changes[1] = Move(id, q), changes[2] = ToOrder(p, list)
  PROVE  /\ \A t : Trees(t, changes, Owner)[Len(changes)] = Moved(t, id, q)
         /\ \A t : Valid(t, changes, Owner) =>
                     id \in DOMAIN t /\ Range(list) = Children(Moved(t, id, q), p) /\ IsInjective(list)
         /\ \A o : Reordered(o, changes) = Put(o, p, list)
         /\ ~ \E n \in DOMAIN changes : changes[n].op = "delete"
<1>1. DOMAIN changes = {1, 2}
  OBVIOUS
<1>3. /\ ToOrder(p, list).op = "reorder" /\ ToOrder(p, list).parentId = p /\ ToOrder(p, list).order = list
      /\ Move(id, q).op = "move" /\ Move(id, q).id = id /\ Move(id, q).reportTo = q
  BY DEF ToOrder, Move
<1>2. \A t : Trees(t, changes, Owner)[Len(changes)] = Moved(t, id, q) /\ Trees(t, changes, Owner)[0] = t
  <2>1. \A t : /\ Trees(t, changes, Owner)[0] = t
               /\ Trees(t, changes, Owner)[2] = Effect(Effect(t, Move(id, q)), ToOrder(p, list))
    <3>1. \A t : Trees(t, changes, Owner)[0] = t
      BY <1>1, TreesOf
    <3>2. \A t : Trees(t, changes, Owner)[2] = Effect(Effect(t, changes[1]), changes[2])
      BY <1>1, TreesOf
    <3>. QED BY <3>1, <3>2, Zenon
  <2>2. \A u : Effect(u, ToOrder(p, list)) = u
    BY <1>3 DEF Effect
  <2>3. \A t : Effect(t, Move(id, q)) = Moved(t, id, q)
    BY <1>3 DEF Effect, Moved
  <2>. QED BY <2>1, <2>2, <2>3, Zenon
<1>4. Reorders(changes) = {2}
  BY <1>1, <1>3 DEF Reorders
<1>5. ASSUME NEW t, Valid(t, changes, Owner)
      PROVE  id \in DOMAIN t /\ Range(list) = Children(Moved(t, id, q), p) /\ IsInjective(list)
  <2>1. \A n \in Reorders(changes) :
          /\ Range(changes[n].order) = Children(Trees(t, changes, Owner)[Len(changes)], changes[n].parentId)
          /\ IsInjective(changes[n].order)
    BY <1>5, Zenon DEF Valid
  <2>2. Range(list) = Children(Moved(t, id, q), p) /\ IsInjective(list)
    BY <1>1, <1>2, <1>3, <1>4, <2>1
  <2>3. \A n \in 1 .. Len(changes) : Permits(Trees(t, changes, Owner)[n - 1], changes[n], Owner)
    BY <1>5, Zenon DEF Valid
  <2>4. 1 \in 1 .. Len(changes) /\ 1 - 1 = 0
    BY <1>1
  <2>5. Permits(Trees(t, changes, Owner)[1 - 1], changes[1], Owner)
    BY <2>3, <2>4, Zenon
  <2>6. Permits(t, Move(id, q), Owner)
    BY <1>1, <1>2, <2>4, <2>5, Zenon
  <2>. QED BY <1>3, <2>2, <2>6 DEF Permits
<1>7. ASSUME NEW o PROVE Reordered(o, changes) = Put(o, p, list)
  <2>1. {changes[n].parentId : n \in Reorders(changes)} = {p}
    BY <1>1, <1>3, <1>4
  <2>2. (CHOOSE n \in Reorders(changes) : changes[n].parentId = p) = 2
    BY <1>1, <1>3, <1>4
  <2>3. ASSUME NEW key
        PROVE  (IF key \in {p} THEN changes[CHOOSE n \in Reorders(changes) : changes[n].parentId = key].order ELSE o[key])
                 = (IF key = p THEN list ELSE o[key])
    <3>1. CASE key = p
      BY <1>1, <1>3, <2>2, <3>1
    <3>2. CASE key # p
      BY <3>2
    <3>. QED BY <3>1, <3>2
  <2>. QED BY <2>1, <2>3, Zenon DEF Reordered, Put
<1>8. ~ \E n \in DOMAIN changes : changes[n].op = "delete"
  BY <1>1, <1>3
<1>. QED BY <1>2, <1>5, <1>7, <1>8

-----------------------------------------------------------------------------
(* Where a drop puts what it drags *)

\* What the canvas may ask for when it shows S.
Asked(S, g, changes) ==
  /\ g \in Gestures(S) /\ (g.anchor # Root => ~ Below(S, g.anchor, g.id))
  /\ changes \in ManifestsOf(S, g)

\* The list that a drop beside an anchor asks for.
Beside(S, g) == Inserted(ListAt(S, ParentShown(S, g.anchor)), g.id, g.anchor, g.zone)

\* The three kinds of drops.
LEMMA AskedIs ==
  ASSUME NEW S, Listing(S), NEW g, NEW changes, Asked(S, g, changes)
  PROVE  LET p == ParentShown(S, g.anchor) IN
         /\ g.id \in Shown(S)
         /\ \/ /\ g.zone = "body" /\ g.anchor \in Ids \cup {Root} /\ ParentShown(S, g.id) # g.anchor
               /\ changes = <<Move(g.id, g.anchor)>>
            \/ /\ g.zone \in {"before", "after"} /\ g.anchor \in Shown(S) /\ g.anchor # g.id
               /\ \/ ParentShown(S, g.id) = p /\ changes = <<ToOrder(p, Beside(S, g))>>
                  \/ ParentShown(S, g.id) # p /\ changes = <<Move(g.id, p), ToOrder(p, Beside(S, g))>>
<1>. DEFINE p == ParentShown(S, g.anchor)
<1>1. /\ g.id \in Shown(S) /\ g.zone \in Zones /\ g.anchor \in Shown(S) \cup {Root}
  BY DEF Asked, Gestures
<1>2. Shown(S) \subseteq Ids
  BY ShownUnder
<1>3. CASE g.zone = "body"
  <2>1. changes \in Moves(S, g)
    BY <1>3 DEF Asked, ManifestsOf
  <2>2. ParentShown(S, g.id) # g.anchor /\ changes = <<Move(g.id, g.anchor)>>
    BY <2>1 DEF Moves, Move
  <2>. QED BY <1>1, <1>2, <1>3, <2>2
<1>4. CASE g.zone # "body"
  <2>1. g.zone \in {"before", "after"} /\ g.anchor # Root /\ g.anchor \in Shown(S) /\ changes \in Reorder(S, g)
    BY <1>1, <1>4 DEF Asked, ManifestsOf, Zones
  <2>2. g.anchor # g.id
    <3>. SUFFICES ASSUME g.anchor = g.id PROVE FALSE
      OBVIOUS
    <3>. DEFINE parents == [i \in Shown(S) |-> ParentShown(S, i)]
    <3>1. ~ IsDescendant(parents, g.id, g.id)
      BY <2>1 DEF Asked, Below
    <3>2. DOMAIN parents = Shown(S)
      OBVIOUS
    <3>3. IsFiniteSet(DOMAIN parents)
      BY <1>2, <3>2, IdsFinite, FS_Subset
    <3>. HIDE DEF parents
    <3>4. g.id \in Chain(parents, g.id)
      BY <1>1, <3>2, <3>3, ChainHas
    <3>. QED BY <3>1, <3>4 DEF IsDescendant
  <2>3. CASE ParentShown(S, g.id) = p
    <3>1. changes = <<ToOrder(p, Beside(S, g))>>
      BY <2>1, <2>3 DEF Reorder, ToOrder, Beside
    <3>. QED BY <1>1, <2>1, <2>2, <2>3, <3>1
  <2>4. CASE ParentShown(S, g.id) # p
    <3>1. changes = <<Move(g.id, p), ToOrder(p, Beside(S, g))>>
      BY <2>1, <2>4 DEF Reorder, ToOrder, Move, Beside
    <3>. QED BY <1>1, <2>1, <2>2, <2>4, <3>1
  <2>. QED BY <2>3, <2>4
<1>. QED BY <1>3, <1>4

\* Who is shown below a parent is a child of it, and a list that has all the children is the list.
LEMMA SameChildren ==
  ASSUME NEW t, IsTree(t), NEW o, IsOverlay(o), NEW S, Listing(S), SameOrder(S, Reconcile(t, o)),
         NEW key \in Ids \cup {Root}
  PROVE  /\ Range(ListAt(S, key)) = Children(t, key) \cap Shown(S)
         /\ Children(t, key) \subseteq Range(ListAt(S, key)) => ListAt(Reconcile(t, o), key) = ListAt(S, key)
<1>. DEFINE l == ListAt(Reconcile(t, o), key)
<1>1. Plain(l) /\ Range(l) = Children(t, key)
  BY ReconcileIs
<1>2. Kept(l, Shown(S)) = ListAt(S, key)
  BY DEF SameOrder
<1>. HIDE DEF l
<1>3. l \in Seq(Ids)
  BY <1>1 DEF Plain
<1>4. Range(Kept(l, Shown(S))) = Range(l) \cap Shown(S)
  BY <1>3, KeptRange
<1>5. Range(l) \subseteq Shown(S) => Kept(l, Shown(S)) = l
  BY <1>3, KeptAll
<1>. QED BY <1>1, <1>2, <1>4, <1>5 DEF l

\* In its new list the dragged position is beside the anchor.
LEMMA PlacedBeside ==
  ASSUME NEW u, IsTree(u), NEW o, IsOverlay(o), NEW S, Listing(S), NEW g,
         g.id \in Ids, g.anchor \in Shown(S), g.anchor # g.id, g.zone \in {"before", "after"},
         NEW p, p = ParentShown(S, g.anchor),
         ListAt(o, p) = Beside(S, g), Range(Beside(S, g)) = Children(u, p),
         NEW overlay
  PROVE  /\ Placed(g, Reconcile(u, o), overlay)
         /\ Without(ListAt(Reconcile(u, o), p), g.id) = Without(ListAt(S, p), g.id)
         /\ Range(Beside(S, g)) = Range(ListAt(S, p)) \cup {g.id}
         /\ Plain(Beside(S, g))
<1>. DEFINE l == ListAt(S, p)
            list == Beside(S, g)
            lists == Reconcile(u, o)
<1>1. Plain(l) /\ g.anchor \in Range(l)
  <2>1. IsOverlay(S)
    BY DEF Listing
  <2>. QED BY <2>1, ListIsPlain, ShownUnder
<1>2. list = Inserted(l, g.id, g.anchor, g.zone)
  BY DEF Beside
<1>. HIDE DEF l, list, lists
<1>3. /\ Plain(list) /\ Range(list) = Range(l) \cup {g.id} /\ Without(list, g.id) = Without(l, g.id)
      /\ g.zone = "before" => IndexOf(list, g.id) < Len(list) /\ list[IndexOf(list, g.id) + 1] = g.anchor
      /\ g.zone = "after" => IndexOf(list, g.id) > 1 /\ list[IndexOf(list, g.id) - 1] = g.anchor
  BY <1>1, <1>2, InsertedIs
<1>4. ListAt(lists, p) = list
  <2>1. ListAt(lists, p) = Ordered(ListAt(o, p), Children(u, p))
    BY ReconcileIs DEF lists
  <2>2. list \in Seq(Ids)
    BY <1>3 DEF Plain
  <2>. QED BY <2>1, <2>2, OrderedSame DEF list
<1>5. ParentShown(lists, g.id) = p
  <2>1. Listing(lists)
    BY ReconcileIs DEF lists
  <2>2. g.id \in Range(ListAt(lists, p))
    BY <1>3, <1>4
  <2>. QED BY <2>1, <2>2, ShownUnder
<1>6. Placed(g, lists, overlay)
  BY <1>3, <1>4, <1>5 DEF Placed
<1>. QED BY <1>3, <1>4, <1>6 DEF l, list, lists

\* A move is taken back by another.
LEMMA MovedIs ==
  ASSUME NEW t, IsTree(t), NEW id \in DOMAIN t, NEW p \in Ids \cup {Root}
  PROVE  /\ IsTree(Moved(t, id, p)) /\ DOMAIN Moved(t, id, p) = DOMAIN t
         /\ Children(Moved(t, id, p), p) = Children(t, p) \cup {id}
         /\ \A key : Children(Moved(t, id, p), key) \ {id} = Children(t, key) \ {id}
         /\ Moved(Moved(t, id, p), id, t[id]) = t
<1>1. IsTree(Moved(t, id, p)) /\ DOMAIN Moved(t, id, p) = DOMAIN t
  BY DEF IsTree, Moved
<1>2. Children(Moved(t, id, p), p) = Children(t, p) \cup {id}
  BY DEF Children, Moved
<1>3. \A key : Children(Moved(t, id, p), key) \ {id} = Children(t, key) \ {id}
  BY DEF Children, Moved
<1>4. Moved(Moved(t, id, p), id, t[id]) = t
  <2>1. \A i \in DOMAIN t : Moved(Moved(t, id, p), id, t[id])[i] = t[i]
    BY DEF Moved
  <2>2. Moved(Moved(t, id, p), id, t[id]) = [i \in DOMAIN t |-> Moved(Moved(t, id, p), id, t[id])[i]]
    BY DEF Moved
  <2>. QED BY <2>1, <2>2 DEF IsTree
<1>. QED BY <1>1, <1>2, <1>3, <1>4

\* After a drop on a body only children that the overlay does not list come after the dragged one.
LEMMA PlacedLast ==
  ASSUME NEW t, IsTree(t), NEW o, IsOverlay(o), Tidy(o, t), NEW g, g.id \in DOMAIN t, g.zone = "body",
         g.anchor \in Ids \cup {Root}, t[g.id] # g.anchor,
         NEW L, Listing(L),
         ListAt(L, g.anchor) = ListAt(Reconcile(Moved(t, g.id, g.anchor), o), g.anchor)
  PROVE  Placed(g, L, o)
<1>. DEFINE u == Moved(t, g.id, g.anchor)
            C == Children(u, g.anchor)
            ol == ListAt(o, g.anchor)
            A == Kept(ol, C)
            B == Kept(Alphabet, C \ Range(ol))
            list == ListAt(L, g.anchor)
            at == IndexOf(list, g.id)
<1>1. IsTree(u) /\ g.id \in C
  BY MovedIs
<1>2. Plain(ol)
  BY ListIsPlain
<1>3. list = A \o B /\ Plain(list) /\ Range(list) = C
  <2>1. list = ListAt(Reconcile(u, o), g.anchor)
    OBVIOUS
  <2>. HIDE DEF u, list, A, B, ol
  <2>2. ListAt(Reconcile(u, o), g.anchor) = Ordered(ListAt(o, g.anchor), Children(u, g.anchor))
    BY <1>1, ReconcileIs
  <2>3. Plain(ListAt(Reconcile(u, o), g.anchor)) /\ Range(ListAt(Reconcile(u, o), g.anchor)) = Children(u, g.anchor)
    BY <1>1, ReconcileIs
  <2>4. Ordered(ol, C) = A \o B
    BY Zenon DEF Ordered, A, B
  <2>. QED BY <2>1, <2>2, <2>3, <2>4, Zenon DEF ol
<1>4. ParentShown(L, g.id) = g.anchor
  <2>1. g.id \in Range(ListAt(L, g.anchor))
    BY <1>1, <1>3, Zenon
  <2>. QED BY <2>1, ShownUnder
<1>5. A \in Seq(Ids) /\ Range(A) = Range(ol) \cap C /\ IsInjective(A)
  BY <1>2, KeptRange, KeptInjective DEF Plain
<1>6. B \in Seq(Ids) /\ Range(B) \cap Range(ol) = {}
  <2>1. Alphabet \in Seq(Ids)
    BY TreeAssumption
  <2>2. B \in Seq(Ids) /\ Range(B) = Range(Alphabet) \cap (C \ Range(ol))
    BY <2>1, KeptRange
  <2>. QED BY <2>2
<1>7. ASSUME g.id \in Range(ol) PROVE Len(A) > 0 /\ A[Len(A)] = g.id
  <2>1. ol \in Seq(Ids) /\ IsInjective(ol) /\ g.anchor \in DOMAIN o /\ ol = o[g.anchor]
    <3>1. Range(<< >>) = {}
      BY DEF Range
    <3>. QED BY <1>2, <1>7, <3>1 DEF Plain, ListAt
  <2>2. PICK k \in 1 .. Len(ol) : ol[k] = g.id
    BY <1>7, <2>1 DEF Range
  <2>3. g.id \notin Children(t, g.anchor)
    BY DEF Children
  <2>4. k = Len(ol)
    BY <2>1, <2>2, <2>3 DEF Tidy
  <2>. DEFINE s == SubSeq(ol, 1, Len(ol) - 1)
  <2>5. s \in Seq(Ids) /\ ol = Append(s, g.id)
    BY <2>1, <2>2, <2>4
  <2>. HIDE DEF s, ol, C
  <2>6. Kept(ol, C) = Append(Kept(s, C), g.id)
    <3>1. g.id \in Ids
      BY <2>1, <2>2
    <3>. QED BY <2>5, <3>1, <1>1, KeptAppend
  <2>7. Kept(s, C) \in Seq(Ids)
    BY <2>5, KeptRange
  <2>. QED BY <2>6, <2>7
<1>. HIDE DEF A, B, list, C, ol
<1>8. /\ Len(list) = Len(A) + Len(B) /\ Len(A) \in Nat /\ Len(B) \in Nat /\ DOMAIN list = 1 .. Len(list)
      /\ \A n \in 1 .. Len(A) : list[n] = A[n]
      /\ \A n \in Len(A) + 1 .. Len(A) + Len(B) : list[n] = B[n - Len(A)]
  BY <1>3, <1>5, <1>6, BothLists DEF Plain
<1>9. at \in 1 .. Len(list) /\ list[at] = g.id
  <2>1. \E n \in DOMAIN list : list[n] = g.id
    BY <1>1, <1>3 DEF Range
  <2>. QED BY <2>1, <1>8 DEF IndexOf
<1>. HIDE DEF at
<1>10. ASSUME NEW n \in at + 1 .. Len(list) PROVE list[n] \notin Range(ol)
  <2>1. CASE n > Len(A)
    <3>1. n \in Len(A) + 1 .. Len(A) + Len(B) /\ n - Len(A) \in 1 .. Len(B)
      BY <1>8, <1>9, <2>1
    <3>2. list[n] \in Range(B)
      BY <1>6, <1>8, <3>1 DEF Range
    <3>. QED BY <1>6, <3>2
  <2>2. CASE n <= Len(A)
    <3>1. at \in 1 .. Len(A) /\ at # Len(A) /\ DOMAIN A = 1 .. Len(A)
      BY <1>5, <1>8, <1>9, <2>2
    <3>2. A[at] = g.id
      BY <1>8, <1>9, <3>1
    <3>3. g.id \in Range(A)
      BY <3>1, <3>2 DEF Range
    <3>4. A[Len(A)] = g.id /\ Len(A) \in 1 .. Len(A)
      BY <1>5, <1>7, <1>8, <3>3
    <3>. QED BY <1>5, <3>1, <3>2, <3>4 DEF IsInjective
  <2>. QED BY <1>8, <1>9, <2>1, <2>2
<1>. QED BY <1>4, <1>10 DEF Placed, at, list, ol

\* What a mutation of the canvas must leave: a tree, an overlay of lists, tidy, and the drop in its
\* place with nothing else disturbed.
DropDone(t, o, u, w, g) ==
  /\ IsTree(u) /\ IsOverlay(w) /\ Tidy(w, u)
  /\ Placed(g, Reconcile(u, w), o)
  /\ \A key : Without(ListAt(Reconcile(u, w), key), g.id) = Without(ListAt(Reconcile(t, o), key), g.id)

\* An overlay with one list replaced by a list of the children.
LEMMA OneList ==
  ASSUME NEW o, IsOverlay(o), NEW p, NEW list, Plain(list), NEW u, Tidy(o, u), Range(list) = Children(u, p)
  PROVE  /\ IsOverlay(Put(o, p, list)) /\ Tidy(Put(o, p, list), u) /\ ListAt(Put(o, p, list), p) = list
         /\ \A key : key # p => ListAt(Put(o, p, list), key) = ListAt(o, key)
<1>. DEFINE w == Put(o, p, list)
<1>1. IsOverlay(w)
  BY DEF IsOverlay, Put
<1>2. ASSUME NEW key \in DOMAIN w, NEW n \in 1 .. Len(w[key]) - 1 PROVE w[key][n] \in Children(u, key)
  <2>1. CASE key = p
    <3>1. n \in DOMAIN list /\ w[key] = list
      BY <2>1 DEF Plain, Put
    <3>. QED BY <2>1, <3>1 DEF Range
  <2>2. CASE key # p
    BY <2>2 DEF Tidy, Put
  <2>. QED BY <2>1, <2>2
<1>3. ListAt(w, p) = list /\ \A key : key # p => ListAt(w, key) = ListAt(o, key)
  BY DEF ListAt, Put
<1>. HIDE DEF w
<1>4. Tidy(w, u)
  BY <1>2 DEF Tidy
<1>. QED BY <1>1, <1>3, <1>4 DEF w

\* A drop below another parent.
LEMMA BodyDone ==
  ASSUME NEW t, IsTree(t), NEW o, IsOverlay(o), Tidy(o, t), NEW S, Listing(S), SameOrder(S, Reconcile(t, o)),
         NEW g, g.id \in Shown(S), g.zone = "body", g.anchor \in Ids \cup {Root}, ParentShown(S, g.id) # g.anchor,
         g.id \in DOMAIN t
  PROVE  DropDone(t, o, Moved(t, g.id, g.anchor), Reconcile(Moved(t, g.id, g.anchor), o), g)
<1>. DEFINE u == Moved(t, g.id, g.anchor)
            w == Reconcile(u, o)
<1>1. IsTree(u) /\ \A key : Children(u, key) \ {g.id} = Children(t, key) \ {g.id}
  BY MovedIs
<1>2. t[g.id] # g.anchor
  <2>. SUFFICES ASSUME t[g.id] = g.anchor PROVE FALSE
    OBVIOUS
  <2>1. g.id \in Children(t, g.anchor)
    BY DEF Children
  <2>2. g.id \in Range(ListAt(S, g.anchor))
    BY <2>1, SameChildren
  <2>. QED BY <2>2, ShownUnder
<1>. HIDE DEF u
<1>3. Listing(w) /\ Tidy(w, u)
  BY <1>1, ReconcileIs, TidyReconciled
<1>. HIDE DEF w
<1>4. IsOverlay(w)
  BY <1>3 DEF Listing
<1>5. \A key : ListAt(Reconcile(u, w), key) = ListAt(w, key)
  BY <1>1, ReconcileTwice DEF w
<1>6. Listing(Reconcile(u, w))
  BY <1>1, <1>4, ReconcileIs
<1>7. Placed(g, Reconcile(u, w), o)
  <2>1. ListAt(Reconcile(u, w), g.anchor) = ListAt(Reconcile(Moved(t, g.id, g.anchor), o), g.anchor)
    BY <1>5, Zenon DEF w, u
  <2>. QED BY <1>2, <1>6, <2>1, PlacedLast
<1>8. ASSUME NEW key PROVE Without(ListAt(Reconcile(u, w), key), g.id) = Without(ListAt(Reconcile(t, o), key), g.id)
  <2>1. Without(ListAt(Reconcile(u, o), key), g.id) = Ordered(ListAt(o, key), Children(u, key) \ {g.id})
    BY <1>1, ListWithout
  <2>2. Without(ListAt(Reconcile(t, o), key), g.id) = Ordered(ListAt(o, key), Children(t, key) \ {g.id})
    BY ListWithout
  <2>. QED BY <1>1, <1>5, <2>1, <2>2, Zenon DEF w
<1>. QED BY <1>1, <1>3, <1>4, <1>7, <1>8 DEF DropDone, u, w

\* A drop beside an anchor: base is the overlay into which the list is put, u the tree then.
LEMMA BesideDone ==
  ASSUME NEW t, IsTree(t), NEW o, IsOverlay(o), NEW S, Listing(S), SameOrder(S, Reconcile(t, o)),
         NEW g, g.id \in Shown(S), g.zone \in {"before", "after"}, g.anchor \in Shown(S), g.anchor # g.id,
         NEW p, p = ParentShown(S, g.anchor),
         NEW u, IsTree(u), \A key : Children(u, key) \ {g.id} = Children(t, key) \ {g.id},
         Children(t, p) \subseteq Range(ListAt(S, p)),
         Range(Beside(S, g)) = Children(u, p),
         NEW base, IsOverlay(base), Tidy(base, u), \A key : ListAt(Reconcile(u, base), key) = ListAt(Reconcile(u, o), key)
  PROVE  DropDone(t, o, u, Put(base, p, Beside(S, g)), g)
<1>. DEFINE list == Beside(S, g)
            w == Put(base, p, list)
<1>0. p \in Ids \cup {Root} /\ g.id \in Ids
  BY ShownUnder
<1>1. Plain(list)
  <2>1. Plain(ListAt(S, p)) /\ g.anchor \in Range(ListAt(S, p))
    <3>1. IsOverlay(S)
      BY DEF Listing
    <3>. QED BY <3>1, ListIsPlain, ShownUnder
  <2>. QED BY <1>0, <2>1, InsertedIs DEF Beside
<1>. HIDE DEF list
<1>2. IsOverlay(w) /\ Tidy(w, u) /\ ListAt(w, p) = list /\ \A key : key # p => ListAt(w, key) = ListAt(base, key)
  <2>1. Range(list) = Children(u, p)
    BY DEF list
  <2>. QED BY <1>1, <2>1, OneList
<1>. HIDE DEF w
<1>3. Placed(g, Reconcile(u, w), o) /\ Without(ListAt(Reconcile(u, w), p), g.id) = Without(ListAt(S, p), g.id)
  BY <1>0, <1>2, PlacedBeside DEF list
<1>4. ListAt(Reconcile(t, o), p) = ListAt(S, p)
  BY <1>0, SameChildren
<1>5. ASSUME NEW key, key # p
      PROVE  Without(ListAt(Reconcile(u, w), key), g.id) = Without(ListAt(Reconcile(t, o), key), g.id)
  <2>1. ListAt(Reconcile(u, w), key) = Ordered(ListAt(w, key), Children(u, key))
    BY <1>2, ReconcileIs
  <2>2. ListAt(Reconcile(u, base), key) = Ordered(ListAt(base, key), Children(u, key))
    BY ReconcileIs
  <2>3. Without(ListAt(Reconcile(u, o), key), g.id) = Ordered(ListAt(o, key), Children(u, key) \ {g.id})
    BY ListWithout
  <2>4. Without(ListAt(Reconcile(t, o), key), g.id) = Ordered(ListAt(o, key), Children(t, key) \ {g.id})
    BY ListWithout
  <2>5. ListAt(Reconcile(u, w), key) = ListAt(Reconcile(u, o), key)
    BY <1>2, <1>5, <2>1, <2>2, Zenon
  <2>. QED BY <2>3, <2>4, <2>5, Zenon
<1>6. \A key : Without(ListAt(Reconcile(u, w), key), g.id) = Without(ListAt(Reconcile(t, o), key), g.id)
  BY <1>3, <1>4, <1>5, Zenon
<1>. QED BY <1>2, <1>3, <1>6 DEF DropDone, list, w

\* A drop that is valid for the tree it meets, whatever the canvas has not seen of that tree.
LEMMA AdjustDone ==
  ASSUME NEW t, IsTree(t), NEW o, IsOverlay(o), Tidy(o, t), NEW S, Listing(S), SameOrder(S, Reconcile(t, o)),
         NEW g, NEW changes, Asked(S, g, changes), Valid(t, changes, Owner)
  PROVE  LET u == Trees(t, changes, Owner)[Len(changes)] IN
         /\ ~ \E n \in DOMAIN changes : changes[n].op = "delete"
         /\ \/ Structural(changes) = << >> /\ DropDone(t, o, t, Reordered(o, changes), g)
            \/ \E p \in Ids \cup {Root} :
                 /\ Structural(changes) = <<Move(g.id, p)>> /\ g.id \in DOMAIN t /\ u = Moved(t, g.id, p)
                 /\ DropDone(t, o, u, Reordered(Reconcile(u, o), changes), g)
<1>. DEFINE u == Trees(t, changes, Owner)[Len(changes)]
            p == ParentShown(S, g.anchor)
            list == Beside(S, g)
<1>1. /\ g.id \in Shown(S)
      /\ \/ /\ g.zone = "body" /\ g.anchor \in Ids \cup {Root} /\ ParentShown(S, g.id) # g.anchor
            /\ changes = <<Move(g.id, g.anchor)>>
         \/ /\ g.zone \in {"before", "after"} /\ g.anchor \in Shown(S) /\ g.anchor # g.id
            /\ \/ ParentShown(S, g.id) = p /\ changes = <<ToOrder(p, list)>>
               \/ ParentShown(S, g.id) # p /\ changes = <<Move(g.id, p), ToOrder(p, list)>>
  BY AskedIs
<1>2. g.id \in Ids /\ g.id \in Range(ListAt(S, ParentShown(S, g.id)))
  BY <1>1, ShownUnder
<1>3. \A v : IsMap(Reconcile(v, o))
  BY DEF Reconcile, IsMap
<1>. HIDE DEF u, p, list
<1>4. CASE g.zone = "body" /\ g.anchor \in Ids \cup {Root} /\ ParentShown(S, g.id) # g.anchor
           /\ changes = <<Move(g.id, g.anchor)>>
  <2>0. PICK T : changes \in Seq(T) /\ Len(changes) = 1 /\ changes[1] = Move(g.id, g.anchor)
    <3>1. <<Move(g.id, g.anchor)>> \in Seq({Move(g.id, g.anchor)})
      OBVIOUS
    <3>. QED BY <1>4, <3>1
  <2>1. g.id \in DOMAIN t /\ ~ \E n \in DOMAIN changes : changes[n].op = "delete"
    <3>1. IsMap(o)
      BY DEF IsOverlay, IsMap
    <3>2. Valid(t, changes, Owner) => g.id \in DOMAIN t
      BY <2>0, <3>1, MoveIs
    <3>3. ~ \E n \in DOMAIN changes : changes[n].op = "delete"
      BY <2>0, <3>1, MoveIs
    <3>. QED BY <3>2, <3>3
  <2>2. u = Moved(t, g.id, g.anchor)
    <3>1. IsMap(o)
      BY DEF IsOverlay, IsMap
    <3>. QED BY <2>0, <3>1, MoveIs DEF u
  <2>3. IsTree(u)
    BY <1>4, <2>1, <2>2, MovedIs
  <2>4. Reordered(Reconcile(u, o), changes) = Reconcile(u, o)
    <3>1. IsMap(Reconcile(u, o))
      BY <1>3, <2>3
    <3>. QED BY <2>0, <3>1, MoveIs
  <2>5. DropDone(t, o, u, Reconcile(u, o), g)
    BY <1>1, <1>4, <2>1, <2>2, BodyDone
  <2>6. Structural(changes) = <<Move(g.id, g.anchor)>>
    BY <1>4, StructuralOf
  <2>. QED BY <1>4, <2>1, <2>2, <2>4, <2>5, <2>6 DEF u
<1>5. ASSUME g.zone \in {"before", "after"}, g.anchor \in Shown(S), g.anchor # g.id
      PROVE  p \in Ids \cup {Root} /\ Plain(ListAt(S, p)) /\ Range(list) = Range(ListAt(S, p)) \cup {g.id}
  <2>1. p \in Ids \cup {Root} /\ g.anchor \in Range(ListAt(S, p))
    BY <1>5, ShownUnder DEF p
  <2>2. Plain(ListAt(S, p))
    BY ListIsPlain DEF Listing
  <2>3. list = Inserted(ListAt(S, p), g.id, g.anchor, g.zone)
    BY DEF list, Beside, p
  <2>. QED BY <1>2, <1>5, <2>1, <2>2, <2>3, InsertedIs
<1>6. CASE g.zone \in {"before", "after"} /\ g.anchor \in Shown(S) /\ g.anchor # g.id
           /\ ParentShown(S, g.id) = p /\ changes = <<ToOrder(p, list)>>
  <2>0. PICK T : changes \in Seq(T) /\ Len(changes) = 1 /\ changes[1] = ToOrder(p, list)
    <3>1. <<ToOrder(p, list)>> \in Seq({ToOrder(p, list)})
      OBVIOUS
    <3>. QED BY <1>6, <3>1
  <2>1. Range(list) = Children(t, p) /\ ~ \E n \in DOMAIN changes : changes[n].op = "delete"
    BY <2>0, OrderIs
  <2>2. Reordered(o, changes) = Put(o, p, list)
    BY <2>0, OrderIs
  <2>3. Children(t, p) \subseteq Range(ListAt(S, p))
    BY <1>2, <1>5, <1>6, <2>1
  <2>4. DropDone(t, o, t, Put(o, p, list), g)
    BY <1>1, <1>6, <2>1, <2>3, BesideDone DEF list, p
  <2>5. Structural(changes) = << >>
    BY <1>6, StructuralOf
  <2>. QED BY <2>1, <2>2, <2>4, <2>5
<1>7. CASE g.zone \in {"before", "after"} /\ g.anchor \in Shown(S) /\ g.anchor # g.id
           /\ ParentShown(S, g.id) # p /\ changes = <<Move(g.id, p), ToOrder(p, list)>>
  <2>0. PICK T : /\ changes \in Seq(T) /\ Len(changes) = 2
                 /\ changes[1] = Move(g.id, p) /\ changes[2] = ToOrder(p, list)
    <3>1. <<Move(g.id, p), ToOrder(p, list)>> \in Seq({Move(g.id, p), ToOrder(p, list)})
      OBVIOUS
    <3>. QED BY <1>7, <3>1
  <2>1. /\ u = Moved(t, g.id, p)
        /\ g.id \in DOMAIN t /\ Range(list) = Children(u, p)
        /\ ~ \E n \in DOMAIN changes : changes[n].op = "delete"
        /\ \A w : Reordered(w, changes) = Put(w, p, list)
    <3>1. u = Moved(t, g.id, p)
      BY <2>0, MoveOrderIs DEF u
    <3>2. Valid(t, changes, Owner) => g.id \in DOMAIN t /\ Range(list) = Children(Moved(t, g.id, p), p)
      BY <2>0, MoveOrderIs
    <3>3. ~ \E n \in DOMAIN changes : changes[n].op = "delete"
      BY <2>0, MoveOrderIs
    <3>4. ASSUME NEW w PROVE Reordered(w, changes) = Put(w, p, list)
      BY <2>0, MoveOrderIs
    <3>. QED BY <3>1, <3>2, <3>3, <3>4
  <2>2. IsTree(u) /\ Children(u, p) = Children(t, p) \cup {g.id} /\ \A key : Children(u, key) \ {g.id} = Children(t, key) \ {g.id}
    BY <1>5, <1>7, <2>1, MovedIs
  <2>3. g.id \notin Range(ListAt(S, p))
    BY <1>7, ShownUnder
  <2>4. g.id \notin Children(t, p)
    BY <1>1, <1>5, <1>7, <2>3, SameChildren
  <2>5. Children(t, p) \subseteq Range(ListAt(S, p))
    BY <1>5, <1>7, <2>1, <2>2, <2>4
  <2>. DEFINE base == Reconcile(u, o)
  <2>6. IsOverlay(base) /\ Tidy(base, u)
    BY <2>2, ReconcileIs, TidyReconciled DEF Listing
  <2>7. \A key : ListAt(Reconcile(u, base), key) = ListAt(Reconcile(u, o), key)
    BY <2>2, ReconcileTwice
  <2>. HIDE DEF base
  <2>8. DropDone(t, o, u, Put(base, p, list), g)
    BY <1>1, <1>7, <2>1, <2>2, <2>5, <2>6, <2>7, BesideDone DEF list, p
  <2>9. Structural(changes) = <<Move(g.id, p)>>
    BY <1>7, StructuralOf
  <2>. QED BY <1>5, <1>7, <2>1, <2>8, <2>9 DEF base, u
<1>. QED BY <1>1, <1>4, <1>6, <1>7 DEF u

\* The tree after a hire, and the overlay that the control plane writes for it.
Hired(t, n, parent) == [i \in DOMAIN t \cup {n} |-> IF i = n THEN parent ELSE t[i]]

\* Whoever is hired comes last below the parent the call names.
HiredOrder(lists, key, n) ==
  IF n \in Range(ListAt(lists, key)) THEN lists ELSE Put(lists, key, Append(ListAt(lists, key), n))

\* A hire leaves the order of all the others, also in the trees that the undo entry is for.
LEMMA HireDone ==
  ASSUME NEW t, IsTree(t), NEW o, IsOverlay(o), NEW n \in Ids \ DOMAIN t, NEW parent \in Ids,
         NEW key \in Ids \cup {Root}
  PROVE  LET u == Hired(t, n, parent)
             w == HiredOrder(Reconcile(u, o), key, n)
         IN  /\ IsTree(u) /\ IsOverlay(w) /\ Tidy(w, u) /\ SameOrder(Reconcile(t, o), Reconcile(u, w))
             /\ \A k : Children(t, k) \subseteq Children(u, k)
             /\ \A i, p, k : Children(Moved(t, i, p), k) \subseteq Children(Moved(u, i, p), k)
<1>. DEFINE u == Hired(t, n, parent)
            lists == Reconcile(u, o)
            l == ListAt(lists, key)
            w == HiredOrder(lists, key, n)
<1>1. IsTree(u)
  BY DEF IsTree, Hired
<1>2. \A k : Children(t, k) \subseteq Children(u, k) /\ Children(u, k) \cap DOMAIN t = Children(t, k)
  BY DEF Children, Hired
<1>3. \A i, p, k : Children(Moved(t, i, p), k) \subseteq Children(Moved(u, i, p), k)
  BY DEF Children, Hired, Moved
<1>. HIDE DEF u
<1>4. /\ Listing(lists) /\ Tidy(lists, u)
      /\ \A k : ListAt(lists, k) = Ordered(ListAt(o, k), Children(u, k)) /\ Plain(ListAt(lists, k)) /\ Range(ListAt(lists, k)) = Children(u, k)
  BY <1>1, ReconcileIs, TidyReconciled
<1>. HIDE DEF lists
<1>5. IsOverlay(lists) /\ Plain(l) /\ Range(l) = Children(u, key)
  BY <1>4 DEF Listing
<1>. HIDE DEF l
<1>6. /\ IsOverlay(w) /\ Tidy(w, u)
      /\ \A k : ListAt(w, k) = ListAt(lists, k) \/ (k = key /\ n \notin Range(l) /\ ListAt(w, k) = Append(l, n))
  <2>1. CASE n \in Range(l)
    BY <1>4, <1>5, <2>1 DEF HiredOrder, l
  <2>2. CASE n \notin Range(l)
    <3>. DEFINE m == Append(l, n)
    <3>1. w = Put(lists, key, m)
      BY <2>2 DEF HiredOrder, l
    <3>2. Plain(m) /\ \A i \in 1 .. Len(m) - 1 : m[i] = l[i] /\ i \in DOMAIN l
      <4>1. l \in Seq(Ids)
        BY <1>5 DEF Plain
      <4>. QED BY <1>5, <2>2, <4>1, InjectiveAppend DEF Plain
    <3>. HIDE DEF w, m
    <3>3. IsOverlay(w)
      BY <1>5, <3>1, <3>2 DEF IsOverlay, Put
    <3>4. ListAt(w, key) = m /\ \A k : k # key => ListAt(w, k) = ListAt(lists, k)
      BY <3>1 DEF ListAt, Put
    <3>5. ASSUME NEW k \in DOMAIN w, NEW i \in 1 .. Len(w[k]) - 1 PROVE w[k][i] \in Children(u, k)
      <4>1. CASE k = key
        <5>1. w[k] = m
          BY <3>4, <4>1 DEF ListAt
        <5>. QED BY <1>5, <3>2, <3>5, <4>1, <5>1 DEF Range
      <4>2. CASE k # key
        <5>1. k \in DOMAIN lists /\ w[k] = lists[k]
          BY <3>1, <3>5, <4>2 DEF Put
        <5>. QED BY <1>4, <3>5, <5>1 DEF Tidy
      <4>. QED BY <4>1, <4>2
    <3>6. Tidy(w, u)
      BY <3>5 DEF Tidy
    <3>. QED BY <2>2, <3>3, <3>4, <3>6 DEF m
  <2>. QED BY <2>1, <2>2
<1>. HIDE DEF w
<1>7. ASSUME NEW k PROVE Kept(ListAt(Reconcile(u, w), k), DOMAIN t) = ListAt(Reconcile(t, o), k)
  <2>. DEFINE C == Children(t, k)
              D == Children(u, k)
              wl == ListAt(w, k)
  <2>0. Plain(wl) /\ wl \in Seq(Ids) /\ ListAt(o, k) \in Seq(Ids) /\ ListAt(lists, k) \in Seq(Ids)
    BY <1>4, <1>6, ListIsPlain DEF Plain
  <2>1. ListAt(Reconcile(u, w), k) = Ordered(wl, D)
    BY <1>1, <1>6, ReconcileIs
  <2>2. ListAt(Reconcile(t, o), k) = Ordered(ListAt(o, k), C)
    BY ReconcileIs
  <2>3. D \cap DOMAIN t = C /\ C \subseteq D /\ n \notin C
    BY <1>2 DEF Children
  <2>4. Kept(Ordered(wl, D), DOMAIN t) = Ordered(wl, C)
    BY <2>0, <2>3, OrderedLess
  <2>5. Kept(wl, C) = Kept(ListAt(lists, k), C) /\ Range(ListAt(lists, k)) \subseteq Range(wl)
    <3>1. CASE wl = ListAt(lists, k)
      BY <3>1
    <3>2. CASE k = key /\ wl = Append(l, n)
      <4>0. l \in Seq(Ids) /\ l = ListAt(lists, k)
        BY <2>0, <3>2 DEF l
      <4>. HIDE DEF C, wl
      <4>1. Kept(Append(l, n), C) = Kept(l, C)
        BY <2>3, <4>0, KeptSkips
      <4>2. Range(Append(l, n)) = Range(l) \cup {n}
        BY <4>0, RangeAppend
      <4>. QED BY <3>2, <4>0, <4>1, <4>2
    <3>. QED BY <1>6, <3>1, <3>2
  <2>6. C \subseteq Range(wl)
    BY <1>4, <2>3, <2>5
  <2>7. Ordered(wl, C) = Kept(wl, C)
    BY <2>0, <2>6, OrderedAll
  <2>8. Kept(Ordered(ListAt(o, k), D), C) = Ordered(ListAt(o, k), D \cap C)
    BY <2>0, OrderedLess
  <2>9. D \cap C = C
    BY <2>3
  <2>. HIDE DEF C, D, wl
  <2>. QED BY <1>4, <2>1, <2>2, <2>4, <2>5, <2>7, <2>8, <2>9, Zenon DEF D
<1>8. Shown(Reconcile(t, o)) = DOMAIN t
  BY ReconcileIs
<1>9. SameOrder(Reconcile(t, o), Reconcile(u, w))
  BY <1>7, <1>8 DEF SameOrder
<1>. QED BY <1>1, <1>2, <1>3, <1>6, <1>9 DEF u, w, lists

-----------------------------------------------------------------------------
(* The invariant of the drops *)

\* The calls that lock the canvas, and those of them that are at some step.
Locking(r) == r.kind \in {"adjust", "undo"}
Locks == {x \in Tasks : Locking(task[x])}
LocksAt(ats) == {x \in Locks : task[x].at \in ats}

\* A snapshot that may be shown and dragged in.
Sound(S, lists) == S # None => Listing(S) /\ SameOrder(S, lists)

\* What a call may be sent with: a drop was made on a snapshot that has the order of the tree.
Sendable(r, lists) ==
  \/ r.kind = "undo" /\ r.gesture = None
  \/ r.kind = "hire" /\ r.gesture = None /\ r.changes \in Newcomers
  \/ r.kind = "adjust" /\ r.gesture = None /\ \E id : r.changes = <<Delete(id)>>
  \/ r.kind = "adjust" /\ \E S : Listing(S) /\ SameOrder(S, lists) /\ Asked(S, r.gesture, r.changes)

\* The overlay that an undo puts back is tidy for the tree that it puts back.
EntryOK(e, t) ==
  e # None =>
    /\ IsOverlay(e.order)
    /\ \/ e.inverse = << >> /\ Tidy(e.order, t)
       \/ \E id \in Ids, p \in Ids \cup {Root} : e.inverse = <<Move(id, p)>> /\ Tidy(e.order, Moved(t, id, p))

\* The control plane has a tree, an overlay that is tidy for it, and an undo entry that puts back another.
PlaneOK == IsTree(applied) /\ IsOverlay(order) /\ Tidy(order, applied) /\ EntryOK(entry, applied)

\* One call at a time locks the canvas.
OneCall == \A x, y \in Locks : busy /\ x = y

\* What is shown has the order of the tree, or a call that locks the canvas will show another.
ShownOK == LocksAt({"ok", "open", "read"}) # {} \/ overtaken \/ Sound(shown, Lists)

\* What will be shown has the order of the tree, or will be overtaken, or comes before the answer
\* of the call that locks the canvas.
AnswersOK ==
  \A y \in Answers :
    \/ task[y].late \/ Sound(task[y].tree, Lists) \/ LocksAt({"ok", "open"}) # {}
    \/ \E x \in LocksAt({"read"}) : y \in task[x].after

\* Whatever is sent can have been sent.
SentOK == \A x \in Tasks : task[x].at = "sent" => Sendable(task[x], Lists)

\* The inductive invariant of the drops: nothing is promised after a fault, or once misled.
DropInv ==
  /\ misled \in BOOLEAN
  /\ faults = 0 /\ ~ misled => PlaneOK /\ OneCall /\ ShownOK /\ AnswersOK /\ SentOK

\* A task that neither has an answer to show nor gets one is set to r.
LEMMA TaskGoesOn ==
  ASSUME CanvasTypes, DropInv, NEW x \in Tasks, NEW r, task' = [task EXCEPT ![x] = r], misled' \in BOOLEAN,
         faults' = 0 /\ ~ misled' =>
           /\ faults = 0 /\ ~ misled /\ UNCHANGED <<applied, order, entry, shown, overtaken>>
           /\ task[x].at # "read" /\ r.at # "read"
           /\ x \in LocksAt({"ok", "open"}) => Locking(r) /\ r.at \in {"ok", "open"}
           /\ Locking(r) => busy' /\ Locks \subseteq {x}
           /\ \A y \in Locks \ {x} : busy'
           /\ r.at = "sent" => Sendable(r, Lists)
  PROVE  DropInv'
<1>. SUFFICES ASSUME faults' = 0, ~ misled' PROVE (PlaneOK /\ OneCall /\ ShownOK /\ AnswersOK /\ SentOK)'
  BY DEF DropInv
<1>1. task'[x] = r /\ \A y \in Tasks : y # x => task'[y] = task[y]
  BY DEF CanvasTypes
<1>2. Lists' = Lists /\ PlaneOK' /\ PlaneOK /\ OneCall /\ ShownOK /\ AnswersOK /\ SentOK
  <2>1. PlaneOK /\ OneCall /\ ShownOK /\ AnswersOK /\ SentOK
    BY DEF DropInv
  <2>. QED BY <2>1 DEF Lists, PlaneOK
<1>3. Answers' = Answers /\ x \notin Answers
  BY <1>1 DEF Answers
<1>4. \A y \in Tasks : y # x => (y \in Locks' <=> y \in Locks)
  BY <1>1 DEF Locks
<1>5. x \in Locks' <=> Locking(r)
  BY <1>1 DEF Locks
<1>6. OneCall'
  <2>1. ASSUME NEW y \in Locks' PROVE busy'
    BY <1>4, <1>5, <2>1 DEF Locks
  <2>2. ASSUME NEW y \in Locks', NEW z \in Locks' PROVE y = z
    <3>1. CASE Locking(r)
      BY <1>4, <3>1 DEF Locks
    <3>2. CASE ~ Locking(r)
      BY <1>2, <1>4, <1>5, <3>2 DEF OneCall, Locks
    <3>. QED BY <3>1, <3>2
  <2>. QED BY <2>1, <2>2 DEF OneCall
<1>7. \A y \in Tasks : /\ y \in LocksAt({"ok", "open"}) => y \in LocksAt({"ok", "open"})'
                       /\ y \in LocksAt({"read"}) => y # x /\ y \in LocksAt({"read"})'
                       /\ y \in LocksAt({"ok", "open", "read"}) => y \in LocksAt({"ok", "open", "read"})'
  BY <1>1, <1>4, <1>5 DEF LocksAt, Locks
<1>8. \A ats : LocksAt(ats) \subseteq Tasks
  BY DEF LocksAt, Locks
<1>9. ShownOK'
  BY <1>2, <1>7, <1>8 DEF ShownOK
<1>10. AnswersOK'
  <2>. SUFFICES ASSUME NEW y \in Answers
                PROVE  (\/ task[y].late \/ Sound(task[y].tree, Lists) \/ LocksAt({"ok", "open"}) # {}
                        \/ \E z \in LocksAt({"read"}) : y \in task[z].after)'
    BY <1>3 DEF AnswersOK
  <2>1. y \in Tasks /\ y # x /\ task'[y] = task[y]
    BY <1>1, <1>3 DEF Answers
  <2>2. CASE task[y].late \/ Sound(task[y].tree, Lists)
    BY <1>2, <2>1, <2>2
  <2>3. CASE LocksAt({"ok", "open"}) # {}
    BY <1>7, <1>8, <2>3
  <2>4. CASE \E z \in LocksAt({"read"}) : y \in task[z].after
    BY <1>1, <1>7, <1>8, <2>4
  <2>. QED BY <1>2, <2>2, <2>3, <2>4 DEF AnswersOK
<1>11. SentOK'
  BY <1>1, <1>2 DEF SentOK
<1>. QED BY <1>2, <1>6, <1>9, <1>10, <1>11

\* The answer of x is on its way, with a snapshot in order.
LEMMA DropReads ==
  ASSUME CanvasTypes, DropInv, NEW x \in Tasks, NEW tree, Reads(x, tree), task[x].at \in {"asking", "open"},
         faults = 0 /\ ~ misled => Sound(tree, Lists), UNCHANGED <<plane, canvas, observed>>
  PROVE  DropInv'
<1>. DEFINE r == [task[x] EXCEPT !.at = "read", !.tree = tree, !.after = Answers]
<1>. SUFFICES ASSUME faults = 0, ~ misled PROVE (PlaneOK /\ OneCall /\ ShownOK /\ AnswersOK /\ SentOK)'
  BY DEF DropInv, observed
<1>0. /\ Lists' = Lists /\ busy' = busy /\ shown' = shown /\ overtaken' = overtaken /\ PlaneOK'
      /\ OneCall /\ ShownOK /\ AnswersOK /\ SentOK
  <2>1. PlaneOK /\ OneCall /\ ShownOK /\ AnswersOK /\ SentOK
    BY DEF DropInv
  <2>. QED BY <2>1 DEF plane, canvas, observed, Lists, PlaneOK
<1>1. task' = [task EXCEPT ![x] = r]
  BY DEF CanvasTypes, Reads, Answers
<1>2. r.at = "read" /\ r.tree = tree /\ r.after = Answers /\ r.kind = task[x].kind
  <2>1. Fielded(task[x])
    BY DEF CanvasTypes
  <2>. QED BY <2>1 DEF Fielded
<1>. HIDE DEF r
<1>3. task'[x] = r /\ \A y \in Tasks : y # x => task'[y] = task[y]
  BY <1>1 DEF CanvasTypes
<1>4. Locks' = Locks
  BY <1>2, <1>3 DEF Locks, Locking
<1>5. x \notin Answers /\ Answers' = Answers \cup {x}
  BY <1>2, <1>3 DEF Answers
<1>6. \A y \in Tasks : /\ y \in LocksAt({"ok", "open"}) => y \in LocksAt({"ok", "open"})' \/ y = x
                       /\ y \in LocksAt({"read"}) => y # x /\ y \in LocksAt({"read"})'
                       /\ y \in LocksAt({"ok", "open", "read"}) => y \in LocksAt({"ok", "open", "read"})'
  BY <1>2, <1>3, <1>4 DEF LocksAt
<1>7. x \in LocksAt({"ok", "open"}) => x \in LocksAt({"read"})'
  BY <1>2, <1>3, <1>4 DEF LocksAt
<1>8. \A ats : LocksAt(ats) \subseteq Tasks
  BY DEF LocksAt, Locks
<1>9. ShownOK'
  BY <1>0, <1>6, <1>8 DEF ShownOK
<1>10. AnswersOK'
  <2>. SUFFICES ASSUME NEW y \in Answers'
                PROVE  (\/ task[y].late \/ Sound(task[y].tree, Lists) \/ LocksAt({"ok", "open"}) # {}
                        \/ \E z \in LocksAt({"read"}) : y \in task[z].after)'
    BY DEF AnswersOK
  <2>1. CASE y = x
    BY <1>0, <1>2, <1>3, <2>1
  <2>2. CASE y # x
    <3>1. y \in Answers /\ y \in Tasks /\ task'[y] = task[y]
      BY <1>3, <1>5, <2>2 DEF Answers
    <3>2. CASE task[y].late \/ Sound(task[y].tree, Lists)
      BY <1>0, <3>1, <3>2
    <3>3. CASE LocksAt({"ok", "open"}) # {}
      <4>1. PICK z \in Tasks : z \in LocksAt({"ok", "open"})
        BY <1>8, <3>3
      <4>2. CASE z = x
        BY <1>2, <1>3, <1>7, <3>1, <4>1, <4>2
      <4>3. CASE z # x
        BY <1>6, <4>1, <4>3
      <4>. QED BY <4>2, <4>3
    <3>4. CASE \E z \in LocksAt({"read"}) : y \in task[z].after
      BY <1>3, <1>6, <1>8, <3>4
    <3>. QED BY <1>0, <3>1, <3>2, <3>3, <3>4 DEF AnswersOK
  <2>. QED BY <2>1, <2>2
<1>11. OneCall' /\ SentOK'
  BY <1>0, <1>2, <1>3, <1>4 DEF OneCall, SentOK
<1>. QED BY <1>0, <1>9, <1>10, <1>11

\* A call that locks the canvas has been answered: its own refresh will show what it made.
LEMMA DropAnswered ==
  ASSUME CanvasTypes, DropInv, NEW c \in Tasks, task[c].at = "sent", Locking(task[c]), Answered(c, TRUE),
         misled' \in BOOLEAN, busy' = busy,
         faults' = 0 /\ ~ misled' => faults = 0 /\ ~ misled /\ PlaneOK'
  PROVE  DropInv'
<1>. DEFINE r == [task[c] EXCEPT !.at = "ok"]
<1>. SUFFICES ASSUME faults' = 0, ~ misled' PROVE (PlaneOK /\ OneCall /\ ShownOK /\ AnswersOK /\ SentOK)'
  BY DEF DropInv
<1>0. PlaneOK' /\ OneCall /\ SentOK
  BY DEF DropInv
<1>1. task' = [task EXCEPT ![c] = r]
  BY DEF CanvasTypes, Answered
<1>2. r.at = "ok" /\ r.kind = task[c].kind
  <2>1. Fielded(task[c])
    BY DEF CanvasTypes
  <2>. QED BY <2>1 DEF Fielded
<1>. HIDE DEF r
<1>3. task'[c] = r /\ \A y \in Tasks : y # c => task'[y] = task[y]
  BY <1>1 DEF CanvasTypes
<1>4. Locks' = Locks
  BY <1>2, <1>3 DEF Locks, Locking
<1>5. c \in Locks /\ c \in LocksAt({"ok", "open"})' /\ c \in LocksAt({"ok", "open", "read"})'
  BY <1>2, <1>3, <1>4 DEF LocksAt, Locks
<1>6. ASSUME NEW y \in Tasks, task'[y].at = "sent" PROVE Sendable(task'[y], Lists')
  <2>1. y # c /\ task'[y] = task[y]
    BY <1>2, <1>3, <1>6
  <2>2. y \notin Locks
    BY <1>0, <1>5, <2>1 DEF OneCall
  <2>3. Sendable(task[y], Lists)
    BY <1>0, <1>6, <2>1 DEF SentOK
  <2>4. task[y].kind = "hire" /\ task[y].gesture = None /\ task[y].changes \in Newcomers
    BY <2>2, <2>3 DEF Sendable, Locks, Locking
  <2>. QED BY <2>1, <2>4 DEF Sendable
<1>7. OneCall'
  BY <1>0, <1>4 DEF OneCall
<1>. QED BY <1>0, <1>5, <1>6, <1>7 DEF ShownOK, AnswersOK, SentOK

\* A snapshot in order stays so when the tree only grows.
LEMMA SoundGrows ==
  ASSUME NEW lists, Listing(lists), NEW more, Listing(more), SameOrder(lists, more)
  PROVE  /\ \A S : Sound(S, lists) => Sound(S, more)
         /\ \A r : Sendable(r, lists) => Sendable(r, more)
<1>1. \A S : Listing(S) /\ SameOrder(S, lists) => SameOrder(S, more)
  BY SameOrderOf
<1>. QED BY <1>1 DEF Sound, Sendable

\* A hire has been answered.
LEMMA DropHired ==
  ASSUME CanvasTypes, DropInv, NEW c \in Tasks, task[c].at = "sent", ~ Locking(task[c]), Answered(c, TRUE),
         misled' \in BOOLEAN, UNCHANGED <<busy, shown, overtaken>>,
         faults' = 0 /\ ~ misled' => /\ faults = 0 /\ ~ misled /\ PlaneOK'
                                     /\ Listing(Lists) /\ Listing(Lists') /\ SameOrder(Lists, Lists')
  PROVE  DropInv'
<1>. DEFINE r == [task[c] EXCEPT !.at = "ok"]
<1>. SUFFICES ASSUME faults' = 0, ~ misled' PROVE (PlaneOK /\ OneCall /\ ShownOK /\ AnswersOK /\ SentOK)'
  BY DEF DropInv
<1>0. PlaneOK' /\ OneCall /\ ShownOK /\ AnswersOK /\ SentOK
  BY DEF DropInv
<1>g. (\A S : Sound(S, Lists) => Sound(S, Lists')) /\ \A q : Sendable(q, Lists) => Sendable(q, Lists')
  BY SoundGrows
<1>1. task' = [task EXCEPT ![c] = r]
  BY DEF CanvasTypes, Answered
<1>2. r.at = "ok" /\ r.kind = task[c].kind
  <2>1. Fielded(task[c])
    BY DEF CanvasTypes
  <2>. QED BY <2>1 DEF Fielded
<1>. HIDE DEF r
<1>3. task'[c] = r /\ \A y \in Tasks : y # c => task'[y] = task[y]
  BY <1>1 DEF CanvasTypes
<1>4. Locks' = Locks /\ c \notin Locks /\ Answers' = Answers /\ c \notin Answers
  BY <1>2, <1>3 DEF Locks, Locking, Answers
<1>5. \A ats : LocksAt(ats)' = LocksAt(ats)
  BY <1>3, <1>4 DEF LocksAt, Locks
<1>8. \A ats : LocksAt(ats) \subseteq Tasks /\ c \notin LocksAt(ats)
  BY <1>4 DEF LocksAt, Locks
<1>9. ShownOK'
  BY <1>0, <1>g, <1>5 DEF ShownOK
<1>10. AnswersOK'
  <2>. SUFFICES ASSUME NEW y \in Answers
                PROVE  (\/ task[y].late \/ Sound(task[y].tree, Lists) \/ LocksAt({"ok", "open"}) # {}
                        \/ \E z \in LocksAt({"read"}) : y \in task[z].after)'
    BY <1>4 DEF AnswersOK
  <2>1. y \in Tasks /\ task'[y] = task[y]
    BY <1>3, <1>4 DEF Answers
  <2>2. CASE task[y].late \/ Sound(task[y].tree, Lists)
    BY <1>g, <2>1, <2>2
  <2>3. CASE LocksAt({"ok", "open"}) # {}
    BY <1>5, <2>3
  <2>4. CASE \E z \in LocksAt({"read"}) : y \in task[z].after
    BY <1>3, <1>5, <1>8, <2>4
  <2>. QED BY <1>0, <2>2, <2>3, <2>4 DEF AnswersOK
<1>11. OneCall' /\ SentOK'
  BY <1>0, <1>2, <1>3, <1>4, <1>g DEF OneCall, SentOK
<1>. QED BY <1>0, <1>9, <1>10, <1>11

\* What is shown comes in the order of the answers, not of the reads.
LEMMA DropShows ==
  ASSUME CanvasTypes, ReadInOrder, DropInv, NEW x \in Tasks, ShowTree(x)
  PROVE  DropInv'
<1>. DEFINE next == IF task[x].kind \in {"adjust", "undo"} THEN [task[x] EXCEPT !.at = "cards", !.tree = None] ELSE Over(x)
            r == [next EXCEPT !.after = {}, !.late = FALSE]
<1>0. task[x].at = "read" /\ shown' = task[x].tree /\ overtaken' = task[x].late /\ UNCHANGED <<plane, news, misled, faults>>
  BY DEF ShowTree
<1>. SUFFICES ASSUME faults = 0, ~ misled PROVE (PlaneOK /\ OneCall /\ ShownOK /\ AnswersOK /\ SentOK)'
  BY <1>0 DEF DropInv
<1>1. Lists' = Lists /\ PlaneOK' /\ OneCall /\ ShownOK /\ AnswersOK /\ SentOK
  <2>1. PlaneOK /\ OneCall /\ ShownOK /\ AnswersOK /\ SentOK
    BY DEF DropInv
  <2>. QED BY <1>0, <2>1 DEF plane, Lists, PlaneOK
<1>2. /\ task'[x] = r
      /\ \A y \in Tasks : y # x => task'[y] = [task[y] EXCEPT !.after = @ \ {x}, !.late = @ \/ y \in task[x].after]
  BY DEF ShowTree
<1>3. /\ r.at \in {"cards", "new", "done"}
      /\ Locking(r) <=> Locking(task[x])
  <2>1. Fielded(task[x])
    BY DEF CanvasTypes
  <2>2. CASE task[x].kind \in {"adjust", "undo"}
    BY <2>1, <2>2 DEF Fielded, Locking
  <2>3. CASE task[x].kind \notin {"adjust", "undo"}
    <3>1. "at" \in DOMAIN Over(x) /\ Over(x).at \in {"new", "done"} /\ Over(x).kind = None /\ "kind" \in DOMAIN Over(x)
      BY DEF Over, Fresh
    <3>. HIDE DEF Over
    <3>2. r = [Over(x) EXCEPT !.after = {}, !.late = FALSE]
      BY <2>3
    <3>3. r.at = Over(x).at /\ r.kind = None
      BY <3>1, <3>2
    <3>. QED BY <2>3, <3>1, <3>3, CanvasAssumption DEF Locking
  <2>. QED BY <2>2, <2>3
<1>4. ASSUME NEW y \in Tasks, y # x
      PROVE  /\ task'[y].at = task[y].at /\ task'[y].kind = task[y].kind /\ task'[y].tree = task[y].tree
             /\ task'[y].changes = task[y].changes /\ task'[y].gesture = task[y].gesture
             /\ task'[y].after = task[y].after \ {x}
             /\ task[y].late \/ y \in task[x].after => task'[y].late
  <2>1. Fielded(task[y])
    BY DEF CanvasTypes
  <2>2. task'[y] = [task[y] EXCEPT !.after = @ \ {x}, !.late = @ \/ y \in task[x].after]
    BY <1>2, <1>4
  <2>3. task'[y].late = (task[y].late \/ y \in task[x].after)
    BY <2>1, <2>2, Zenon DEF Fielded
  <2>4. task'[y].at = task[y].at /\ task'[y].kind = task[y].kind /\ task'[y].tree = task[y].tree
    BY <2>1, <2>2 DEF Fielded
  <2>5. task'[y].changes = task[y].changes /\ task'[y].gesture = task[y].gesture
    BY <2>1, <2>2 DEF Fielded
  <2>6. task'[y].after = task[y].after \ {x}
    BY <2>1, <2>2 DEF Fielded
  <2>. QED BY <2>3, <2>4, <2>5, <2>6, Zenon
<1>. HIDE DEF r
<1>5. Locks' = Locks
  <2>1. ASSUME NEW y \in Tasks PROVE Locking(task'[y]) <=> Locking(task[y])
    <3>1. CASE y = x
      BY <1>2, <1>3, <3>1, Zenon
    <3>2. CASE y # x
      BY <1>4, <3>2 DEF Locking
    <3>. QED BY <3>1, <3>2
  <2>. QED BY <2>1, Zenon DEF Locks
<1>6. Answers' = Answers \ {x} /\ x \in Answers
  <2>1. \A y \in Tasks : y # x => (task'[y].at = "read" <=> task[y].at = "read")
    BY <1>4
  <2>2. task'[x].at # "read"
    BY <1>2, <1>3
  <2>. QED BY <1>0, <2>1, <2>2, Zenon DEF Answers
<1>7. \A y \in Tasks : /\ y \in LocksAt({"ok", "open"}) => y # x /\ y \in LocksAt({"ok", "open"})'
                       /\ y \in LocksAt({"read"}) => y = x \/ y \in LocksAt({"read"})'
  <2>1. ASSUME NEW y \in Tasks, NEW ats, y \in LocksAt(ats), y # x PROVE y \in LocksAt(ats)'
    BY <1>4, <1>5, <2>1 DEF LocksAt
  <2>2. x \notin LocksAt({"ok", "open"})
    BY <1>0 DEF LocksAt
  <2>. QED BY <2>1, <2>2
<1>8. \A ats : LocksAt(ats) \subseteq Tasks
  BY DEF LocksAt, Locks
<1>9. ShownOK'
  <2>1. CASE task[x].late \/ Sound(task[x].tree, Lists)
    BY <1>0, <1>1, <2>1 DEF ShownOK
  <2>2. CASE LocksAt({"ok", "open"}) # {}
    <3>1. PICK z \in Tasks : z \in LocksAt({"ok", "open"})'
      BY <1>7, <1>8, <2>2
    <3>2. z \in LocksAt({"ok", "open", "read"})'
      BY <3>1 DEF LocksAt
    <3>. QED BY <3>2 DEF ShownOK
  <2>3. CASE \E z \in LocksAt({"read"}) : x \in task[z].after
    <3>1. PICK z \in LocksAt({"read"}) : x \in task[z].after
      BY <2>3
    <3>2. z \in Answers /\ z \in Tasks
      BY <3>1 DEF LocksAt, Locks, Answers
    <3>3. z # x
      BY <1>6, <3>1, <3>2 DEF ReadInOrder
    <3>4. z \in LocksAt({"read"})'
      BY <1>7, <3>1, <3>2, <3>3
    <3>5. z \in LocksAt({"ok", "open", "read"})'
      BY <3>4 DEF LocksAt
    <3>. QED BY <3>5 DEF ShownOK
  <2>. QED BY <1>1, <1>6, <2>1, <2>2, <2>3 DEF AnswersOK
<1>10. AnswersOK'
  <2>. SUFFICES ASSUME NEW y \in Answers, y # x
                PROVE  (\/ task[y].late \/ Sound(task[y].tree, Lists) \/ LocksAt({"ok", "open"}) # {}
                        \/ \E z \in LocksAt({"read"}) : y \in task[z].after)'
    BY <1>6 DEF AnswersOK
  <2>1. y \in Tasks
    BY DEF Answers
  <2>2. CASE task[y].late \/ Sound(task[y].tree, Lists)
    BY <1>1, <1>4, <2>1, <2>2
  <2>3. CASE LocksAt({"ok", "open"}) # {}
    BY <1>7, <1>8, <2>3
  <2>4. CASE \E z \in LocksAt({"read"}) : y \in task[z].after
    <3>1. PICK z \in LocksAt({"read"}) : y \in task[z].after
      BY <2>4
    <3>2. z \in Tasks
      BY <1>8, <3>1
    <3>3. CASE z = x
      BY <1>4, <2>1, <3>1, <3>3
    <3>4. CASE z # x
      BY <1>4, <1>7, <3>1, <3>2, <3>4
    <3>. QED BY <3>3, <3>4
  <2>. QED BY <1>1, <2>2, <2>3, <2>4 DEF AnswersOK
<1>11. SentOK'
  <2>. SUFFICES ASSUME NEW y \in Tasks, task'[y].at = "sent" PROVE Sendable(task'[y], Lists)
    BY <1>1 DEF SentOK
  <2>1. y # x
    BY <1>2, <1>3
  <2>2. Sendable(task[y], Lists)
    BY <1>1, <1>4, <2>1 DEF SentOK
  <2>. QED BY <1>4, <2>1, <2>2 DEF Sendable
<1>12. OneCall'
  <2>1. ASSUME x \in Locks PROVE busy' = busy
    <3>1. task[x].kind \in {"adjust", "undo"} /\ Fielded(task[x])
      BY <2>1 DEF CanvasTypes, Locks, Locking
    <3>2. [task[x] EXCEPT !.at = "cards", !.tree = None].at = "cards"
      BY <3>1 DEF Fielded
    <3>. QED BY <3>1, <3>2 DEF ShowTree
  <2>2. ASSUME x \notin Locks PROVE busy => busy'
    <3>1. task[x].kind \notin {"adjust", "undo"}
      BY <2>2 DEF Locks, Locking
    <3>2. Over(x).at # "cards"
      BY DEF Over, Fresh
    <3>. QED BY <3>1, <3>2 DEF ShowTree, Releases
  <2>3. ASSUME NEW y \in Locks, NEW z \in Locks PROVE busy' /\ y = z
    <3>1. busy /\ y = z
      BY <1>1 DEF OneCall
    <3>. QED BY <2>1, <2>2, <3>1
  <2>. QED BY <1>5, <2>3 DEF OneCall
<1>. QED BY <1>1, <1>9, <1>10, <1>11, <1>12

\* A manifest of one change.
LEMMA OneChange ==
  ASSUME NEW changes, NEW x, changes = <<x>>
  PROVE  \E T : changes \in Seq(T) /\ Len(changes) = 1 /\ changes[1] = x
<1>1. changes \in Seq({x}) /\ Len(changes) = 1 /\ changes[1] = x
  OBVIOUS
<1>. QED BY <1>1

\* An order alone: also when the tree that is proposed is another one, the overlay stays tidy.
LEMMA OrderPlane ==
  ASSUME NEW t, IsTree(t), NEW o, IsOverlay(o), Tidy(o, t), NEW S, Listing(S), SameOrder(S, Reconcile(t, o)),
         NEW g, NEW changes, Asked(S, g, changes), Structural(changes) = << >>
  PROVE  /\ IsOverlay(Reordered(o, changes)) /\ Tidy(Reordered(o, changes), t)
         /\ ~ \E n \in DOMAIN changes : changes[n].op = "delete"
<1>. DEFINE p == ParentShown(S, g.anchor)
            list == Beside(S, g)
<1>1. g.id \in Shown(S) /\ g.zone \in {"before", "after"} /\ g.anchor \in Shown(S) /\ g.anchor # g.id
      /\ ParentShown(S, g.id) = p /\ changes = <<ToOrder(p, list)>>
  <2>1. \A id, q : <<Move(id, q)>> # << >>
    OBVIOUS
  <2>2. /\ \A id, q : Structural(<<Move(id, q)>>) # << >>
        /\ \A id, q, r, l : Structural(<<Move(id, q), ToOrder(r, l)>>) # << >>
    BY <2>1, StructuralOf
  <2>. QED BY <2>2, AskedIs
<1>2. Plain(list) /\ Range(list) = Range(ListAt(S, p)) /\ p \in Ids \cup {Root}
  <2>1. g.id \in Ids /\ g.id \in Range(ListAt(S, p)) /\ g.anchor \in Range(ListAt(S, p)) /\ p \in Ids \cup {Root}
    BY <1>1, ShownUnder
  <2>2. Plain(ListAt(S, p))
    BY ListIsPlain DEF Listing
  <2>3. Plain(list) /\ Range(list) = Range(ListAt(S, p)) \cup {g.id}
    BY <1>1, <2>1, <2>2, InsertedIs DEF Beside
  <2>. QED BY <2>1, <2>3
<1>3. Range(list) \subseteq Children(t, p)
  <2>1. Plain(ListAt(Reconcile(t, o), p)) /\ Range(ListAt(Reconcile(t, o), p)) = Children(t, p)
    BY ReconcileIs
  <2>2. Kept(ListAt(Reconcile(t, o), p), Shown(S)) = ListAt(S, p)
    BY <1>2 DEF SameOrder
  <2>3. Range(ListAt(S, p)) \subseteq Range(ListAt(Reconcile(t, o), p))
    BY <2>1, <2>2, KeptRange DEF Plain
  <2>. QED BY <1>2, <2>1, <2>3
<1>. HIDE DEF p, list
<1>4. Reordered(o, changes) = Put(o, p, list) /\ ~ \E n \in DOMAIN changes : changes[n].op = "delete"
  <2>1. PICK T : changes \in Seq(T) /\ Len(changes) = 1 /\ changes[1] = ToOrder(p, list)
    BY <1>1, OneChange
  <2>. QED BY <2>1, OrderIs
<1>5. IsOverlay(Put(o, p, list))
  BY <1>2 DEF IsOverlay, Put
<1>6. Tidy(Put(o, p, list), t)
  <2>1. \A n \in 1 .. Len(list) - 1 : list[n] \in Children(t, p)
    <3>1. list \in Seq(Ids)
      BY <1>2 DEF Plain
    <3>. QED BY <1>3, <3>1 DEF Range
  <2>. QED BY <2>1 DEF Tidy, Put
<1>. QED BY <1>4, <1>5, <1>6

\* The moves that take a manifest back.
LEMMA InverseIs ==
  ASSUME NEW changes
  PROVE  /\ Structural(changes) = << >> => InverseMoves(changes) = << >>
         /\ \A id \in DOMAIN applied : \A p :
              Structural(changes) = <<Move(id, p)>> => InverseMoves(changes) = <<Move(id, applied[id])>>
<1>1. ASSUME Structural(changes) = << >> PROVE InverseMoves(changes) = << >>
  BY <1>1 DEF InverseMoves
<1>2. ASSUME NEW id \in DOMAIN applied, NEW p, Structural(changes) = <<Move(id, p)>>
      PROVE  InverseMoves(changes) = <<Move(id, applied[id])>>
  <2>1. DOMAIN <<Move(id, p)>> = {1} /\ <<Move(id, p)>>[1] = Move(id, p) /\ Move(id, p).id = id
    BY DEF Move
  <2>2. InverseMoves(changes) = [n \in {1} |-> Move(id, applied[id])]
    <3>. DEFINE moves == Structural(changes)
    <3>1. DOMAIN moves = {1} /\ \A n \in {1} : moves[n].id = id
      BY <1>2, <2>1
    <3>2. InverseMoves(changes) = [n \in DOMAIN moves |->
                                     [op |-> "move", id |-> moves[n].id,
                                      reportTo |-> IF moves[n].id \in DOMAIN applied THEN applied[moves[n].id] ELSE Root]]
      BY DEF InverseMoves
    <3>. HIDE DEF moves
    <3>. QED BY <3>1, <3>2 DEF Move
  <2>. HIDE DEF InverseMoves
  <2>3. [n \in {1} |-> Move(id, applied[id])] = <<Move(id, applied[id])>>
    OBVIOUS
  <2>. QED BY <2>2, <2>3
<1>. QED BY <1>1, <1>2

\* What an adjustment does to the control plane.
LEMMA AdjustPlane ==
  ASSUME PlaneOK, NEW c, Adjust(c), task[c].at = "sent", Sendable(task[c], Lists),
         \A tree : ~ Refuses(c, tree),
         misled' \in BOOLEAN, ~ misled'
  PROVE  PlaneOK' /\ Answered(c, TRUE)
<1>. DEFINE changes == task[c].changes
            tree == Trees(proposed, changes, Owner)[Len(changes)]
            undo == IF \E n \in DOMAIN changes : changes[n].op = "delete" THEN None
                    ELSE [inverse |-> InverseMoves(changes), order |-> order]
<1>0. task[c].kind = "adjust"
  BY DEF Adjust
<1>1. \/ Structural(changes) = << >> /\ Orders(c, Reordered(order, changes), undo)
      \/ Structural(changes) # << >> /\ Valid(proposed, changes, Owner)
           /\ Applies(c, tree, Reordered(Reconcile(tree, order), changes), undo)
  BY DEF Adjust
<1>2. IsTree(applied) /\ IsOverlay(order) /\ Tidy(order, applied)
  BY DEF PlaneOK
<1>3. CASE \E id : changes = <<Delete(id)>>
  <2>1. PICK id : changes = <<Delete(id)>>
    BY <1>3
  <2>2. Structural(changes) # << >>
    BY <2>1, StructuralOf
  <2>3. PICK T : changes \in Seq(T) /\ Len(changes) = 1 /\ changes[1] = Delete(id)
    BY <2>1, OneChange
  <2>4. \E n \in DOMAIN changes : changes[n].op = "delete"
    BY <2>3, DeleteIs
  <2>. DEFINE u == Pruned(applied, id)
              w == Reconcile(u, order)
  <2>5. proposed = applied /\ Answered(c, TRUE) /\ applied' = tree /\ entry' = None
        /\ order' = Reordered(Reconcile(tree, order), changes)
    BY <1>1, <2>2, <2>4 DEF Applies
  <2>6. tree = u
    BY <2>3, <2>5, DeleteIs
  <2>7. IsTree(u)
    BY <1>2 DEF IsTree, Pruned
  <2>8. IsOverlay(w) /\ Tidy(w, u)
    BY <1>2, <2>7, ReconcileIs, TidyReconciled DEF Listing
  <2>9. Reordered(w, changes) = w
    <3>. HIDE DEF w
    <3>1. IsMap(w)
      BY <2>8 DEF IsOverlay, IsMap
    <3>. QED BY <2>3, <3>1, DeleteIs
  <2>10. applied' = u /\ order' = w
    BY <2>5, <2>6, <2>9
  <2>. QED BY <2>5, <2>7, <2>8, <2>10 DEF PlaneOK, EntryOK
<1>4. CASE \E S : Listing(S) /\ SameOrder(S, Lists) /\ Asked(S, task[c].gesture, changes)
  <2>1. PICK S : Listing(S) /\ SameOrder(S, Reconcile(applied, order)) /\ Asked(S, task[c].gesture, changes)
    BY <1>4 DEF Lists
  <2>2. CASE Structural(changes) = << >>
    <3>1. /\ IsOverlay(Reordered(order, changes)) /\ Tidy(Reordered(order, changes), applied)
          /\ ~ \E n \in DOMAIN changes : changes[n].op = "delete"
      BY <1>2, <2>1, <2>2, OrderPlane
    <3>2. undo = [inverse |-> << >>, order |-> order]
      BY <2>2, <3>1, InverseIs
    <3>3. order' = Reordered(order, changes) /\ entry' = undo /\ applied' = applied /\ Answered(c, TRUE)
      BY <1>1, <2>2 DEF Orders
    <3>4. EntryOK(undo, applied)
      BY <1>2, <3>2 DEF EntryOK
    <3>. HIDE DEF changes, undo
    <3>. QED BY <1>2, <3>1, <3>3, <3>4 DEF PlaneOK
  <2>3. CASE Structural(changes) # << >>
    <3>1. /\ Valid(proposed, changes, Owner) /\ proposed = applied /\ Answered(c, TRUE)
          /\ applied' = tree /\ entry' = undo /\ order' = Reordered(Reconcile(tree, order), changes)
      BY <1>1, <2>3 DEF Applies
    <3>. DEFINE g == task[c].gesture
    <3>2. /\ ~ \E n \in DOMAIN changes : changes[n].op = "delete"
          /\ \E p \in Ids \cup {Root} :
                 /\ Structural(changes) = <<Move(g.id, p)>> /\ g.id \in DOMAIN applied /\ tree = Moved(applied, g.id, p)
                 /\ DropDone(applied, order, tree, Reordered(Reconcile(tree, order), changes), g)
      <4>. HIDE DEF changes, g
      <4>. QED BY <1>2, <2>1, <2>3, <3>1, AdjustDone DEF g
    <3>3. PICK p \in Ids \cup {Root} :
                 /\ Structural(changes) = <<Move(g.id, p)>> /\ g.id \in DOMAIN applied /\ tree = Moved(applied, g.id, p)
                 /\ DropDone(applied, order, tree, Reordered(Reconcile(tree, order), changes), g)
      BY <3>2
    <3>4. IsTree(applied') /\ IsOverlay(order') /\ Tidy(order', applied')
      BY <3>1, <3>3 DEF DropDone
    <3>5. undo = [inverse |-> <<Move(g.id, applied[g.id])>>, order |-> order]
      BY <3>2, <3>3, InverseIs
    <3>. HIDE DEF changes, undo, g, tree
    <3>6. Moved(tree, g.id, applied[g.id]) = applied
      BY <1>2, <3>3, MovedIs
    <3>7. g.id \in Ids /\ applied[g.id] \in Ids \cup {Root}
      BY <1>2, <3>3 DEF IsTree
    <3>8. EntryOK(undo, tree)
      BY <1>2, <3>5, <3>6, <3>7 DEF EntryOK
    <3>. QED BY <3>1, <3>4, <3>8 DEF PlaneOK
  <2>. QED BY <2>2, <2>3
<1>. QED BY <1>0, <1>3, <1>4 DEF Sendable

\* What an undo does to it.
LEMMA UndoPlane ==
  ASSUME PlaneOK, NEW c, Undoes(c), \A tree : ~ Refuses(c, tree), misled' \in BOOLEAN, ~ misled'
  PROVE  PlaneOK' /\ Answered(c, TRUE)
<1>0. IsTree(applied) /\ EntryOK(entry, applied) /\ entry # None
  BY DEF PlaneOK, Undoes
<1>1. CASE entry.inverse = << >>
  <2>1. IsOverlay(entry.order) /\ Tidy(entry.order, applied)
    <3>1. \A id, p : <<Move(id, p)>> # << >>
      OBVIOUS
    <3>. QED BY <1>0, <1>1, <3>1 DEF EntryOK
  <2>2. Answered(c, TRUE) /\ order' = entry.order /\ entry' = None /\ applied' = applied
    BY <1>0, <1>1 DEF Undoes, Orders
  <2>. QED BY <1>0, <2>1, <2>2 DEF PlaneOK, EntryOK
<1>2. CASE entry.inverse # << >>
  <2>1. PICK id \in Ids, p \in Ids \cup {Root} : entry.inverse = <<Move(id, p)>> /\ Tidy(entry.order, Moved(applied, id, p))
    BY <1>0, <1>2 DEF EntryOK
  <2>. DEFINE tree == Trees(proposed, entry.inverse, Owner)[Len(entry.inverse)]
  <2>2. Valid(proposed, entry.inverse, Owner) /\ Applies(c, tree, entry.order, None)
    BY <1>0, <1>2 DEF Undoes
  <2>3. proposed = applied /\ applied' = tree /\ order' = entry.order /\ entry' = None /\ Answered(c, TRUE)
    BY <2>2 DEF Applies
  <2>4. PICK T : entry.inverse \in Seq(T) /\ Len(entry.inverse) = 1 /\ entry.inverse[1] = Move(id, p)
    BY <2>1, OneChange
  <2>5. tree = Moved(applied, id, p) /\ id \in DOMAIN applied
    <3>. DEFINE back == entry.inverse
    <3>. HIDE DEF back
    <3>1. back \in Seq(T) /\ Len(back) = 1 /\ back[1] = Move(id, p)
      BY <2>4 DEF back
    <3>2. Trees(applied, back, Owner)[Len(back)] = Moved(applied, id, p) /\ (Valid(applied, back, Owner) => id \in DOMAIN applied)
      BY <3>1, MoveIs
    <3>. QED BY <2>2, <2>3, <3>2 DEF back
  <2>6. IsTree(Moved(applied, id, p))
    BY <1>0, <2>5, MovedIs
  <2>. HIDE DEF tree
  <2>. QED BY <1>0, <2>1, <2>3, <2>5, <2>6 DEF PlaneOK, EntryOK
<1>. QED BY <1>1, <1>2

\* The owner is a position that was scanned.
LEMMA OwnerIs == Owner \in Ids
<1>1. PICK d \in FirstDirs : Owner = IdOf(d)
  BY CanvasAssumption DEF ScannedIds
<1>2. d \in Seq(Ids) /\ d # << >>
  BY CanvasAssumption DEF Paths
<1>. QED BY <1>1, <1>2 DEF IdOf

\* What a hire does to it.
LEMMA HirePlane ==
  ASSUME PlaneOK, NEW c, Hires(c), task[c].changes \in Newcomers, \A tree : ~ Refuses(c, tree), misled' \in BOOLEAN, ~ misled'
  PROVE  PlaneOK' /\ Answered(c, TRUE) /\ Listing(Lists) /\ Listing(Lists') /\ SameOrder(Lists, Lists')
<1>. DEFINE n == task[c].changes
            parent == IF n.reportTo = Root THEN Owner ELSE n.reportTo
            u == Hired(applied, n.id, parent)
            w == HiredOrder(Reconcile(u, order), n.reportTo, n.id)
<1>0. IsTree(applied) /\ IsOverlay(order) /\ Tidy(order, applied) /\ EntryOK(entry, applied)
  BY DEF PlaneOK
<1>1. n.id \in Ids /\ n.reportTo \in Ids \cup {Root} /\ parent \in Ids
  BY CanvasAssumption, OwnerIs
<1>2. /\ n.id \notin DOMAIN applied /\ proposed = applied /\ applied' = u /\ order' = w /\ entry' = entry /\ Answered(c, TRUE)
  <2>. DEFINE tree == [id \in DOMAIN proposed \cup {n.id} |-> IF id = n.id THEN parent ELSE proposed[id]]
              list == Reconcile(tree, order)
              grown == [k \in DOMAIN list \cup {n.reportTo} |->
                          IF k = n.reportTo THEN Append(ListAt(list, n.reportTo), n.id) ELSE list[k]]
  <2>1. /\ n.id \notin DOMAIN applied
        /\ Applies(c, tree, IF n.id \in Range(ListAt(list, n.reportTo)) THEN list ELSE grown, entry)
    BY DEF Hires
  <2>2. grown = Put(list, n.reportTo, Append(ListAt(list, n.reportTo), n.id))
    BY DEF Put
  <2>. HIDE DEF grown, list
  <2>3. proposed = applied /\ entry' = entry /\ Answered(c, TRUE) /\ applied' = tree
        /\ order' = IF n.id \in Range(ListAt(list, n.reportTo)) THEN list ELSE grown
    BY <2>1 DEF Applies
  <2>4. tree = u
    BY <2>3 DEF Hired
  <2>. HIDE DEF tree, u, n
  <2>5. order' = HiredOrder(list, n.reportTo, n.id) /\ list = Reconcile(u, order)
    BY <2>2, <2>3, <2>4 DEF HiredOrder, list
  <2>. QED BY <2>1, <2>3, <2>4, <2>5
<1>. HIDE DEF n, parent, u, w
<1>3. /\ IsTree(u) /\ IsOverlay(w) /\ Tidy(w, u) /\ SameOrder(Reconcile(applied, order), Reconcile(u, w))
      /\ \A k : Children(applied, k) \subseteq Children(u, k)
      /\ \A i, p, k : Children(Moved(applied, i, p), k) \subseteq Children(Moved(u, i, p), k)
  BY <1>0, <1>1, <1>2, HireDone DEF u, w
<1>4. EntryOK(entry, u)
  <2>. SUFFICES ASSUME entry # None PROVE EntryOK(entry, u)
    BY DEF EntryOK
  <2>1. CASE entry.inverse = << >> /\ Tidy(entry.order, applied)
    BY <1>0, <1>3, <2>1, TidyGrows DEF EntryOK
  <2>2. CASE \E id \in Ids, p \in Ids \cup {Root} : entry.inverse = <<Move(id, p)>> /\ Tidy(entry.order, Moved(applied, id, p))
    <3>1. PICK id \in Ids, p \in Ids \cup {Root} : entry.inverse = <<Move(id, p)>> /\ Tidy(entry.order, Moved(applied, id, p))
      BY <2>2
    <3>2. Tidy(entry.order, Moved(u, id, p))
      BY <1>3, <3>1, TidyGrows
    <3>. QED BY <1>0, <3>1, <3>2 DEF EntryOK
  <2>. QED BY <1>0, <2>1, <2>2 DEF EntryOK
<1>5. Listing(Reconcile(applied, order)) /\ Listing(Reconcile(u, w))
  BY <1>0, <1>3, ReconcileIs
<1>. QED BY <1>2, <1>3, <1>4, <1>5 DEF PlaneOK, Lists

\* At the start nothing has been shown and nothing was asked for.
LEMMA DropInit == Init => DropInv
<1>. SUFFICES ASSUME Init PROVE DropInv
  OBVIOUS
<1>1. IsTree(applied)
  <2>1. \A id \in ScannedIds(FirstDirs) : DirOf(FirstDirs, id) \in FirstDirs /\ IdOf(DirOf(FirstDirs, id)) = id
    BY DEF ScannedIds, DirOf
  <2>2. ASSUME NEW d \in FirstDirs PROVE IdOf(d) \in Ids /\ ParentOf(d) \in Ids \cup {Root}
    <3>1. d \in Seq(Ids) /\ d # << >>
      BY CanvasAssumption DEF Paths
    <3>2. Len(d) \in Nat /\ Len(d) # 0 /\ \A n \in 1 .. Len(d) : d[n] \in Ids
      BY <3>1
    <3>3. IdOf(d) \in Ids
      BY <3>2 DEF IdOf
    <3>4. ASSUME Len(d) # 1 PROVE d[Len(d) - 1] \in Ids
      <4>1. \A k \in Nat \ {0, 1} : k - 1 \in 1 .. k
        OBVIOUS
      <4>2. Len(d) - 1 \in 1 .. Len(d)
        BY <3>2, <3>4, <4>1
      <4>. QED BY <3>2, <4>2
    <3>. QED BY <3>3, <3>4 DEF ParentOf
  <2>. QED BY <2>1, <2>2 DEF Init, Parents, IsTree
<1>2. IsOverlay(<< >>)
  <2>1. << >> = [key \in DOMAIN << >> |-> << >>[key]] /\ DOMAIN << >> = {}
    OBVIOUS
  <2>. QED BY <2>1 DEF IsOverlay
<1>3. IsOverlay(order) /\ Tidy(order, applied)
  BY <1>1, <1>2, ReconcileIs, TidyReconciled DEF Init, Listing
<1>4. PlaneOK
  BY <1>1, <1>3 DEF Init, PlaneOK, EntryOK
<1>5. \A x \in Tasks : task[x].kind = None /\ task[x].at \in {"new", "asking", "open"}
  BY DEF Init, Fresh, Asking
<1>6. Locks = {} /\ Answers = {}
  BY <1>5, CanvasAssumption DEF Locks, Locking, Answers
<1>. QED BY <1>4, <1>5, <1>6 DEF DropInv, OneCall, ShownOK, Sound, AnswersOK, SentOK, Init

\* A call is made: while the canvas is not locked no call locks it, and what is shown is in order
\* or overtaken.
LEMMA DropCalls ==
  ASSUME CanvasTypes, DropInv, NEW c \in Calls, Drop(c) \/ Dismiss(c) \/ Undo(c) \/ Hire(c)
  PROVE  DropInv'
<1>0. c \in Tasks /\ task[c].at = "new" /\ faults' = faults /\ misled \in BOOLEAN /\ overtaken \in BOOLEAN
      /\ UNCHANGED <<applied, order, entry, shown, overtaken>>
  BY DEF Drop, Dismiss, Undo, Hire, First, Tasks, plane, canvas, observed, DropInv, CanvasTypes
<1>1. faults = 0 /\ ~ misled => OneCall /\ ShownOK
  BY DEF DropInv
<1>. DEFINE r(kind, changes, g) == [Fresh EXCEPT !.at = "sent", !.kind = kind, !.changes = changes, !.gesture = g]
<1>2. \A kind, changes, g : /\ r(kind, changes, g).at = "sent" /\ r(kind, changes, g).kind = kind
                            /\ r(kind, changes, g).changes = changes /\ r(kind, changes, g).gesture = g
  BY DEF Fresh
<1>3. \A kind, changes, g : Sends(c, kind, changes, g) => task' = [task EXCEPT ![c] = r(kind, changes, g)]
  BY DEF Sends
<1>. HIDE DEF r
<1>4. c \notin LocksAt({"ok", "open"})
  BY <1>0 DEF LocksAt
<1>5. CASE Drop(c)
  <2>1. PICK g, changes : /\ g \in Gestures(shown) /\ (g.anchor # Root => ~ Below(shown, g.anchor, g.id))
                           /\ changes \in ManifestsOf(shown, g) /\ Sends(c, "adjust", changes, g)
    BY <1>5 DEF Drop
  <2>2. busy' /\ ~ busy /\ shown # None /\ misled' = (misled \/ overtaken)
    BY <1>5 DEF Drop
  <2>3. ASSUME faults' = 0, ~ misled'
        PROVE  faults = 0 /\ ~ misled /\ Locks = {} /\ Sendable(r("adjust", changes, g), Lists)
    <3>1. faults = 0 /\ ~ misled /\ ~ overtaken
      BY <1>0, <2>2, <2>3
    <3>2. Locks = {}
      BY <1>1, <2>2, <3>1 DEF OneCall
    <3>3. LocksAt({"ok", "open", "read"}) = {}
      BY <3>2 DEF LocksAt
    <3>4. Listing(shown) /\ SameOrder(shown, Lists)
      BY <1>1, <2>2, <3>1, <3>3 DEF ShownOK, Sound
    <3>5. Asked(shown, g, changes)
      BY <2>1 DEF Asked
    <3>. QED BY <1>2, <3>1, <3>2, <3>4, <3>5 DEF Sendable
  <2>4. misled' \in BOOLEAN
    BY <2>2
  <2>5. task' = [task EXCEPT ![c] = r("adjust", changes, g)] /\ r("adjust", changes, g).at = "sent"
    BY <1>2, <1>3, <2>1
  <2>. QED BY <1>0, <1>4, <2>2, <2>3, <2>4, <2>5, TaskGoesOn
<1>6. CASE Dismiss(c)
  <2>1. PICK id : Sends(c, "adjust", <<[op |-> "delete", id |-> id]>>, None)
    BY <1>6 DEF Dismiss
  <2>. DEFINE q == r("adjust", <<Delete(id)>>, None)
  <2>2. task' = [task EXCEPT ![c] = q]
    BY <1>3, <2>1 DEF Delete
  <2>3. q.at = "sent" /\ Sendable(q, Lists)
    BY <1>2 DEF Sendable
  <2>4. busy' /\ ~ busy /\ misled' = misled
    BY <1>6 DEF Dismiss, observed
  <2>5. faults = 0 /\ ~ misled => Locks = {}
    BY <1>1, <2>4 DEF OneCall
  <2>. HIDE DEF q
  <2>. QED BY <1>0, <1>4, <2>2, <2>3, <2>4, <2>5, TaskGoesOn
<1>7. CASE Undo(c)
  <2>. DEFINE q == r("undo", << >>, None)
  <2>1. task' = [task EXCEPT ![c] = q]
    BY <1>3, <1>7 DEF Undo
  <2>2. q.at = "sent" /\ Sendable(q, Lists)
    BY <1>2 DEF Sendable
  <2>3. busy' /\ misled' = (misled \/ busy)
    BY <1>7 DEF Undo
  <2>4. ASSUME faults' = 0, ~ misled' PROVE faults = 0 /\ ~ misled /\ Locks = {}
    BY <1>0, <1>1, <2>3, <2>4 DEF OneCall
  <2>5. misled' \in BOOLEAN
    BY <2>3
  <2>. HIDE DEF q
  <2>. QED BY <1>0, <1>4, <2>1, <2>2, <2>3, <2>4, <2>5, TaskGoesOn
<1>8. CASE Hire(c)
  <2>1. PICK n \in Newcomers : Sends(c, "hire", n, None)
    BY <1>8 DEF Hire
  <2>. DEFINE q == r("hire", n, None)
  <2>2. task' = [task EXCEPT ![c] = q]
    BY <1>3, <2>1
  <2>3. q.at = "sent" /\ Sendable(q, Lists) /\ ~ Locking(q)
    BY <1>2 DEF Sendable, Locking
  <2>4. busy' = busy /\ misled' = misled
    BY <1>8 DEF Hire, canvas, observed
  <2>5. faults = 0 /\ ~ misled => \A y \in Locks : busy
    BY <1>1 DEF OneCall
  <2>. HIDE DEF q
  <2>. QED BY <1>0, <1>4, <2>2, <2>3, <2>4, <2>5, TaskGoesOn
<1>. QED BY <1>5, <1>6, <1>7, <1>8

\* The control plane serves a call.
LEMMA DropServed ==
  ASSUME CanvasTypes, DropInv, NEW c \in Calls, Serve(c)
  PROVE  DropInv'
<1>0. c \in Tasks /\ task[c].at = "sent" /\ UNCHANGED <<busy, shown, overtaken, faults>> /\ misled \in BOOLEAN
      /\ Fielded(task[c])
  BY DEF Serve, Tasks, canvas, DropInv, CanvasTypes
<1>1. faults = 0 /\ ~ misled => PlaneOK /\ OneCall /\ Sendable(task[c], Lists)
  BY <1>0 DEF DropInv, SentOK
<1>2. CASE \E tree : Refuses(c, tree)
  <2>. DEFINE r == [task[c] EXCEPT !.at = "refused"]
  <2>1. task' = [task EXCEPT ![c] = r] /\ misled' = misled /\ UNCHANGED <<applied, order, entry>>
    BY <1>2 DEF Refuses, Answered
  <2>2. r.at = "refused" /\ r.kind = task[c].kind
    BY <1>0 DEF Fielded
  <2>. HIDE DEF r
  <2>3. Locking(r) <=> c \in Locks
    BY <1>0, <2>2 DEF Locking, Locks
  <2>4. faults = 0 /\ ~ misled => (Locking(r) => busy /\ Locks \subseteq {c}) /\ \A y \in Locks \ {c} : busy
    BY <1>1, <2>3 DEF OneCall
  <2>5. c \notin LocksAt({"ok", "open"})
    BY <1>0 DEF LocksAt
  <2>. QED BY <1>0, <2>1, <2>2, <2>4, <2>5, TaskGoesOn
<1>3. CASE \A tree : ~ Refuses(c, tree)
  <2>1. misled' \in BOOLEAN /\ (~ misled' => ~ misled) /\ Answered(c, TRUE)
    BY <1>0, <1>3, Zenon DEF Serve, Adjust, Undoes, Hires, Applies, Orders
  <2>2. CASE Adjust(c)
    <3>1. Locking(task[c])
      BY <2>2 DEF Adjust, Locking
    <3>2. ASSUME faults' = 0, ~ misled' PROVE faults = 0 /\ ~ misled /\ PlaneOK'
      BY <1>0, <1>1, <1>3, <2>1, <2>2, <3>2, AdjustPlane
    <3>. QED BY <1>0, <2>1, <3>1, <3>2, DropAnswered
  <2>3. CASE Undoes(c)
    <3>1. Locking(task[c])
      BY <2>3 DEF Undoes, Locking
    <3>2. ASSUME faults' = 0, ~ misled' PROVE faults = 0 /\ ~ misled /\ PlaneOK'
      BY <1>0, <1>1, <1>3, <2>1, <2>3, <3>2, UndoPlane
    <3>. QED BY <1>0, <2>1, <3>1, <3>2, DropAnswered
  <2>4. CASE Hires(c)
    <3>1. ~ Locking(task[c])
      BY <2>4 DEF Hires, Locking
    <3>2. ASSUME faults' = 0, ~ misled'
          PROVE  faults = 0 /\ ~ misled /\ PlaneOK' /\ Listing(Lists) /\ Listing(Lists') /\ SameOrder(Lists, Lists')
      <4>1. faults = 0 /\ ~ misled /\ PlaneOK /\ Sendable(task[c], Lists)
        BY <1>0, <1>1, <2>1, <3>2
      <4>2. task[c].changes \in Newcomers
        BY <2>4, <4>1 DEF Hires, Sendable
      <4>. QED BY <1>3, <2>1, <2>4, <3>2, <4>1, <4>2, HirePlane
    <3>. QED BY <1>0, <2>1, <3>1, <3>2, DropHired
  <2>. QED BY <2>2, <2>3, <2>4 DEF Serve
<1>. QED BY <1>2, <1>3

\* An answer, a refusal, an event or a refresh that reads on: what is shown and to be shown stays.
LEMMA DropGoesOn ==
  ASSUME CanvasTypes, DropInv, NEW x \in Tasks,
         (x \in Calls /\ Answer(x)) \/ (x \in Hearings /\ Hear(x)) \/ (task[x].at = "asking" /\ opened /\ ReadWorkspace(x)) \/ ReadCards(x)
  PROVE  DropInv'
<1>0. /\ UNCHANGED <<applied, order, entry, shown, observed>> /\ misled \in BOOLEAN /\ Fielded(task[x])
  BY DEF Answer, Hear, ReadWorkspace, ReadCards, plane, canvas, DropInv, CanvasTypes
<1>1. faults = 0 /\ ~ misled => OneCall
  BY DEF DropInv
<1>2. ~ Locking(Over(x)) /\ ~ Locking([Fresh EXCEPT !.at = Asking]) /\ Over(x).at \in {"new", "done"}
      /\ [Fresh EXCEPT !.at = Asking].at \in {"asking", "open"}
  BY CanvasAssumption DEF Over, Fresh, Locking, Asking
<1>3. CASE Ends(x) /\ task[x].at \in {"refused", "cards"}
  <2>1. task' = [task EXCEPT ![x] = Over(x)]
    BY <1>3 DEF Ends
  <2>2. x \notin LocksAt({"ok", "open"}) /\ task[x].at # "read"
    BY <1>3 DEF LocksAt
  <2>3. ASSUME faults = 0, ~ misled, NEW y \in Locks \ {x} PROVE busy'
    <3>1. busy /\ x \notin Locks
      BY <1>1, <2>3 DEF OneCall
    <3>2. task[x].kind \notin {"adjust", "undo"}
      BY <3>1 DEF Locks, Locking
    <3>. QED BY <1>3, <3>1, <3>2 DEF Ends, Releases
  <2>. QED BY <1>0, <1>2, <2>1, <2>2, <2>3, TaskGoesOn DEF observed
<1>4. CASE \E r : /\ task' = [task EXCEPT ![x] = r] /\ busy' = busy /\ r.kind = task[x].kind /\ r.at = "open"
                  /\ task[x].at \in {"ok", "asking"}
  <2>1. PICK r : /\ task' = [task EXCEPT ![x] = r] /\ busy' = busy /\ r.kind = task[x].kind /\ r.at = "open"
                 /\ task[x].at \in {"ok", "asking"}
    BY <1>4
  <2>2. /\ Locking(r) <=> x \in Locks
        /\ x \in LocksAt({"ok", "open"}) => Locking(r)
    BY <2>1 DEF Locking, Locks, LocksAt
  <2>3. faults = 0 /\ ~ misled => (Locking(r) => busy /\ Locks \subseteq {x}) /\ \A y \in Locks \ {x} : busy
    BY <1>1, <2>2 DEF OneCall
  <2>. QED BY <1>0, <2>1, <2>2, <2>3, TaskGoesOn DEF observed
<1>5. CASE x \in Hearings /\ Hear(x)
  <2>1. task' = [task EXCEPT ![x] = [Fresh EXCEPT !.at = Asking]] /\ busy' = busy /\ task[x].at = "new"
    BY <1>5 DEF Hear, Hears, First
  <2>2. x \notin LocksAt({"ok", "open"})
    BY <2>1 DEF LocksAt
  <2>3. faults = 0 /\ ~ misled => \A y \in Locks \ {x} : busy
    BY <1>1 DEF OneCall
  <2>. QED BY <1>0, <1>2, <2>1, <2>2, <2>3, TaskGoesOn DEF observed
<1>6. CASE x \in Calls /\ Answer(x)
  <2>1. CASE task[x].at = "refused" /\ Ends(x)
    BY <1>3, <2>1
  <2>2. CASE task[x].at = "ok" /\ task' = [task EXCEPT ![x].at = "open", ![x].gesture = None, ![x].changes = << >>] /\ UNCHANGED busy
    <3>. DEFINE r == [task[x] EXCEPT !.at = "open", !.gesture = None, !.changes = << >>]
    <3>1. task' = [task EXCEPT ![x] = r]
      BY <2>2
    <3>2. r.at = "open" /\ r.kind = task[x].kind
      BY <1>0 DEF Fielded
    <3>. HIDE DEF r
    <3>. QED BY <1>4, <2>2, <3>1, <3>2
  <2>. QED BY <1>6, <2>1, <2>2 DEF Answer
<1>7. CASE task[x].at = "asking" /\ opened /\ ReadWorkspace(x)
  <2>. DEFINE r == [task[x] EXCEPT !.at = "open"]
  <2>1. task' = [task EXCEPT ![x] = r] /\ busy' = busy
    BY <1>7 DEF ReadWorkspace, canvas
  <2>2. r.at = "open" /\ r.kind = task[x].kind
    BY <1>0 DEF Fielded
  <2>. HIDE DEF r
  <2>. QED BY <1>4, <1>7, <2>1, <2>2
<1>8. CASE ReadCards(x)
  BY <1>3, <1>8 DEF ReadCards
<1>. QED BY <1>5, <1>6, <1>7, <1>8

\* A snapshot of the control plane is in order with it.
LEMMA DropTree ==
  ASSUME CanvasTypes, DropInv, NEW x \in Tasks, ReadTree(x) \/ (~ opened /\ ReadWorkspace(x))
  PROVE  DropInv'
<1>1. CASE ReadTree(x)
  <2>1. faults = 0 /\ ~ misled => Sound(Lists, Lists)
    <3>. SUFFICES ASSUME PlaneOK PROVE Sound(Lists, Lists)
      BY DEF DropInv
    <3>1. Listing(Lists) /\ Shown(Lists) = DOMAIN applied
          /\ \A key : Plain(ListAt(Lists, key)) /\ Range(ListAt(Lists, key)) = Children(applied, key)
      BY ReconcileIs DEF Lists, PlaneOK
    <3>2. \A key : Range(ListAt(Lists, key)) \subseteq Shown(Lists)
      BY <3>1 DEF Children
    <3>3. SameOrder(Lists, Lists)
      BY <3>1, <3>2, KeptAll DEF SameOrder, Plain
    <3>. QED BY <3>1, <3>3 DEF Sound
  <2>. QED BY <1>1, <2>1, DropReads DEF ReadTree
<1>2. CASE ~ opened /\ ReadWorkspace(x)
  <2>1. Sound(None, Lists)
    BY DEF Sound
  <2>. QED BY <1>2, <2>1, DropReads DEF ReadWorkspace
<1>. QED BY <1>1, <1>2

\* The invariant of the drops is inductive, with that of what is on its way.
LEMMA DropStep == CanvasInv /\ DropInv /\ [Next]_vars => DropInv'
<1>. SUFFICES ASSUME CanvasInv, DropInv, [Next]_vars PROVE DropInv'
  OBVIOUS
<1>0. CanvasTypes /\ faults \in Nat /\ misled \in BOOLEAN
  BY DEF CanvasInv, CanvasTypes, DropInv
<1>1. ASSUME NEW c \in Calls, Drop(c) \/ Dismiss(c) \/ Undo(c) \/ Hire(c) PROVE DropInv'
  BY <1>0, <1>1, DropCalls
<1>2. ASSUME NEW c \in Calls, Serve(c) PROVE DropInv'
  BY <1>0, <1>2, DropServed
<1>3. ASSUME Fault PROVE DropInv'
  BY <1>0, <1>3 DEF Fault, DropInv
<1>4. ASSUME NEW c \in Calls, Answer(c) \/ AnswerLost(c) PROVE DropInv'
  <2>1. c \in Tasks
    BY DEF Tasks
  <2>. QED BY <1>0, <1>3, <1>4, <2>1, DropGoesOn DEF AnswerLost
<1>5. ASSUME NEW x \in Hearings, Hear(x) PROVE DropInv'
  <2>1. x \in Tasks
    BY DEF Tasks
  <2>. QED BY <1>0, <1>5, <2>1, DropGoesOn
<1>6. ASSUME NEW x \in Tasks, Refresh(x) \/ RefreshFails(x) PROVE DropInv'
  <2>1. CASE ReadWorkspace(x)
    BY <1>0, <2>1, DropTree, DropGoesOn DEF ReadWorkspace
  <2>2. CASE ReadTree(x)
    BY <1>0, <2>2, DropTree
  <2>3. CASE ShowTree(x)
    <3>1. CASE faults = 0
      BY <1>0, <2>3, <3>1, DropShows DEF CanvasInv
    <3>2. CASE faults # 0
      BY <2>3, <3>2, <1>0 DEF ShowTree, DropInv
    <3>. QED BY <3>1, <3>2
  <2>4. CASE ReadCards(x)
    BY <1>0, <2>4, DropGoesOn
  <2>5. CASE RefreshFails(x)
    BY <1>3, <2>5 DEF RefreshFails
  <2>. QED BY <1>6, <2>1, <2>2, <2>3, <2>4, <2>5 DEF Refresh
<1>7. ASSUME Open PROVE DropInv'
  <2>1. UNCHANGED <<applied, order, entry, shown, busy, task, misled, overtaken, faults>>
    BY <1>7 DEF Open, canvas, observed
  <2>. QED BY <2>1 DEF DropInv, PlaneOK, OneCall, ShownOK, AnswersOK, SentOK, Locks, LocksAt, Answers, Lists
<1>8. ASSUME EventLost PROVE DropInv'
  BY <1>3, <1>8 DEF EventLost
<1>9. ASSUME UNCHANGED vars PROVE DropInv'
  <2>1. UNCHANGED <<applied, order, entry, shown, busy, task, misled, overtaken, faults>>
    BY <1>9 DEF vars, plane, canvas, observed
  <2>. QED BY <2>1 DEF DropInv, PlaneOK, OneCall, ShownOK, AnswersOK, SentOK, Locks, LocksAt, Answers, Lists
<1>. QED BY <1>1, <1>2, <1>4, <1>5, <1>6, <1>7, <1>8, <1>9 DEF Next

\* Only the control plane answers a call with 200.
LEMMA OnlyServed ==
  ASSUME CanvasTypes, [Next]_vars, NEW c \in Calls, task[c].at = "sent", task'[c].at = "ok"
  PROVE  Serve(c)
<1>0. c \in Tasks /\ \A x \in Tasks : Fielded(task[x])
  BY DEF Tasks, CanvasTypes
<1>1. ASSUME NEW x \in Calls, Drop(x) \/ Dismiss(x) \/ Undo(x) \/ Hire(x) PROVE FALSE
  <2>1. x # c /\ task'[c] = task[c]
    BY <1>0, <1>1 DEF Drop, Dismiss, Undo, Hire, First, Sends, CanvasTypes
  <2>. QED BY <2>1
<1>2. ASSUME NEW x \in Calls, Serve(x), x # c PROVE FALSE
  <2>1. \E ok : Answered(x, ok)
    BY <1>2 DEF Serve, Adjust, Undoes, Hires, Refuses, Applies, Orders
  <2>2. task'[c] = task[c]
    BY <1>0, <1>2, <2>1 DEF Answered, CanvasTypes
  <2>. QED BY <2>2
<1>3. ASSUME NEW x \in Tasks, Ends(x), task[x].at # "sent" PROVE FALSE
  <2>1. task'[c] = task[c]
    BY <1>0, <1>3 DEF Ends, CanvasTypes
  <2>. QED BY <2>1
<1>4. ASSUME NEW x \in Calls, Answer(x) \/ AnswerLost(x) PROVE FALSE
  <2>1. x \in Tasks
    BY DEF Tasks
  <2>2. CASE task[x].at = "ok" /\ task' = [task EXCEPT ![x].at = "open", ![x].gesture = None, ![x].changes = << >>]
    <3>1. task'[c] = task[c]
      BY <1>0, <2>2 DEF CanvasTypes
    <3>. QED BY <3>1
  <2>. QED BY <1>3, <1>4, <2>1, <2>2 DEF Answer, AnswerLost
<1>5. ASSUME NEW x \in Hearings, Hear(x) PROVE FALSE
  <2>1. task[x].at = "new" /\ task' = [task EXCEPT ![x] = [Fresh EXCEPT !.at = Asking]]
    BY <1>5 DEF Hear, Hears, First
  <2>2. task'[c] = task[c]
    BY <1>0, <2>1 DEF CanvasTypes
  <2>. QED BY <2>2
<1>6. ASSUME NEW x \in Tasks, Refresh(x) \/ RefreshFails(x) PROVE FALSE
  <2>1. CASE ReadWorkspace(x) \/ ReadTree(x)
    <3>1. task[x].at # "sent" /\ \E r : task' = [task EXCEPT ![x] = r]
      BY <2>1 DEF ReadWorkspace, ReadTree, Reads
    <3>2. task'[c] = task[c]
      BY <1>0, <3>1 DEF CanvasTypes
    <3>. QED BY <3>2
  <2>2. CASE ShowTree(x)
    <3>1. task'[c] = [task[c] EXCEPT !.after = @ \ {x}, !.late = @ \/ c \in task[x].after]
      BY <1>0, <2>2 DEF ShowTree
    <3>2. task'[c].at = task[c].at
      BY <1>0, <3>1 DEF Fielded
    <3>. QED BY <3>2
  <2>3. CASE ReadCards(x) \/ RefreshFails(x)
    BY <1>3, <2>3 DEF ReadCards, RefreshFails
  <2>. QED BY <1>6, <2>1, <2>2, <2>3 DEF Refresh
<1>7. ASSUME Open \/ EventLost \/ UNCHANGED vars PROVE FALSE
  BY <1>7 DEF Open, EventLost, vars
<1>. QED BY <1>1, <1>2, <1>4, <1>5, <1>6, <1>7 DEF Next

\* A drop that is applied puts what it drags in its place.
LEMMA ServedDrop ==
  ASSUME CanvasTypes, DropInv, NEW c \in Calls, Serve(c), task'[c].at = "ok", task[c].gesture # None,
         proposed = applied, ~ misled, faults = 0
  PROVE  LET g == task[c].gesture IN
         /\ Placed(g, Lists', order)
         /\ \A key : Without(ListAt(Lists', key), g.id) = Without(ListAt(Lists, key), g.id)
<1>. DEFINE g == task[c].gesture
            changes == task[c].changes
            tree == Trees(applied, changes, Owner)[Len(changes)]
<1>0. c \in Tasks /\ task[c].at = "sent" /\ Fielded(task[c])
  BY DEF Serve, Tasks, CanvasTypes
<1>1. PlaneOK /\ Sendable(task[c], Lists)
  BY <1>0 DEF DropInv, SentOK
<1>2. task[c].kind = "adjust" /\ \E S : Listing(S) /\ SameOrder(S, Lists) /\ Asked(S, g, changes)
  BY <1>1 DEF Sendable
<1>3. PICK S : Listing(S) /\ SameOrder(S, Reconcile(applied, order)) /\ Asked(S, g, changes)
  BY <1>2 DEF Lists
<1>4. ~ \E t : Refuses(c, t)
  <2>1. [task EXCEPT ![c].at = "refused"][c].at = "refused"
    BY <1>0 DEF Fielded, CanvasTypes
  <2>. QED BY <2>1 DEF Refuses, Answered
<1>5. Adjust(c)
  BY <1>2 DEF Serve, Undoes, Hires
<1>6. /\ Valid(applied, changes, Owner)
      /\ \/ Structural(changes) = << >> /\ applied' = applied /\ order' = Reordered(order, changes)
         \/ Structural(changes) # << >> /\ applied' = tree /\ order' = Reordered(Reconcile(tree, order), changes)
  <2>. DEFINE undo == IF \E n \in DOMAIN changes : changes[n].op = "delete" THEN None
                      ELSE [inverse |-> InverseMoves(changes), order |-> order]
  <2>1. /\ Valid(proposed, changes, Owner)
        /\ \/ Structural(changes) = << >> /\ Orders(c, Reordered(order, changes), undo)
           \/ Structural(changes) # << >> /\ Applies(c, tree, Reordered(Reconcile(tree, order), changes), undo)
    BY <1>4, <1>5 DEF Adjust
  <2>. QED BY <2>1 DEF Orders, Applies
<1>. HIDE DEF g, changes, tree
<1>7. IsTree(applied) /\ IsOverlay(order) /\ Tidy(order, applied)
  BY <1>1 DEF PlaneOK
<1>8. \/ Structural(changes) = << >> /\ DropDone(applied, order, applied, Reordered(order, changes), g)
      \/ Structural(changes) # << >> /\ DropDone(applied, order, tree, Reordered(Reconcile(tree, order), changes), g)
  <2>1. \A id, p : <<Move(id, p)>> # << >>
    OBVIOUS
  <2>2. \/ Structural(changes) = << >> /\ DropDone(applied, order, applied, Reordered(order, changes), g)
        \/ \E p \in Ids \cup {Root} :
             Structural(changes) = <<Move(g.id, p)>> /\ DropDone(applied, order, tree, Reordered(Reconcile(tree, order), changes), g)
    <3>. USE DEF tree
    <3>. QED BY <1>3, <1>6, <1>7, AdjustDone
  <2>. QED BY <2>1, <2>2, Zenon
<1>9. DropDone(applied, order, applied', order', g)
  BY <1>6, <1>8
<1>. QED BY <1>9 DEF DropDone, Lists, g

\* The invariant of the drops holds for any number of calls, refreshes, positions and hires: a call
\* that locks the canvas and has been answered will show what it made, so that whoever drags in
\* what is shown drags in the order of the tree.
THEOREM DropInvariant == Spec => [](CanvasInv /\ DropInv)
<1>1. Init => CanvasInv /\ DropInv
  BY CanvasInit, DropInit
<1>2. CanvasInv /\ DropInv /\ [Next]_vars => (CanvasInv /\ DropInv)'
  BY CanvasStep, DropStep
<1>. QED BY <1>1, <1>2, PTL DEF Spec

\* A drop that is answered with 200 moves what it drags to where the canvas showed it, and nothing
\* else, for any number of calls and refreshes.
THEOREM DropsMoveTheDragged == Spec => DropMovesTheDragged
<1>1. CanvasInv /\ DropInv /\ [Next]_vars
        => [\A c \in Calls :
              LET g == task[c].gesture IN
              task[c].at = "sent" /\ task'[c].at = "ok" /\ g # None
                /\ proposed = applied /\ ~ misled /\ faults = 0 =>
                  /\ Placed(g, Lists', order)
                  /\ \A key \in DOMAIN Lists \cup DOMAIN Lists' :
                       Without(ListAt(Lists', key), g.id) = Without(ListAt(Lists, key), g.id)]_vars
  BY OnlyServed, ServedDrop DEF CanvasInv
<1>. QED BY <1>1, DropInvariant, PTL DEF Spec, DropMovesTheDragged

-----------------------------------------------------------------------------
(* HireFlow *)

\* The fields of the drawer.
DrawerTypes ==
  drawer = [open |-> drawer.open, phase |-> drawer.phase, draft |-> drawer.draft,
            retryable |-> drawer.retryable, form |-> drawer.form]

\* Whenever a submission is under way its timer runs and it listens, for any number of
\* submissions and whatever was answered before.
THEOREM HireIsWatched == HireSpec => []WaitIsWatched
<1> DEFINE Inv == DrawerTypes /\ WaitIsWatched
<1>1. HireInit => Inv
  BY DEF HireInit, DrawerTypes, WaitIsWatched
<1>2. Inv /\ [HireNext]_hireVars => Inv'
  <2>. SUFFICES ASSUME Inv, [HireNext]_hireVars PROVE Inv'
    OBVIOUS
  <2>. USE DEF DrawerTypes, WaitIsWatched
  <2>1. CASE OpenDrawer \/ FillIn \/ CloseDrawer \/ EditAgain
    BY <2>1 DEF OpenDrawer, FillIn, CloseDrawer, EditAgain
  <2>2. CASE Submit \/ Retry
    BY <2>2 DEF Submit, Retry, Submits
  <2>3. ASSUME NEW n \in Posts, Admit(n) \/ Pass(n) \/ Refuse(n) \/ Unreachable(n) PROVE Inv'
    BY <2>3 DEF Admit, Pass, Refuse, Unreachable
  <2>4. ASSUME NEW n \in Posts, AnswerHire(n) PROVE Inv'
    <3>1. drawer' = IF post[n].outcome = "hired" THEN Concludes(Succeeds(drawer), post[n].retry)
                    ELSE Fails(drawer, post[n].outcome = "retryable")
      BY <2>4 DEF AnswerHire
    <3>. QED BY <3>1 DEF Concludes, Succeeds, Fails
  <2>5. CASE HearProgress
    BY <2>5 DEF HearProgress, Restarts
  <2>6. CASE Stall
    BY <2>6 DEF Stall, Fails
  <2>7. CASE LoseProgress \/ UNCHANGED hireVars
    BY <2>7 DEF LoseProgress, hireVars
  <2>. QED BY <2>1, <2>2, <2>3, <2>4, <2>5, <2>6, <2>7 DEF HireNext
<1>. QED BY <1>1, <1>2, PTL DEF HireSpec

-----------------------------------------------------------------------------
(* SessionMount *)

\* Sessions that are sessions of a position, as the control plane has them in chains.
SessionsOf(chains, sessions, p) ==
  p \in Seats /\ sessions \in Seq(Rooms) /\ ToSet(sessions) \subseteq ToSet(chains[p])

\* The calls that are made for a position.
Positioned == {"list", "ensure", "reload", "mount", "create", "rotate"}

\* A call that asks for sessions is of a position, a rotation of one of its sessions, and what is
\* answered are sessions of that position.
AskIsOf(chains, r) ==
  /\ {"at", "answer"} \subseteq DOMAIN r
  /\ r.what \in Positioned => r.seat \in Seats
  /\ r.what = "rotate" => r.room \in ToSet(chains[r.seat])
  /\ r.what \in Positioned /\ r.at = "answered" => SessionsOf(chains, r.answer, r.seat)
  /\ r.what \in {"create", "mount", "rotate"} /\ r.at = "answered" => r.answer # <<>>

\* The control plane: a session is of one position.
ChainTypes ==
  /\ chain \in [Seats -> Seq(Rooms)]
  /\ \A p, q \in Seats : p # q => ToSet(chain[p]) \cap ToSet(chain[q]) = {}

\* The table of calls.
AskTypes == asks = [i \in Slots |-> asks[i]] /\ \A i \in Slots : AskIsOf(chain, asks[i])

\* What is on the screen is of the selected position.
OnScreen ==
  /\ chosen \in Seats \cup {Nobody} /\ strayed \in BOOLEAN
  /\ listed # <<>> => SessionsOf(chain, listed, chosen)
  /\ mounted = Nobody \/ strayed \/ (chosen \in Seats /\ mounted \in ToSet(chain[chosen]))
  /\ turnsOf = Nobody \/ strayed \/ (chosen \in Seats /\ turnsOf \in ToSet(chain[chosen]))

\* The inductive invariant of SessionMount.
MountInv == ChainTypes /\ AskTypes /\ OnScreen

\* The active session of a list is one of it.
LEMMA ActiveIsListed ==
  ASSUME NEW sessions \in Seq(Rooms), sessions # <<>>
  PROVE  Active(sessions) \in ToSet(sessions) /\ sessions[1] \in ToSet(sessions)
<1>1. Len(sessions) \in Nat /\ Len(sessions) # 0 /\ DOMAIN sessions = 1 .. Len(sessions)
  OBVIOUS
<1>2. Active(sessions) = sessions[Len(sessions)]
  BY DEF Active, Last
<1>. QED BY <1>1, <1>2 DEF ToSet

\* New calls are put in free slots: every slot holds what it held, or one of them.
LEMMA AsksOf ==
  ASSUME NEW chains, NEW table, NEW new,
         \A i \in Slots : AskIsOf(chains, table[i]),
         \A n \in 1 .. Len(new) : AskIsOf(chains, new[n])
  PROVE  /\ WithAsks(table, new) = [i \in Slots |-> WithAsks(table, new)[i]]
         /\ \A i \in Slots : AskIsOf(chains, WithAsks(table, new)[i])
<1>. DEFINE free == FreeInOrder(table)
            at(i) == CHOOSE n \in 1 .. Len(new) : free[n] = i
<1>1. WithAsks(table, new) = [i \in Slots |-> IF \E n \in 1 .. Len(new) : free[n] = i THEN new[at(i)] ELSE table[i]]
  BY DEF WithAsks
<1>2. \A i \in Slots : (\E n \in 1 .. Len(new) : free[n] = i) => at(i) \in 1 .. Len(new)
  OBVIOUS
<1>. HIDE DEF free, at
<1>. QED BY <1>1, <1>2

\* A call that was just made, and a slot that is free.
LEMMA NewAsks ==
  ASSUME NEW chains, NEW what, NEW seat, NEW room,
         what \in Positioned => seat \in Seats,
         what = "rotate" => room \in ToSet(chains[seat])
  PROVE  AskIsOf(chains, Ask(what, seat, room)) /\ AskIsOf(chains, Free)
BY DEF AskIsOf, Ask, Free, Positioned

\* One new call at most, or two.
LEMMA FewAsks ==
  ASSUME NEW chains
  PROVE  /\ \A n \in 1 .. Len(<<>>) : AskIsOf(chains, (<<>>)[n])
         /\ \A r : AskIsOf(chains, r) => \A n \in 1 .. Len(<<r>>) : AskIsOf(chains, <<r>>[n])
         /\ \A r, t : AskIsOf(chains, r) /\ AskIsOf(chains, t) =>
              \A n \in 1 .. Len(<<r>> \o <<t>>) : AskIsOf(chains, (<<r>> \o <<t>>)[n])
         /\ \A r : AskIsOf(chains, r) => \A n \in 1 .. Len(<<>> \o <<r>>) : AskIsOf(chains, (<<>> \o <<r>>)[n])
<1>1. Len(<<>>) = 0
  OBVIOUS
<1>2. \A r : Len(<<r>>) = 1 /\ <<r>>[1] = r
  OBVIOUS
<1>3. \A r, t : Len(<<r>> \o <<t>>) = 2 /\ (<<r>> \o <<t>>)[1] = r /\ (<<r>> \o <<t>>)[2] = t
  <2>. SUFFICES ASSUME NEW r, NEW t
                PROVE  Len(<<r>> \o <<t>>) = 2 /\ (<<r>> \o <<t>>)[1] = r /\ (<<r>> \o <<t>>)[2] = t
    OBVIOUS
  <2>1. <<r>> \in Seq({r, t}) /\ <<t>> \in Seq({r, t})
    OBVIOUS
  <2>. QED BY <2>1, <1>2
<1>4. \A r : Len(<<>> \o <<r>>) = 1 /\ (<<>> \o <<r>>)[1] = r
  <2>. SUFFICES ASSUME NEW r PROVE Len(<<>> \o <<r>>) = 1 /\ (<<>> \o <<r>>)[1] = r
    OBVIOUS
  <2>1. <<r>> \in Seq({r}) /\ <<>> \in Seq({r})
    OBVIOUS
  <2>. QED BY <2>1, <1>2
<1>. QED BY <1>1, <1>2, <1>3, <1>4

\* A session that is added to one position is a session of no other, and those there were stay.
LEMMA ChainGrows ==
  ASSUME MountInv, NEW p \in Seats, NEW r \in Unused, chain' = [chain EXCEPT ![p] = Append(@, r)]
  PROVE  /\ ChainTypes'
         /\ \A q \in Seats : ToSet(chain[q]) \subseteq ToSet(chain'[q])
         /\ r \in ToSet(chain'[p]) /\ r \in Rooms
<1>1. r \in Rooms /\ \A q \in Seats : r \notin ToSet(chain[q])
  BY DEF Unused
<1>2. chain \in [Seats -> Seq(Rooms)]
  BY DEF MountInv, ChainTypes
<1>3. ToSet(Append(chain[p], r)) = ToSet(chain[p]) \cup {r}
  <2>. DEFINE s == chain[p]
  <2>1. s \in Seq(Rooms) /\ Len(s) \in Nat /\ DOMAIN s = 1 .. Len(s)
    BY <1>2
  <2>. HIDE DEF s
  <2>2. /\ Append(s, r) \in Seq(Rooms) /\ Len(Append(s, r)) = Len(s) + 1
        /\ Append(s, r)[Len(s) + 1] = r /\ \A n \in 1 .. Len(s) : Append(s, r)[n] = s[n]
    BY <2>1, <1>1
  <2>3. DOMAIN Append(s, r) = 1 .. Len(s) + 1
    BY <2>2
  <2>4. ToSet(s) = {s[n] : n \in 1 .. Len(s)} /\ ToSet(Append(s, r)) = {Append(s, r)[n] : n \in 1 .. Len(s) + 1}
    BY <2>1, <2>3 DEF ToSet
  <2>5. \A n \in 1 .. Len(s) + 1 : n \in 1 .. Len(s) \/ n = Len(s) + 1
    BY <2>1
  <2>6. ToSet(Append(s, r)) \subseteq ToSet(s) \cup {r}
    BY <2>2, <2>4, <2>5
  <2>7. Len(s) + 1 \in 1 .. Len(s) + 1 /\ \A n \in 1 .. Len(s) : n \in 1 .. Len(s) + 1
    BY <2>1
  <2>8. r \in ToSet(Append(s, r)) /\ ToSet(s) \subseteq ToSet(Append(s, r))
    BY <2>2, <2>4, <2>7
  <2>. QED BY <2>6, <2>8 DEF s
<1>4. \A q \in Seats : ToSet(chain'[q]) = IF q = p THEN ToSet(chain[q]) \cup {r} ELSE ToSet(chain[q])
  BY <1>2, <1>3
<1>5. chain' \in [Seats -> Seq(Rooms)]
  BY <1>1, <1>2
<1>6. ASSUME NEW q \in Seats, NEW t \in Seats, q # t
      PROVE  ToSet(chain'[q]) \cap ToSet(chain'[t]) = {}
  <2>1. ToSet(chain[q]) \cap ToSet(chain[t]) = {} /\ r \notin ToSet(chain[q]) /\ r \notin ToSet(chain[t])
    BY <1>1, <1>6 DEF MountInv, ChainTypes
  <2>2. CASE q = p
    <3>1. ToSet(chain'[q]) = ToSet(chain[q]) \cup {r} /\ ToSet(chain'[t]) = ToSet(chain[t])
      BY <2>2, <1>4, <1>6
    <3>. QED BY <3>1, <2>1
  <2>3. CASE q # p
    <3>1. ToSet(chain'[q]) = ToSet(chain[q]) /\ ToSet(chain'[t]) \subseteq ToSet(chain[t]) \cup {r}
      BY <2>3, <1>4
    <3>. QED BY <3>1, <2>1
  <2>. QED BY <2>2, <2>3
<1>. QED BY <1>1, <1>4, <1>5, <1>6 DEF ChainTypes

\* A list of one session.
LEMMA OneSession ==
  ASSUME NEW chains, NEW p \in Seats, NEW r \in Rooms, r \in ToSet(chains[p])
  PROVE  SessionsOf(chains, <<r>>, p) /\ <<r>> # <<>>
<1>1. <<r>> \in Seq(Rooms) /\ DOMAIN <<r>> = {1} /\ <<r>>[1] = r /\ Len(<<r>>) = 1
  OBVIOUS
<1>. QED BY <1>1 DEF SessionsOf, ToSet

\* What was of a position stays so when sessions are added.
LEMMA StaysOf ==
  ASSUME NEW before, NEW chains, \A q \in Seats : ToSet(before[q]) \subseteq ToSet(chains[q])
  PROVE  /\ \A r : AskIsOf(before, r) => AskIsOf(chains, r)
         /\ \A sessions, q : SessionsOf(before, sessions, q) => SessionsOf(chains, sessions, q)
BY DEF AskIsOf, SessionsOf, Positioned

\* A message that can be sent goes to a session of the selected position, for any number of
\* positions, sessions and calls under way.
THEOREM ConversationOfSelected == MountSpec => []ConversationIsOfSelected
<1>1. MountInit => MountInv
  <2>. SUFFICES ASSUME MountInit PROVE MountInv
    OBVIOUS
  <2>1. \A i \in Slots : AskIsOf(chain, asks[i])
    BY DEF MountInit, AskIsOf, Free, Positioned
  <2>. QED BY <2>1, MountAssumption DEF MountInit, MountInv, ChainTypes, AskTypes, OnScreen
<1>2. MountInv /\ [MountNext]_mountVars => MountInv'
  <2>. SUFFICES ASSUME MountInv, [MountNext]_mountVars PROVE MountInv'
    OBVIOUS
  <2>0. /\ chain \in [Seats -> Seq(Rooms)] /\ ChainTypes
        /\ \A i \in Slots : AskIsOf(chain, asks[i])
        /\ asks = [i \in Slots |-> asks[i]] /\ OnScreen
    BY DEF MountInv, ChainTypes, AskTypes
  <2>1. ASSUME NEW table, NEW new, asks' = WithAsks(table, new), chain' = chain,
               \A i \in Slots : AskIsOf(chain, table[i]),
               \A n \in 1 .. Len(new) : AskIsOf(chain, new[n])
        PROVE  AskTypes' /\ ChainTypes'
    <3>1. /\ WithAsks(table, new) = [i \in Slots |-> WithAsks(table, new)[i]]
          /\ \A i \in Slots : AskIsOf(chain, WithAsks(table, new)[i])
      BY <2>1, AsksOf
    <3>2. asks' = [i \in Slots |-> asks'[i]] /\ \A i \in Slots : AskIsOf(chain', asks'[i])
      BY <2>1, <3>1
    <3>. QED BY <3>2, <2>0, <2>1 DEF AskTypes, ChainTypes
  <2>2. ASSUME NEW i \in Slots, NEW r, AskIsOf(chain, r)
        PROVE  \A j \in Slots : AskIsOf(chain, [asks EXCEPT ![i] = r][j])
    BY <2>0, <2>2
  <2>3. ASSUME NEW i \in Slots, asks' = [asks EXCEPT ![i] = Free], chain' = chain
        PROVE  AskTypes' /\ ChainTypes'
    <3>1. AskIsOf(chain, Free)
      BY DEF AskIsOf, Free, Positioned
    <3>2. asks' = [j \in Slots |-> asks'[j]]
      BY <2>0, <2>3
    <3>. QED BY <3>1, <3>2, <2>0, <2>2, <2>3 DEF AskTypes, ChainTypes
  <2>4. ASSUME NEW seat, NEW room
        PROVE  \A n \in 1 .. Len(History(seat, room)) : AskIsOf(chain, History(seat, room)[n])
    BY NewAsks, FewAsks DEF History, Positioned
  <2>5. ASSUME NEW p \in Seats, p # chosen \/ p = chosen
        PROVE  /\ AskIsOf(chain, Ask("list", p, Nobody)) /\ AskIsOf(chain, Ask("ensure", p, Nobody))
               /\ AskIsOf(chain, Ask("mount", p, Nobody)) /\ AskIsOf(chain, Ask("reload", p, Nobody))
    BY NewAsks
  <2>6. ASSUME NEW p \in Seats, Clears(p) PROVE chain' = chain => OnScreen'
    BY <2>6 DEF Clears, OnScreen
  <2>7. CASE SelectPosition
    <3>1. PICK p \in Seats :
            Clears(p) /\ asks' = WithAsks(asks, IF p = chosen THEN <<>> ELSE <<Ask("list", p, Nobody)>>)
      BY <2>7 DEF SelectPosition
    <3>2. AskTypes' /\ ChainTypes'
      <4>1. chain' = chain
        BY <2>7 DEF SelectPosition
      <4>2. CASE p = chosen
        <5>1. asks' = WithAsks(asks, <<>>)
          BY <3>1, <4>2
        <5>. QED BY <5>1, <4>1, <2>0, <2>1, FewAsks
      <4>3. CASE p # chosen
        <5>1. asks' = WithAsks(asks, <<Ask("list", p, Nobody)>>)
          BY <3>1, <4>3
        <5>. QED BY <5>1, <4>1, <2>0, <2>1, <2>5, FewAsks
      <4>. QED BY <4>2, <4>3
    <3>. QED BY <3>1, <3>2, <2>6, <2>7 DEF SelectPosition, MountInv
  <2>8. CASE OpenConversation
    <3>1. PICK p \in Seats :
            /\ Clears(p)
            /\ asks' = WithAsks(asks, (IF p = chosen THEN <<>> ELSE <<Ask("list", p, Nobody)>>)
                                      \o <<Ask("ensure", p, Nobody)>>)
      BY <2>8 DEF OpenConversation
    <3>2. AskTypes' /\ ChainTypes'
      <4>1. chain' = chain
        BY <2>8 DEF OpenConversation
      <4>2. CASE p = chosen
        <5>1. asks' = WithAsks(asks, <<>> \o <<Ask("ensure", p, Nobody)>>)
          BY <3>1, <4>2
        <5>. QED BY <5>1, <4>1, <2>0, <2>1, <2>5, FewAsks
      <4>3. CASE p # chosen
        <5>1. asks' = WithAsks(asks, <<Ask("list", p, Nobody)>> \o <<Ask("ensure", p, Nobody)>>)
          BY <3>1, <4>3
        <5>. QED BY <5>1, <4>1, <2>0, <2>1, <2>5, FewAsks
      <4>. QED BY <4>2, <4>3
    <3>. QED BY <3>1, <3>2, <2>6, <2>8 DEF OpenConversation, MountInv
  <2>9. CASE SelectSession
    <3>1. PICK room \in ToSet(listed) : mounted' = room /\ asks' = WithAsks(asks, History(chosen, room))
      BY <2>9 DEF SelectSession
    <3>2. AskTypes' /\ ChainTypes'
      BY <3>1, <2>0, <2>1, <2>4, <2>9 DEF SelectSession
    <3>3. listed # <<>>
      BY <3>1 DEF ToSet
    <3>. QED BY <3>1, <3>2, <3>3, <2>0, <2>9 DEF SelectSession, MountInv, OnScreen, SessionsOf
  <2>10. CASE NewSession
    <3>. DEFINE what == IF listed = <<>> THEN "create" ELSE "rotate"
    <3>1. asks' = WithAsks(asks, <<Ask(what, chosen, Active(listed))>>) /\ chosen # Nobody
          /\ UNCHANGED <<chosen, mounted, listed, turnsOf, chain, strayed>>
      BY <2>10 DEF NewSession
    <3>2. chosen \in Seats /\ (what = "rotate" => Active(listed) \in ToSet(chain[chosen]))
      BY <3>1, <2>0, ActiveIsListed DEF OnScreen, SessionsOf
    <3>3. AskIsOf(chain, Ask(what, chosen, Active(listed)))
      <4>. HIDE DEF what
      <4>. QED BY <3>2, NewAsks
    <3>4. AskTypes' /\ ChainTypes'
      <4>. HIDE DEF what
      <4>. QED BY <3>1, <3>3, <2>0, <2>1, FewAsks
    <3>. QED BY <3>1, <3>4, <2>0 DEF MountInv, OnScreen
  <2>11. ASSUME NEW i \in Slots, Handle(i) PROVE MountInv'
    <3>. DEFINE p == asks[i].seat
                what == asks[i].what
    <3>0. /\ asks[i].at = "sent" /\ AskIsOf(chain, asks[i])
          /\ UNCHANGED <<chosen, mounted, listed, turnsOf, sessionBusy, strayed>>
      BY <2>0, <2>11 DEF Handle
    <3>1. ASSUME NEW answer, Responds(i, answer), what \in Positioned, chain' \in [Seats -> Seq(Rooms)], ChainTypes',
                 \A q \in Seats : ToSet(chain[q]) \subseteq ToSet(chain'[q]),
                 SessionsOf(chain', answer, p), what \in {"create", "mount", "rotate"} => answer # <<>>
          PROVE  MountInv'
      <4>. DEFINE r == [asks[i] EXCEPT !.at = "answered", !.answer = answer]
      <4>1. asks' = [asks EXCEPT ![i] = r]
        BY <3>1, <2>0 DEF Responds
      <4>2. asks' = [j \in Slots |-> IF j = i THEN r ELSE asks[j]]
        BY <4>1, <2>0
      <4>3. AskIsOf(chain', asks[i]) /\ p \in Seats
        BY <3>0, <3>1, StaysOf DEF AskIsOf
      <4>4. r.at = "answered" /\ r.answer = answer /\ r.what = what /\ r.seat = p /\ r.room = asks[i].room
              /\ {"at", "answer"} \subseteq DOMAIN r
        BY <3>0 DEF AskIsOf
      <4>. HIDE DEF r
      <4>5. AskIsOf(chain', r)
        BY <4>3, <4>4, <3>1 DEF AskIsOf
      <4>6. \A j \in Slots : AskIsOf(chain', asks[j])
        BY <2>0, <3>1, StaysOf DEF AskIsOf, Positioned
      <4>7. AskTypes'
        BY <4>2, <4>5, <4>6 DEF AskTypes
      <4>8. OnScreen'
        BY <3>0, <3>1, <2>0, StaysOf DEF OnScreen
      <4>. QED BY <3>1, <4>7, <4>8 DEF MountInv
    <3>2. ASSUME NEW r \in Unused, Responds(i, <<r>>), what \in {"create", "mount", "rotate"},
                 chain' = [chain EXCEPT ![p] = Append(@, r)]
          PROVE  MountInv'
      <4>1. p \in Seats
        BY <3>0, <3>2 DEF AskIsOf, Positioned
      <4>2. /\ ChainTypes' /\ r \in ToSet(chain'[p]) /\ r \in Rooms
            /\ \A q \in Seats : ToSet(chain[q]) \subseteq ToSet(chain'[q])
        BY <4>1, <3>2, ChainGrows
      <4>3. SessionsOf(chain', <<r>>, p) /\ <<r>> # <<>>
        BY <4>1, <4>2, OneSession
      <4>. QED BY <3>1, <3>2, <4>2, <4>3 DEF ChainTypes, Positioned
    <3>3. CASE what \in {"list", "ensure", "reload"} /\ Responds(i, chain[p]) /\ UNCHANGED chain
      <4>1. p \in Seats /\ what \in Positioned /\ what \notin {"create", "mount", "rotate"}
        BY <3>0, <3>3 DEF AskIsOf, Positioned
      <4>2. SessionsOf(chain', chain[p], p)
        BY <4>1, <3>3, <2>0 DEF SessionsOf
      <4>. QED BY <3>1, <3>3, <4>1, <4>2, <2>0 DEF ChainTypes
    <3>4. ASSUME NEW r \in Unused, what \in {"create", "mount"}, chain[p] = <<>>,
                 chain' = [chain EXCEPT ![p] = <<r>>], Responds(i, <<r>>)
          PROVE  MountInv'
      <4>1. Append(chain[p], r) = <<r>>
        BY <3>4
      <4>2. p \in Seats
        BY <3>0, <3>4 DEF AskIsOf, Positioned
      <4>3. chain' = [chain EXCEPT ![p] = Append(@, r)]
        BY <4>1, <4>2, <3>4, <2>0
      <4>. QED BY <3>2, <3>4, <4>3
    <3>5. ASSUME NEW r \in Unused, what = "rotate", chain' = [chain EXCEPT ![p] = Append(@, r)],
                 Responds(i, <<r>>)
          PROVE  MountInv'
      BY <3>2, <3>5
    <3>6. ASSUME NEW r \in Successor(asks[i].room), what = "rotate", Responds(i, <<r>>), UNCHANGED chain
          PROVE  MountInv'
      <4>1. p \in Seats /\ asks[i].room \in ToSet(chain[p])
        BY <3>0, <3>6 DEF AskIsOf, Positioned
      <4>0. PICK q \in Seats : \E k \in 1 .. Len(chain[q]) - 1 : chain[q][k] = asks[i].room /\ r = chain[q][k + 1]
        BY <3>6 DEF Successor
      <4>2. PICK k \in 1 .. Len(chain[q]) - 1 : chain[q][k] = asks[i].room /\ r = chain[q][k + 1]
        BY <4>0
      <4>3. chain[q] \in Seq(Rooms) /\ Len(chain[q]) \in Nat
        BY <2>0
      <4>4. k \in 1 .. Len(chain[q]) /\ k + 1 \in 1 .. Len(chain[q]) /\ DOMAIN chain[q] = 1 .. Len(chain[q])
        BY <4>3
      <4>5. asks[i].room \in ToSet(chain[q]) /\ r \in ToSet(chain[q]) /\ r \in Rooms
        BY <4>2, <4>3, <4>4 DEF ToSet
      <4>6. q = p
        BY <4>1, <4>5, <2>0 DEF ChainTypes
      <4>7. SessionsOf(chain', <<r>>, p) /\ <<r>> # <<>>
        BY <4>1, <4>5, <4>6, <3>6, OneSession
      <4>. QED BY <3>1, <3>6, <4>7, <2>0 DEF ChainTypes, Positioned
    <3>. QED BY <2>11, <3>3, <3>4, <3>5, <3>6, Zenon DEF Handle
  <2>12. ASSUME NEW i \in Slots, ListArrives(i) PROVE MountInv'
    <3>. DEFINE answer == asks[i].answer
                next == IF ~ StillSelected(i) THEN mounted
                        ELSE IF mounted \in ToSet(answer) THEN mounted ELSE Active(answer)
                creates == asks[i].what = "ensure" /\ StillSelected(i) /\ next = Nobody
                slot == IF creates THEN Ask("mount", asks[i].seat, Nobody) ELSE Free
                new == IF next = mounted THEN <<>> ELSE History(chosen, next)
    <3>1. /\ asks[i].what \in {"list", "ensure", "reload"} /\ asks[i].at = "answered"
          /\ listed' = (IF StillSelected(i) THEN answer ELSE listed)
          /\ mounted' = next
          /\ turnsOf' = (IF next = Nobody THEN Nobody ELSE turnsOf)
          /\ asks' = WithAsks([asks EXCEPT ![i] = slot], new)
          /\ UNCHANGED <<chosen, chain, strayed>>
      BY <2>12 DEF ListArrives
    <3>2. asks[i].seat \in Seats /\ SessionsOf(chain, answer, asks[i].seat)
      BY <3>1, <2>0 DEF AskIsOf, Positioned
    <3>3. AskIsOf(chain, slot)
      BY <3>2, NewAsks
    <3>4. \A n \in 1 .. Len(new) : AskIsOf(chain, new[n])
      BY <2>4, FewAsks
    <3>5. next = Nobody \/ next = mounted \/ (StillSelected(i) /\ next \in ToSet(answer))
      <4>1. answer \in Seq(Rooms)
        BY <3>2 DEF SessionsOf
      <4>2. answer = <<>> => Active(answer) = Nobody
        BY DEF Active
      <4>. QED BY <4>1, <4>2, ActiveIsListed
    <3>. HIDE DEF answer, next, creates, slot, new
    <3>6. AskTypes' /\ ChainTypes'
      BY <3>1, <3>3, <3>4, <2>1, <2>2
    <3>7. StillSelected(i) => SessionsOf(chain, answer, chosen)
      BY <3>2 DEF StillSelected
    <3>8. OnScreen'
      <4>1. chosen' \in Seats \cup {Nobody} /\ strayed' \in BOOLEAN
        BY <3>1, <2>0 DEF OnScreen
      <4>2. (listed # <<>> => SessionsOf(chain, listed, chosen))'
        BY <3>1, <3>7, <2>0 DEF OnScreen
      <4>3. (mounted = Nobody \/ strayed \/ (chosen \in Seats /\ mounted \in ToSet(chain[chosen])))'
        BY <3>1, <3>5, <3>7, <2>0 DEF OnScreen, SessionsOf
      <4>4. (turnsOf = Nobody \/ strayed \/ (chosen \in Seats /\ turnsOf \in ToSet(chain[chosen])))'
        BY <3>1, <2>0 DEF OnScreen
      <4>. QED BY <4>1, <4>2, <4>3, <4>4 DEF OnScreen
    <3>. QED BY <3>6, <3>8 DEF MountInv
  <2>13. ASSUME NEW i \in Slots, HistoryArrives(i) PROVE MountInv'
    BY <2>0, <2>3, <2>13 DEF HistoryArrives, MountInv, OnScreen
  <2>14. ASSUME NEW i \in Slots, SessionArrives(i) PROVE MountInv'
    <3>. DEFINE answer == asks[i].answer
                new == IF mounted' = mounted THEN <<>> ELSE History(chosen, mounted')
    <3>1. /\ asks[i].what \in {"create", "mount", "rotate"} /\ asks[i].at = "answered"
          /\ mounted' = answer[1]
          /\ turnsOf' = (IF asks[i].what = "rotate" THEN Nobody ELSE turnsOf)
          /\ asks' = WithAsks([asks EXCEPT ![i] = Ask("reload", asks[i].seat, Nobody)], new)
          /\ strayed' = (strayed \/ chosen # asks[i].seat)
          /\ UNCHANGED <<chosen, listed, chain>>
      BY <2>14 DEF SessionArrives
    <3>2. asks[i].seat \in Seats /\ SessionsOf(chain, answer, asks[i].seat) /\ answer # <<>>
      BY <3>1, <2>0 DEF AskIsOf, Positioned
    <3>3. answer[1] \in ToSet(chain[asks[i].seat])
      BY <3>2, ActiveIsListed DEF SessionsOf
    <3>4. \A n \in 1 .. Len(new) : AskIsOf(chain, new[n])
      BY <2>4, FewAsks
    <3>5. AskIsOf(chain, Ask("reload", asks[i].seat, Nobody))
      BY <3>2, NewAsks
    <3>. HIDE DEF answer, new
    <3>6. AskTypes' /\ ChainTypes'
      BY <3>1, <3>4, <3>5, <2>1, <2>2
    <3>7. strayed' \in BOOLEAN /\ (strayed => strayed') /\ (chosen # asks[i].seat => strayed')
      BY <3>1, Zenon
    <3>8. OnScreen'
      BY <3>1, <3>2, <3>3, <3>7, <2>0 DEF OnScreen
    <3>. QED BY <3>6, <3>8 DEF MountInv
  <2>15. ASSUME NEW i \in Slots, Refused(i) PROVE MountInv'
    BY <2>0, <2>3, <2>15 DEF Refused, MountInv, OnScreen
  <2>16. ASSUME NEW i \in Slots, Offline(i) PROVE MountInv'
    BY <2>0, <2>3, <2>16 DEF Offline, MountInv, OnScreen
  <2>17. CASE UNCHANGED mountVars
    BY <2>0, <2>17 DEF mountVars, MountInv, OnScreen, AskTypes, ChainTypes
  <2>. QED BY <2>7, <2>8, <2>9, <2>10, <2>11, <2>12, <2>13, <2>14, <2>15, <2>16, <2>17 DEF MountNext, Arrives
<1>3. MountInv => ConversationIsOfSelected
  <2>. SUFFICES ASSUME MountInv, CanSend
                PROVE  /\ mounted \in ToSet(chain[chosen])
                       /\ turnsOf = Nobody \/ turnsOf \in ToSet(chain[chosen]) \/ strayed
    BY DEF ConversationIsOfSelected
  <2>1. listed # <<>>
    BY DEF CanSend, Active
  <2>2. SessionsOf(chain, listed, chosen)
    BY <2>1 DEF MountInv, OnScreen
  <2>3. mounted \in ToSet(listed)
    BY <2>1, <2>2, ActiveIsListed DEF CanSend, SessionsOf
  <2>. QED BY <2>2, <2>3 DEF MountInv, OnScreen, SessionsOf
<1>. QED BY <1>1, <1>2, <1>3, PTL DEF MountSpec
=============================================================================
