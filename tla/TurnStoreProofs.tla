-------------------------- MODULE TurnStoreProofs --------------------------
(***************************************************************************)
(* Proofs about TurnStore for every set of turns, conversations and history*)
(* requests and all values of the bounds.                                  *)
(*                                                                         *)
(* The argument is one invariant.  A key is held exactly by the executors  *)
(* between add and delete (KeysHeld); an executor's phase fixes what the   *)
(* disk shows of its turn (RecordByPhase); hence a history request that has*)
(* seen a record and finds no key is looking at a turn whose executor has  *)
(* ended, and stays right about it however long its write takes, because a *)
(* turn is begun once (ScansMeetEnded).                                    *)
(***************************************************************************)
EXTENDS TurnStore, TLAPS

KeysHeld ==
  \A t \in Turns : t \in active <=> pc[t] \in Holding \cup {"stuck"}

RecordByPhase ==
  \A t \in Turns :
    /\ pc[t] \in {"idle", "admitted", "starting"} => record[t] = "absent"
    /\ pc[t] \in {"started", "executing"} => record[t] = "running"
    /\ pc[t] = "settled" => record[t] \in Outcomes

ScansMeetEnded ==
  \A r \in Readers :
    /\ \A t \in todo[r] : record[t] # "absent"
    /\ scan[r] = "holding" => cur[r] \in Turns /\ record[cur[r]] # "absent"
    /\ scan[r] = "recovering" =>
         /\ cur[r] \in Turns
         /\ record[cur[r]] # "absent"
         /\ pc[cur[r]] \in {"done", "rejected", "gone"}

IInv == TypeOK /\ KeysHeld /\ RecordByPhase /\ ScansMeetEnded

-----------------------------------------------------------------------------

\* The initial state satisfies the inductive invariant.
LEMMA InitIInv == Init => IInv
  BY TurnStoreAssumption
  DEF Init, IInv, TypeOK, KeysHeld, RecordByPhase, ScansMeetEnded, Statuses, Phases,
      Holding, Outcomes, InFlight, Ended

\* Every step of the store and of a history request preserves the types.
LEMMA TypePreserved == TypeOK /\ [Next]_vars => TypeOK'
<1> SUFFICES ASSUME TypeOK, [Next]_vars PROVE TypeOK'
  OBVIOUS
<1> USE TurnStoreAssumption DEF TypeOK, Statuses, Phases, Outcomes, InFlight, Ended
<1>1. ASSUME NEW t \in Turns, Begin(t) PROVE TypeOK'
  BY <1>1 DEF Begin, AssertCapacity, PrepareFails, ClaimKey, WriteRunning, BeginWriteFails,
              BeginReturns, diskVars, readerVars
<1>2. ASSUME NEW t \in Turns, Finish(t) PROVE TypeOK'
  BY <1>2 DEF Finish, WriteTerminal, FinishReturns, FinishFails, diskVars, readerVars
<1>3. ASSUME NEW r \in Readers, History(r) PROVE TypeOK'
  <2>1. ASSUME NEW c \in Conversations, HistoryList(r, c) PROVE TypeOK'
    BY <2>1 DEF HistoryList, Stored, diskVars
  <2>2. ASSUME NEW t \in Turns, HistoryRead(r, t) PROVE TypeOK'
    <3>1. seen[r] + bytes[t] \in 0 .. MaxBytes
      BY <2>2 DEF HistoryRead
    <3> QED BY <2>2, <3>1 DEF HistoryRead, diskVars
  <2>3. CASE HistoryDecide(r)
    BY <2>3 DEF HistoryDecide, diskVars
  <2>4. CASE HistoryRecover(r)
    BY <2>4 DEF HistoryRecover
  <2>5. CASE HistoryEnds(r)
    BY <2>5 DEF HistoryEnds, Rest, diskVars
  <2> QED BY <1>3, <2>1, <2>2, <2>3, <2>4, <2>5 DEF History
<1>4. CASE Restart
  BY <1>4 DEF Restart, diskVars
<1>5. CASE UNCHANGED vars
  BY <1>5 DEF vars
<1> QED BY <1>1, <1>2, <1>3, <1>4, <1>5 DEF Next

\* Keys are held from add to delete and lost with the process: no path of begin or finish
\* leaves one behind except a finish that throws, which "stuck" records.
LEMMA KeysPreserved == IInv /\ [Next]_vars => KeysHeld'
<1> SUFFICES ASSUME IInv, [Next]_vars PROVE KeysHeld'
  OBVIOUS
<1> USE DEF IInv, TypeOK, KeysHeld, Holding
<1>1. ASSUME NEW t \in Turns, Begin(t) PROVE KeysHeld'
  BY <1>1 DEF Begin, AssertCapacity, PrepareFails, ClaimKey, WriteRunning, BeginWriteFails,
              BeginReturns
<1>2. ASSUME NEW t \in Turns, Finish(t) PROVE KeysHeld'
  BY <1>2 DEF Finish, WriteTerminal, FinishReturns, FinishFails
<1>3. ASSUME NEW r \in Readers, History(r) PROVE KeysHeld'
  BY <1>3 DEF History, HistoryList, HistoryRead, HistoryDecide, HistoryRecover, HistoryEnds
<1>4. CASE Restart
  BY <1>4 DEF Restart, InFlight
<1>5. CASE UNCHANGED vars
  BY <1>5 DEF vars
<1> QED BY <1>1, <1>2, <1>3, <1>4, <1>5 DEF Next

\* An executor's phase determines the record of its turn: a recovery cannot disturb it,
\* because the turn it recovers has ended.
LEMMA RecordsPreserved == IInv /\ [Next]_vars => RecordByPhase'
<1> SUFFICES ASSUME IInv, [Next]_vars PROVE RecordByPhase'
  OBVIOUS
<1> USE DEF IInv, TypeOK, RecordByPhase
<1>1. ASSUME NEW t \in Turns, Begin(t) PROVE RecordByPhase'
  BY <1>1 DEF Begin, AssertCapacity, PrepareFails, ClaimKey, WriteRunning, BeginWriteFails,
              BeginReturns, diskVars
<1>2. ASSUME NEW t \in Turns, Finish(t) PROVE RecordByPhase'
  BY <1>2 DEF Finish, WriteTerminal, FinishReturns, FinishFails, diskVars
<1>3. ASSUME NEW r \in Readers, History(r) PROVE RecordByPhase'
  <2>1. CASE HistoryRecover(r)
    BY <2>1 DEF HistoryRecover, ScansMeetEnded
  <2>2. CASE ~ HistoryRecover(r)
    BY <1>3, <2>2 DEF History, HistoryList, HistoryRead, HistoryDecide, HistoryEnds, diskVars
  <2> QED BY <2>1, <2>2
<1>4. CASE Restart
  BY <1>4 DEF Restart, InFlight, diskVars
<1>5. CASE UNCHANGED vars
  BY <1>5 DEF vars
<1> QED BY <1>1, <1>2, <1>3, <1>4, <1>5 DEF Next

\* What a history request holds stays true of it while other requests run: a record that
\* exists never disappears, and a turn that has ended never begins again.
LEMMA ScansPreserved == IInv /\ [Next]_vars => ScansMeetEnded'
<1> SUFFICES ASSUME IInv, [Next]_vars PROVE ScansMeetEnded'
  OBVIOUS
<1> USE DEF IInv, TypeOK, ScansMeetEnded
<1>1. ASSUME NEW t \in Turns, Begin(t) PROVE ScansMeetEnded'
  BY <1>1 DEF Begin, AssertCapacity, PrepareFails, ClaimKey, WriteRunning, BeginWriteFails,
              BeginReturns, diskVars, readerVars
<1>2. ASSUME NEW t \in Turns, Finish(t) PROVE ScansMeetEnded'
  BY <1>2 DEF Finish, WriteTerminal, FinishReturns, FinishFails, diskVars, readerVars, Outcomes
<1>3. ASSUME NEW r \in Readers, History(r) PROVE ScansMeetEnded'
  <2>1. ASSUME NEW c \in Conversations, HistoryList(r, c) PROVE ScansMeetEnded'
    BY <2>1 DEF HistoryList, Stored, diskVars
  <2>2. ASSUME NEW t \in Turns, HistoryRead(r, t) PROVE ScansMeetEnded'
    BY <2>2 DEF HistoryRead, diskVars
  <2>3. CASE HistoryDecide(r)
    BY <2>3 DEF HistoryDecide, KeysHeld, RecordByPhase, Phases, InFlight, Ended, Holding, diskVars
  <2>4. CASE HistoryRecover(r)
    BY <2>4 DEF HistoryRecover
  <2>5. CASE HistoryEnds(r)
    BY <2>5 DEF HistoryEnds, Rest, diskVars
  <2> QED BY <1>3, <2>1, <2>2, <2>3, <2>4, <2>5 DEF History
<1>4. CASE Restart
  BY <1>4 DEF Restart
<1>5. CASE UNCHANGED vars
  BY <1>5 DEF vars
<1> QED BY <1>1, <1>2, <1>3, <1>4, <1>5 DEF Next

\* The inductive invariant holds in every reachable state.
THEOREM Invariance == Spec => []IInv
<1>1. IInv /\ [Next]_vars => IInv'
  BY TypePreserved, KeysPreserved, RecordsPreserved, ScansPreserved DEF IInv
<1> QED BY InitIInv, <1>1, PTL DEF Spec

\* Type correctness, for every instance.
THEOREM TypeCorrect == Spec => []TypeOK
BY Invariance, PTL DEF IInv

\* While an engine runs, its turn is running on disk and claimed in memory.
THEOREM OwnedWhileExecutingHolds == Spec => []OwnedWhileExecuting
<1>1. IInv => OwnedWhileExecuting
  BY DEF IInv, KeysHeld, RecordByPhase, OwnedWhileExecuting, Holding
<1> QED BY Invariance, <1>1, PTL

\* A key without an executor is the mark of a finish that could not persist.
THEOREM LeakOnlyAfterFailedFinishHolds == Spec => []LeakOnlyAfterFailedFinish
<1>1. IInv => LeakOnlyAfterFailedFinish
  BY DEF IInv, TypeOK, KeysHeld, LeakOnlyAfterFailedFinish
<1> QED BY Invariance, <1>1, PTL

\* No scan, however it interleaves with begin and finish, interrupts a live turn.
THEOREM LiveTurnNotInterruptedHolds == Spec => LiveTurnNotInterrupted
<1> DEFINE Step == \A t \in Turns :
              record[t] # "interrupted" /\ record'[t] = "interrupted"
                => pc[t] \in {"done", "rejected", "gone"}
<1>1. ASSUME IInv, Next PROVE Step
  <2> USE <1>1 DEF IInv, TypeOK
  <2>1. ASSUME NEW u \in Turns, Begin(u) PROVE Step
    BY <2>1 DEF Begin, AssertCapacity, PrepareFails, ClaimKey, WriteRunning, BeginWriteFails,
                BeginReturns, diskVars
  <2>2. ASSUME NEW u \in Turns, Finish(u) PROVE Step
    BY <2>2 DEF Finish, WriteTerminal, FinishReturns, FinishFails, diskVars, Outcomes
  <2>3. ASSUME NEW r \in Readers, History(r) PROVE Step
    BY <2>3 DEF History, HistoryList, HistoryRead, HistoryDecide, HistoryRecover, HistoryEnds,
                diskVars, ScansMeetEnded
  <2>4. CASE Restart
    BY <2>4 DEF Restart, diskVars
  <2> QED BY <1>1, <2>1, <2>2, <2>3, <2>4 DEF Next
<1>2. IInv /\ [Next]_vars => [Step]_vars
  BY <1>1
<1> QED BY Invariance, <1>2, PTL DEF Spec, LiveTurnNotInterrupted

-----------------------------------------------------------------------------

\* The detailed store implements the abstract ledger: claims are keys.
THEOREM LedgerImplemented == Spec => ImplementsLedger
<1>1. Init => Ledger!LedgerInit
  BY DEF Init, Ledger!LedgerInit
<1>2. ASSUME IInv, [Next]_vars PROVE [Ledger!LedgerNext]_(Ledger!ledgerVars)
  <2> USE <1>2 DEF IInv, TypeOK, Ledger!LedgerNext, Ledger!ledgerVars
  <2>1. ASSUME NEW t \in Turns, Begin(t) PROVE [Ledger!LedgerNext]_(Ledger!ledgerVars)
    <3>1. CASE ClaimKey(t)
      BY <3>1 DEF ClaimKey, diskVars, KeysHeld, RecordByPhase, Holding, Ledger!Claim
    <3>2. CASE WriteRunning(t)
      BY <3>2 DEF WriteRunning, KeysHeld, RecordByPhase, Holding, Ledger!Start
    <3>3. CASE BeginWriteFails(t)
      BY <3>3 DEF BeginWriteFails, diskVars, KeysHeld, Holding, Ledger!Release
    <3>4. CASE AssertCapacity(t) \/ PrepareFails(t) \/ BeginReturns(t)
      BY <3>4 DEF AssertCapacity, PrepareFails, BeginReturns, diskVars
    <3> QED BY <2>1, <3>1, <3>2, <3>3, <3>4 DEF Begin
  <2>2. ASSUME NEW t \in Turns, Finish(t) PROVE [Ledger!LedgerNext]_(Ledger!ledgerVars)
    <3>1. CASE WriteTerminal(t)
      BY <3>1 DEF WriteTerminal, KeysHeld, RecordByPhase, Holding, Outcomes,
                  Ledger!Settle, Ledger!Outcomes
    <3>2. CASE FinishReturns(t)
      BY <3>2 DEF FinishReturns, diskVars, KeysHeld, Holding, Ledger!Release
    <3>3. CASE FinishFails(t)
      BY <3>3 DEF FinishFails, diskVars
    <3> QED BY <2>2, <3>1, <3>2, <3>3 DEF Finish
  <2>3. ASSUME NEW r \in Readers, History(r) PROVE [Ledger!LedgerNext]_(Ledger!ledgerVars)
    <3>1. CASE HistoryRecover(r)
      <4>1. cur[r] \notin active
        BY <3>1 DEF HistoryRecover, ScansMeetEnded, KeysHeld, Holding
      <4> QED BY <3>1, <4>1 DEF HistoryRecover, ScansMeetEnded, Ledger!Interrupt
    <3>2. CASE ~ HistoryRecover(r)
      BY <2>3, <3>2 DEF History, HistoryList, HistoryRead, HistoryDecide, HistoryEnds, diskVars
    <3> QED BY <3>1, <3>2
  <2>4. CASE Restart
    BY <2>4 DEF Restart, diskVars, Ledger!Forget
  <2>5. CASE UNCHANGED vars
    BY <2>5 DEF vars
  <2> QED BY <2>1, <2>2, <2>3, <2>4, <2>5 DEF Next
<1> QED BY Invariance, <1>1, <1>2, PTL DEF Spec, ImplementsLedger, Ledger!LedgerSpec
=============================================================================
