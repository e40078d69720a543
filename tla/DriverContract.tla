--------------------------- MODULE DriverContract ---------------------------
(***************************************************************************)
(* What executeTurn relies on when it calls the engine driver's turnRun:   *)
(* the promise resolves once, a terminal counts only if the run was not    *)
(* stopped, and an abort that found the run unresolved decides its result. *)
(***************************************************************************)

CONSTANT Runs

VARIABLE run      \* where each engine run is, or what its promise resolved to

Trusted == {"completed", "failed"}
Results == Trusted \cup {"cancelled", "indeterminate"}
RunStates == {"idle", "open", "aborted", "gone"} \cup Results

ContractInit == run = [r \in Runs |-> "idle"]

Open(r) == run[r] = "idle" /\ run' = [run EXCEPT ![r] = "open"]

\* The hook registered through setAbort; once resolved it does nothing.
Abort(r) == run[r] = "open" /\ run' = [run EXCEPT ![r] = "aborted"]

Resolve(r) ==
  \/ run[r] = "open" /\ \E o \in Results \ {"cancelled"} : run' = [run EXCEPT ![r] = o]
  \/ run[r] = "aborted" /\ run' = [run EXCEPT ![r] = "cancelled"]

\* The control plane dies with the promise.
Forget == run' = [r \in Runs |-> IF run[r] \in {"open", "aborted"} THEN "gone" ELSE run[r]]

ContractNext == (\E r \in Runs : Open(r) \/ Abort(r) \/ Resolve(r)) \/ Forget

ContractSpec == ContractInit /\ [][ContractNext]_run
=============================================================================
