----------------------------- MODULE MCAppUpdate -----------------------------
(***************************************************************************)
(* The desktop app around its window, in one run: the free update channel  *)
(* of macOS with its helper, or the native channel, or the shell from      *)
(* launch to quit, each by itself.                                         *)
(***************************************************************************)
EXTENDS AppUpdate, NativeUpdate, DesktopShell

VARIABLE part      \* "free", "native" or "shell"

MCVars == <<vars, nativeVars, shellVars, part>>

\* What a part begins with is left open in that part alone.
MCInit ==
  /\ Init /\ NativeInit /\ ShellInit
  /\ part \in {"free", "native", "shell"}
  /\ part # "native" => build = [platform |-> "win32", signed |-> TRUE, flag |-> FALSE, loads |-> TRUE]
  /\ part # "shell" => shell.env = Unset /\ recorded = Unset

MCNext ==
  /\ \/ part = "free" /\ Next /\ UNCHANGED <<nativeVars, shellVars>>
     \/ part = "native" /\ NativeNext /\ UNCHANGED <<vars, shellVars>>
     \/ part = "shell" /\ ShellNext /\ UNCHANGED <<vars, nativeVars>>
  /\ UNCHANGED part

\* The fairness of AppUpdate!FairSpec.
MCSpec ==
  /\ MCInit /\ [][MCNext]_MCVars
  /\ \A h \in Calls :
       WF_vars(part = "free" /\ Helps(h) /\ UNCHANGED <<nativeVars, shellVars, part>>)
=============================================================================
