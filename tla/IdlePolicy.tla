----------------------------- MODULE IdlePolicy -----------------------------
(***************************************************************************)
(* What dcman promises about the idle stop (cli.py:146, 391, 729): it is   *)
(* armed only by an invocation that leaves no session behind, is cancelled *)
(* before a session opens, and takes effect only where it is armed and no  *)
(* session is held.  Whoever else stops or replaces the container is a     *)
(* user's command.  Where that closes a shell, the shell's invocation      *)
(* waits for no one: it may arm its idle stop while another command acts,  *)
(* and the promise is weaker for what such an invocation arms.             *)
(***************************************************************************)
CONSTANTS
  Procs,   \* dcman invocations
  NoProc   \* "nothing armed", "no container"

VARIABLES
  armed,   \* whose idle stop is armed
  up,      \* the running container
  held,    \* the invocations whose shell is open, in a session of its own
  acting,  \* the invocation that is in its set-up or exit code, if any
  ejected  \* invocations whose shell was closed under them, and which have not
           \* left it in their turn

vars == <<armed, up, held, acting, ejected>>

\* Nothing is armed that was armed in turn.
Disarmed == armed \in {NoProc} \cup ejected

\* The container goes, and every shell in it: ejected are those that held a
\* session, and any that had lost theirs.
Eject ==
  /\ held' = {}
  /\ ejected' \in SUBSET Procs
  /\ ejected \cup held \subseteq ejected'

Init ==
  /\ armed = NoProc
  /\ up = NoProc
  /\ held = {}
  /\ acting = {}
  /\ ejected = {}

Begin(p) ==
  /\ acting = {}
  /\ acting' = {p}
  /\ UNCHANGED <<armed, up, held, ejected>>

Finish(p) ==
  /\ acting = {p}
  /\ acting' = {}
  /\ UNCHANGED <<armed, up, held, ejected>>

Cancel(p) ==
  /\ acting = {p}
  /\ armed' = NoProc
  /\ UNCHANGED <<up, held, acting, ejected>>

\* A save of the whole state may undo, or redo, what an ejected one has armed.
Rewrite(p) ==
  /\ acting = {p}
  /\ Disarmed /\ Disarmed'
  /\ acting' \in {{}, {p}}
  /\ UNCHANGED <<up, held, ejected>>

\* A container that is created anew takes the shells in the old one along.
BringUp(p) ==
  /\ acting = {p}
  /\ Disarmed
  /\ up' \in Procs
  /\ Eject \/ (up' = up /\ UNCHANGED <<held, ejected>>)
  /\ UNCHANGED <<armed, acting>>

OpenShell(p) ==
  /\ acting = {p}
  /\ Disarmed
  /\ up # NoProc
  /\ held' = held \cup {p}
  /\ acting' = {}
  /\ UNCHANGED <<armed, up, ejected>>

CloseShell(p) ==
  /\ acting = {}
  /\ armed # p
  /\ held' = held \ {p}
  /\ ejected' = ejected \ {p}
  /\ acting' = {p}
  /\ UNCHANGED <<armed, up>>

Arm(p) ==
  /\ acting = {p}
  /\ held = {}
  /\ armed' = p
  /\ acting' = {}
  /\ UNCHANGED <<up, held, ejected>>

\* Out of turn.
ArmEjected(p) ==
  /\ p \in ejected
  /\ armed' = p
  /\ UNCHANGED <<up, held, acting, ejected>>

\* `kill` and `prune`: the sessions of open shells, and the container.
ForgetSessions(p) ==
  /\ acting = {p}
  /\ Disarmed
  /\ held' = {}
  /\ UNCHANGED <<armed, up, acting, ejected>>

Remove(p) ==
  /\ acting = {p}
  /\ up' = NoProc
  /\ Eject
  /\ acting' \in {{}, {p}}
  /\ UNCHANGED armed

\* An ejected one may arm over the token of a worker that is at work.
IdleStop(t) ==
  /\ acting = {}
  /\ armed = t \/ (ejected # {} /\ Disarmed)
  /\ held = {}
  /\ up' = NoProc
  /\ Eject
  /\ UNCHANGED <<armed, acting>>

WorkerEnds(t) ==
  /\ acting = {}
  /\ armed = t \/ Disarmed
  /\ armed' = NoProc
  /\ UNCHANGED <<up, held, acting, ejected>>

\* An invocation is killed, and its shell with it.
Die(p) ==
  /\ held' = held \ {p}
  /\ acting' = acting \ {p}
  /\ ejected' = ejected \/ (armed # p /\ ejected' = ejected \ {p})
  /\ UNCHANGED <<armed, up>>

Next ==
  \E p \in Procs :
    \/ Begin(p) \/ Finish(p) \/ Cancel(p) \/ Rewrite(p) \/ BringUp(p)
    \/ OpenShell(p) \/ CloseShell(p) \/ Arm(p) \/ ArmEjected(p)
    \/ ForgetSessions(p) \/ Remove(p)
    \/ IdleStop(p) \/ WorkerEnds(p) \/ Die(p)

Spec == Init /\ [][Next]_vars

-----------------------------------------------------------------------------
\* Nothing is armed while a session is held: "any explicit command should cancel
\* previous pending idle shutdown" (cli.py:146), and "only arm shutdown when last
\* managed shell exits" (cli.py:391).  An ejected invocation is the exception.
ArmedWhenIdle == Disarmed \/ held = {}
=============================================================================
