----------------------------- MODULE TinyShell -----------------------------
(***************************************************************************)
(* The tiny shell of src/tshlab/tsh.c: main's read/eval loop, the job      *)
(* control builtins, the signal handlers, and the child processes and the  *)
(* signals between them as the kernel provides them.                       *)
(*                                                                         *)
(* The main program advances one step per access to what the handlers      *)
(* share with it (job_list, the signal mask).  A signal handler may run    *)
(* between any two of these steps, and another handler may interrupt it:   *)
(* Signal installs them with an empty sa_mask.                             *)
(*                                                                         *)
(* A definition Name_Variant is a wrong form of Name that no action uses:  *)
(* PROJECT.json names the property that tells the two apart.               *)
(***************************************************************************)
EXTENDS JobList, Sequences

CONSTANTS JobCommands,   \* builtins the user may issue: subset of {FG, BG}
          UserSignals,   \* signals sent to the shell, besides SIGCHLD
          ForkMayFail    \* whether fork may return -1

ASSUME TinyShellAssumption ==
          /\ JobCommands \subseteq {"FG", "BG"}
          /\ UserSignals \subseteq {"INT", "TSTP", "QUIT"}
          /\ ForkMayFail \in BOOLEAN

VARIABLES
  pc,        \* where the main program is
  cur,       \* eval's or perform_job's local variables
  blocked,   \* are SIGCHLD, SIGINT and SIGTSTP in the shell's signal mask?
  pending,   \* signals sent to the shell and not delivered yet
  frames,    \* stack of the handlers that are running, innermost first
  proc,      \* the children: life-cycle state and pending signals
  untracked  \* history: the children addjob had no entry for

shellVars == <<pc, cur, blocked>>
signalVars == <<pending, frames>>
childVars == <<proc, untracked>>
vars == <<jobVars, shellVars, signalVars, childVars>>

-----------------------------------------------------------------------------
Handled == {"CHLD", "INT", "TSTP"}

NoCommand == [pid |-> 0, slot |-> 0, state |-> UNDEF, builtin |-> FALSE]

(* none: not a child (never forked, or reaped).  forked: a copy of the     *)
(* shell, still in the shell's process group.  ownpg: the copy after       *)
(* setpgid.  running: after execve.  stopnew: stopped and not yet reported *)
(* by waitpid.  waking: continued, the parent's SIGCHLD for it not sent.   *)
Life == {"none", "forked", "ownpg", "running", "stopnew", "stopped",
         "waking", "zombie"}

(* A child has pending signals and, up to execve, its own copy of the job  *)
(* list, of which nothing but fgpid is ever read.                          *)
Process == [st : Life, sig : SUBSET {"INT", "TSTP", "QUIT"}, fg : Pids \cup {0}]

NoProcess == [st |-> "none", sig |-> {}, fg |-> 0]

Free == {p \in Pids : proc[p].st = "none"}

Alive == pc \notin {"exited", "crashed"}

Init == /\ TableInit
        /\ pc = "prompt"
        /\ cur = NoCommand
        /\ blocked = FALSE
        /\ pending = {}
        /\ frames = <<>>
        /\ proc = [p \in Pids |-> NoProcess]
        /\ untracked = {}

-----------------------------------------------------------------------------
(* The main program.                                                       *)
At(label) == pc = label /\ frames = <<>>

Return == pc' = "prompt" /\ cur' = NoCommand

(* eval of a command that is not a builtin, to be run in state s: the      *)
(* three signals are blocked before fork.                                  *)
RunCommand_Unblocked(s) ==
  /\ At("prompt")
  /\ nextjid <= MaxJid
  /\ ForkMayFail \/ Free # {}
  /\ pc' = "fork"
  /\ cur' = [NoCommand EXCEPT !.state = s]
  /\ UNCHANGED <<jobVars, blocked, signalVars, childVars>>

RunCommand(s) ==
  /\ At("prompt")
  /\ nextjid <= MaxJid
  /\ ForkMayFail \/ Free # {}
  /\ pc' = "fork"
  /\ cur' = [NoCommand EXCEPT !.state = s]
  /\ blocked' = TRUE
  /\ UNCHANGED <<jobVars, signalVars, childVars>>

Fork(p) ==
  /\ At("fork")
  /\ p \in Free
  /\ proc' = [proc EXCEPT ![p] = [st |-> "forked", sig |-> {},
                                  fg |-> fgpid(job_list)]]
  /\ pc' = "addjob"
  /\ cur' = [cur EXCEPT !.pid = p]
  /\ UNCHANGED <<jobVars, blocked, signalVars, untracked>>

(* The error return does not unblock the signals.                          *)
ForkFails ==
  /\ At("fork")
  /\ ForkMayFail
  /\ Return
  /\ UNCHANGED <<jobVars, blocked, signalVars, childVars>>

AddJob_NoWait ==
  /\ At("addjob")
  /\ addjob(cur.pid, cur.state)
  /\ pc' = "unblock"
  /\ UNCHANGED <<cur, blocked, signalVars, childVars>>

AddJob_UnblocksFirst ==
  /\ At("addjob")
  /\ addjob(cur.pid, cur.state)
  /\ pc' = IF cur.state = FG THEN "wait" ELSE "unblock"
  /\ blocked' = FALSE
  /\ UNCHANGED <<cur, signalVars, childVars>>

AddJob ==
  /\ At("addjob")
  /\ addjob(cur.pid, cur.state)
  /\ pc' = IF cur.state = FG THEN "wait" ELSE "unblock"
  /\ UNCHANGED <<cur, blocked, signalVars, childVars>>

(* Nor does this one, and the child runs on without an entry.              *)
AddJobFails ==
  /\ At("addjob")
  /\ Full
  /\ untracked' = untracked \cup {cur.pid}
  /\ Return
  /\ UNCHANGED <<jobVars, blocked, signalVars, proc>>

Unblock ==
  /\ At("unblock")
  /\ blocked' = FALSE
  /\ Return
  /\ UNCHANGED <<jobVars, signalVars, childVars>>

(* The loop of wait_foregroundjob: a test of its condition, and the call   *)
(* of sigsuspend, which Finish leaves when a handler has run.              *)
WaitTest ==
  /\ At("wait")
  /\ \/ /\ fgpid(job_list) = cur.pid
        /\ pc' = "sleep"
        /\ UNCHANGED cur
     \/ /\ fgpid(job_list) # cur.pid
        /\ IF cur.builtin THEN Return ELSE pc' = "unblock" /\ UNCHANGED cur
  /\ UNCHANGED <<jobVars, blocked, signalVars, childVars>>

Suspend ==
  /\ At("sleep")
  /\ pc' = "suspend"
  /\ UNCHANGED <<jobVars, cur, blocked, signalVars, childVars>>

(* perform_job(id, s) up to the pointer job.  With a job ID the pointer    *)
(* comes first and the process ID is read through it in a step of its own; *)
(* a null pointer, or no argument at all, is dereferenced.                 *)
Crash == pc' = "crashed" /\ UNCHANGED cur

JobById(s, j) ==
  LET i == getjobjid(job_list, j)
  IN  /\ At("prompt")
      /\ \/ i = 0 /\ Crash
         \/ /\ i # 0
            /\ pc' = "read_pid"
            /\ cur' = [pid |-> 0, slot |-> i, state |-> s, builtin |-> TRUE]
      /\ UNCHANGED <<jobVars, blocked, signalVars, childVars>>

ReadPid ==
  /\ At("read_pid")
  /\ cur' = [cur EXCEPT !.pid = job_list[cur.slot].pid]
  /\ pc' = "set_state"
  /\ UNCHANGED <<jobVars, blocked, signalVars, childVars>>

JobByPid(s, p) ==
  LET i == getjobpid(job_list, p)
  IN  /\ At("prompt")
      /\ \/ i = 0 /\ Crash
         \/ /\ i # 0
            /\ pc' = "set_state"
            /\ cur' = [pid |-> p, slot |-> i, state |-> s, builtin |-> TRUE]
      /\ UNCHANGED <<jobVars, blocked, signalVars, childVars>>

NoArgument ==
  /\ At("prompt")
  /\ Crash
  /\ UNCHANGED <<jobVars, blocked, signalVars, childVars>>

SetState ==
  /\ At("set_state")
  /\ job_list' = [job_list EXCEPT ![cur.slot].state = cur.state]
  /\ pc' = "continue"
  /\ UNCHANGED <<nextjid, cur, blocked, signalVars, childVars>>

(* kill(pid, SIGCONT), and its effect in the kernel: a stopped process     *)
(* goes on, and any process forgets a pending SIGTSTP.  For pid = 0 the    *)
(* signal goes to the shell's own group, where nothing is stopped.         *)
Continued(q) ==
  [q EXCEPT !.st = IF @ \in {"stopnew", "stopped"} THEN "waking" ELSE @,
            !.sig = @ \ {"TSTP"}]

Continue ==
  /\ At("continue")
  /\ proc' = IF cur.pid = 0
             THEN proc
             ELSE [proc EXCEPT ![cur.pid] = Continued(@)]
  /\ IF cur.state = FG THEN pc' = "wait" /\ UNCHANGED cur ELSE Return
  /\ UNCHANGED <<jobVars, blocked, signalVars, untracked>>

(* The quit builtin, or end of file on standard input.                     *)
Quit ==
  /\ At("prompt")
  /\ pc' = "exited"
  /\ UNCHANGED <<jobVars, cur, blocked, signalVars, childVars>>

-----------------------------------------------------------------------------
(* Delivery of signals to the shell.  sigsuspend admits the three handled  *)
(* signals and holds every other one back.                                 *)
Running(s) == \E k \in DOMAIN frames : frames[k].sig = s

Deliver_HoldsInt(s) ==
  /\ s \in pending
  /\ blocked => pc = "suspend" /\ s # "INT"
  /\ ~Running(s)
  /\ pending' = pending \ {s}
  /\ frames' = <<[sig |-> s, read |-> FALSE, pid |-> 0]>> \o frames
  /\ UNCHANGED <<jobVars, shellVars, childVars>>

Deliver(s) ==
  /\ s \in pending
  /\ blocked => pc = "suspend"
  /\ ~Running(s)
  /\ pending' = pending \ {s}
  /\ frames' = <<[sig |-> s, read |-> FALSE, pid |-> 0]>> \o frames
  /\ UNCHANGED <<jobVars, shellVars, childVars>>

(* sigquit_handler calls exit.                                             *)
QuitDelivered ==
  /\ "QUIT" \in pending
  /\ pc # "suspend"
  /\ pending' = pending \ {"QUIT"}
  /\ pc' = "exited"
  /\ UNCHANGED <<jobVars, cur, blocked, frames, childVars>>

(* The innermost handler returns; the last one ends the call of sigsuspend *)
(* it came in through.                                                     *)
Finish_WaitsOnce ==
  /\ frames' = Tail(frames)
  /\ pc' = IF pc = "suspend" /\ Tail(frames) = <<>> THEN "unblock" ELSE pc

Finish == /\ frames' = Tail(frames)
          /\ pc' = IF pc = "suspend" /\ Tail(frames) = <<>> THEN "wait" ELSE pc

InHandler(s) == frames # <<>> /\ Head(frames).sig = s

-----------------------------------------------------------------------------
(* sigchld_handler: one round of its loop, for a child waitpid reports.    *)
ReapDead_OnlyOne(p) ==
  /\ InHandler("CHLD")
  /\ proc[p].st = "zombie"
  /\ deletejob(p)
  /\ proc' = [proc EXCEPT ![p] = NoProcess]
  /\ untracked' = untracked \ {p}
  /\ Finish
  /\ UNCHANGED <<cur, blocked, pending>>

ReapDead(p) ==
  /\ InHandler("CHLD")
  /\ proc[p].st = "zombie"
  /\ deletejob(p)
  /\ proc' = [proc EXCEPT ![p] = NoProcess]
  /\ untracked' = untracked \ {p}
  /\ UNCHANGED <<shellVars, signalVars>>

(* A child without an entry makes getjobpid return the null pointer that   *)
(* is dereferenced.                                                        *)
ReportStop_Deletes(p) ==
  /\ InHandler("CHLD")
  /\ proc[p].st = "stopnew"
  /\ proc' = [proc EXCEPT ![p].st = "stopped"]
  /\ deletejob(p)
  /\ UNCHANGED <<shellVars, signalVars, untracked>>

ReportStop_Ignores(p) ==
  /\ InHandler("CHLD")
  /\ proc[p].st = "stopnew"
  /\ proc' = [proc EXCEPT ![p].st = "stopped"]
  /\ UNCHANGED <<jobVars, shellVars, signalVars, untracked>>

ReportStop(p) ==
  LET i == getjobpid(job_list, p)
  IN  /\ InHandler("CHLD")
      /\ proc[p].st = "stopnew"
      /\ proc' = [proc EXCEPT ![p].st = "stopped"]
      /\ \/ /\ i = 0
            /\ Crash
            /\ UNCHANGED job_list
         \/ /\ i # 0
            /\ job_list' = [job_list EXCEPT ![i].state = ST]
            /\ UNCHANGED <<pc, cur>>
      /\ UNCHANGED <<nextjid, blocked, signalVars, untracked>>

(* waitpid reports nothing: the loop ends.                                 *)
NothingToReap ==
  /\ InHandler("CHLD")
  /\ \A p \in Pids : proc[p].st \notin {"zombie", "stopnew"}
  /\ Finish
  /\ UNCHANGED <<jobVars, cur, blocked, pending, childVars>>

(* sigint_handler and sigtstp_handler: read the foreground job, then send  *)
(* the signal to its process group.                                        *)
ReadForeground(s) ==
  /\ InHandler(s)
  /\ ~Head(frames).read
  /\ frames' = <<[Head(frames) EXCEPT !.read = TRUE, !.pid = fgpid(job_list)]>>
                 \o Tail(frames)
  /\ UNCHANGED <<jobVars, shellVars, pending, childVars>>

(* kill(-p, s) in the kernel: there is no group p until the child has      *)
(* called setpgid, and SIGTSTP does nothing to a process that is stopped.  *)
Signalled(q, s) ==
  IF \/ q.st \in {"none", "forked", "zombie"}
     \/ s = "TSTP" /\ q.st \in {"stopnew", "stopped"}
  THEN q
  ELSE [q EXCEPT !.sig = @ \cup {s}]

Forward(s) ==
  LET f == Head(frames)
  IN  /\ InHandler(s)
      /\ f.read
      /\ proc' = IF f.pid = 0
                 THEN proc
                 ELSE [proc EXCEPT ![f.pid] = Signalled(@, s)]
      /\ Finish
      /\ UNCHANGED <<jobVars, cur, blocked, pending, untracked>>

-----------------------------------------------------------------------------
(* The children.                                                           *)
ChildOnly == UNCHANGED <<jobVars, shellVars, frames, untracked>>

Becomes(p, st, sig) ==
  /\ proc' = [proc EXCEPT ![p] = [st |-> st, sig |-> sig, fg |-> 0]]
  /\ ChildOnly

Silently == UNCHANGED pending

TellParent == pending' = pending \cup {"CHLD"}

Setpgid(p) ==
  /\ proc[p].st = "forked"
  /\ proc' = [proc EXCEPT ![p].st = "ownpg"]
  /\ ChildOnly
  /\ Silently

(* Until execve the child still has the shell's handlers.  sigint_handler  *)
(* and sigtstp_handler read the child's copy of the job list, which shows  *)
(* the jobs as they were at the fork and which nothing changes; sigquit_   *)
(* handler makes the child exit.                                           *)
BeforeExec(p) == proc[p].st \in {"forked", "ownpg"}

InheritedHandler(p, s) ==
  LET fg == proc[p].fg
      handled == [proc EXCEPT ![p].sig = @ \ {s}]
  IN  /\ BeforeExec(p)
      /\ s \in proc[p].sig
      /\ proc' = IF fg = 0
                 THEN handled
                 ELSE [handled EXCEPT ![fg] = Signalled(@, s)]
      /\ ChildOnly
      /\ Silently

InheritedQuit(p) ==
  /\ BeforeExec(p)
  /\ "QUIT" \in proc[p].sig
  /\ Becomes(p, "zombie", {})
  /\ TellParent

Exec(p) ==
  /\ proc[p].st = "ownpg"
  /\ proc[p].sig = {}
  /\ Becomes(p, "running", {})
  /\ Silently

ExecFails(p) ==
  proc[p].st = "ownpg" /\ Becomes(p, "zombie", {}) /\ TellParent

(* The program exits, or somebody kills it.                                *)
Dies(p) ==
  /\ proc[p].st \in {"running", "stopnew", "stopped"}
  /\ Becomes(p, "zombie", {})
  /\ TellParent

(* The program stops itself, or somebody stops it.                         *)
Stops(p) ==
  /\ proc[p].st = "running"
  /\ Becomes(p, "stopnew", proc[p].sig \ {"TSTP"})
  /\ TellParent

TakeInt(p) ==
  /\ proc[p].st = "running"
  /\ "INT" \in proc[p].sig
  /\ Becomes(p, "zombie", {})
  /\ TellParent

TakeTstp(p) ==
  /\ proc[p].st = "running"
  /\ "TSTP" \in proc[p].sig
  /\ Becomes(p, "stopnew", proc[p].sig \ {"TSTP"})
  /\ TellParent

Resume(p) ==
  /\ proc[p].st = "waking"
  /\ Becomes(p, "running", proc[p].sig)
  /\ TellParent

(* The driver's kill goes to the shell alone.  A key at the terminal goes  *)
(* to the shell's process group, with the children that have not left it.  *)
Reached(q, s) == IF q.st = "forked" THEN [q EXCEPT !.sig = @ \cup {s}] ELSE q

UserSignal(s) ==
  /\ pending' = pending \cup {s}
  /\ \/ UNCHANGED proc
     \/ proc' = [p \in Pids |-> Reached(proc[p], s)]
  /\ UNCHANGED <<jobVars, shellVars, frames, untracked>>

-----------------------------------------------------------------------------
Command == \/ \E s \in {FG, BG} : RunCommand(s)
           \/ \E s \in JobCommands : \/ \E j \in 1 .. MaxJid + 1 : JobById(s, j)
                                     \/ \E p \in Pids : JobByPid(s, p)
                                     \/ NoArgument
           \/ Quit

MainStep == \/ \E p \in Pids : Fork(p)
            \/ ForkFails
            \/ AddJob
            \/ AddJobFails
            \/ Unblock
            \/ WaitTest
            \/ Suspend
            \/ ReadPid
            \/ SetState
            \/ Continue

ReapStep == \/ \E p \in Pids : ReapDead(p) \/ ReportStop(p)
            \/ NothingToReap

KeyStep(s) == ReadForeground(s) \/ Forward(s)

Startup(p) == \/ Setpgid(p)
              \/ \E s \in {"INT", "TSTP"} : InheritedHandler(p, s)
              \/ InheritedQuit(p)
              \/ Exec(p)
              \/ ExecFails(p)

Reacts(p) == TakeInt(p) \/ TakeTstp(p) \/ Resume(p)

ChildStep(p) == Startup(p) \/ Reacts(p) \/ Dies(p) \/ Stops(p)

Next == /\ Alive
        /\ \/ Command
           \/ MainStep
           \/ ReapStep
           \/ \E s \in {"INT", "TSTP"} : KeyStep(s)
           \/ \E s \in Handled : Deliver(s)
           \/ QuitDelivered
           \/ \E p \in Pids : ChildStep(p)
           \/ \E s \in UserSignals : UserSignal(s)

Spec == Init /\ [][Next]_vars

(* The shell's code keeps running, also when signals keep interrupting it  *)
(* (it gets further between two keys), the kernel delivers what it can     *)
(* before it returns to the shell, and a child gets through execve and     *)
(* reacts to its signals.  Nothing is promised of the user, nor of the     *)
(* programs.                                                               *)
Fairness ==
  /\ SF_vars(Alive /\ MainStep)
  /\ SF_vars(Alive /\ ReapStep)
  /\ \A s \in {"INT", "TSTP"} : SF_vars(Alive /\ KeyStep(s))
  /\ \A s \in Handled : SF_vars(Alive /\ Deliver(s))
  /\ WF_vars(Alive /\ QuitDelivered)
  /\ \A p \in Pids : WF_vars(Alive /\ Startup(p)) /\ WF_vars(Alive /\ Reacts(p))

FairSpec == Spec /\ Fairness

-----------------------------------------------------------------------------
(* Properties.                                                             *)

(* Every variable has its type.                                            *)
PC == {"prompt", "fork", "addjob", "wait", "sleep", "suspend", "unblock",
       "read_pid", "set_state", "continue", "exited", "crashed"}

Command_t == [pid : Pids \cup {0}, slot : Slots \cup {0},
              state : {UNDEF, FG, BG}, builtin : BOOLEAN]

Frame == [sig : Handled, read : BOOLEAN, pid : Pids \cup {0}]

TypeOK == /\ TableTypeOK
          /\ pc \in PC
          /\ cur \in Command_t
          /\ blocked \in BOOLEAN
          /\ pending \subseteq Handled \cup {"QUIT"}
          /\ frames \in Seq(Frame)
          /\ proc \in [Pids -> Process]
          /\ untracked \subseteq Pids

(* An entry of the job list always stands for a child that has not been    *)
(* reaped, and for a child of its own: no interleaving of eval's addjob    *)
(* with the handler's deletejob leaves a dead job listed or a child listed *)
(* twice.                                                                  *)
ListingSound ==
  \A i \in Slots : job_list[i].pid # 0 =>
     /\ job_list[i].pid \notin Free
     /\ \A k \in Slots : job_list[k].pid = job_list[i].pid => k = i

(* Conversely a child is listed from addjob until it is reaped, unless     *)
(* addjob had no room for it.                                              *)
AboutToAdd(p) == pc = "addjob" /\ cur.pid = p

ListingComplete ==
  Alive => \A p \in Pids \ Free : Listed(p) \/ p \in untracked \/ AboutToAdd(p)

Waiting == pc \in {"wait", "sleep", "suspend"}

(* "At most 1 job can be in the FG state."                                 *)
IsFg(p) == \E i \in Slots : job_list[i].pid = p /\ job_list[i].state = FG

AtMostOneFG == \A p, q \in Pids : IsFg(p) /\ IsFg(q) => p = q

(* Without the fg builtin a foreground job is the one that eval waits for, *)
(* with the signals blocked outside sigsuspend: the prompt never comes     *)
(* back while a job holds the foreground.                                  *)
ForegroundAwaited ==
  Alive => \A p \in Pids : IsFg(p) => /\ Waiting
                                      /\ cur.pid = p
                                      /\ blocked

(* Without the bg and fg builtins the list tells stopped jobs from running *)
(* ones, up to a SIGCHLD that has not been handled.                        *)
StoppedIsListed ==
  \A i \in Slots : LET p == job_list[i].pid
                   IN  p # 0 => /\ proc[p].st = "stopped" => job_list[i].state = ST
                                /\ job_list[i].state = ST
                                   => proc[p].st \in {"stopped", "zombie"}

(* sigchld_handler finds an entry for every child that stops, provided     *)
(* every child got one.                                                    *)
NeverCrashes == pc # "crashed"

(* ctrl-c and ctrl-z are for the foreground: the shell's handlers never    *)
(* send the signal to a job the list shows in the background, although the *)
(* list may change between their reading it and their kill.                *)
SparedBy(A) ==
  A => \A p \in Pids : ~(proc'[p].sig \subseteq proc[p].sig) =>
         \E i \in Slots : /\ job_list[i].pid = p
                          /\ job_list[i].state \in {FG, ST}

SparesBackground == [][\A s \in {"INT", "TSTP"} : SparedBy(KeyStep(s))]_vars

(* eval returns: when the foreground job it waits for has terminated or    *)
(* stopped, the prompt comes back.                                         *)
Over(p) == proc[p].st \in {"zombie", "stopnew"}

EvalReturns ==
  \A p \in Pids : (Waiting /\ cur.pid = p /\ Over(p))
                    ~> (pc = "prompt" \/ ~Alive)

(* sigchld_handler "reaps all available zombie children": every child that *)
(* dies is reaped.                                                         *)
ZombiesReaped ==
  \A p \in Pids : (proc[p].st = "zombie") ~> (proc[p].st = "none" \/ ~Alive)

(* ctrl-c ends the foreground: a pending SIGINT takes the running          *)
(* foreground job out of the FG state.                                     *)
CtrlCEndsForeground ==
  \A p \in Pids : ("INT" \in pending /\ IsFg(p) /\ proc[p].st = "running")
                    ~> (~IsFg(p) \/ ~Alive)

(* The claims of the source that its code does not keep.                   *)

(* "Our background children don't receive SIGINT (SIGTSTP) [...] when we   *)
(* type ctrl-c (ctrl-z)": no handler sends the key's signal to a job the   *)
(* list shows in the background, neither the shell's nor one that a child  *)
(* runs before execve on its copy of the list.  Without the fg builtin the *)
(* copy holds no foreground job.                                           *)
KeysSpareBackground ==
  [][\A s \in {"INT", "TSTP"} :
       /\ SparedBy(KeyStep(s))
       /\ \A p \in Pids : SparedBy(InheritedHandler(p, s))]_vars

(* "Catch it and send it along to the foreground job": as above, but for a *)
(* foreground job that need not have reached execve yet.                   *)
CtrlCReachesForeground ==
  \A p \in Pids : ("INT" \in pending /\ IsFg(p)) ~> (~IsFg(p) \/ ~Alive)

(* "This one provides a clean way to kill the shell": SIGQUIT ends it.     *)
QuitEndsShell == ("QUIT" \in pending) ~> ~Alive

(* ST is "stopped": a job the list shows as stopped is not running.        *)
StoppedIsNotRunning ==
  \A i \in Slots : LET p == job_list[i].pid
                   IN  p # 0 /\ job_list[i].state = ST => proc[p].st # "running"

=============================================================================
