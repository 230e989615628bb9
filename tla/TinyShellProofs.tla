-------------------------- MODULE TinyShellProofs --------------------------
(***************************************************************************)
(* The safety properties of the shell for every MAXJOBS, every set Pids    *)
(* and every choice of the other constants: those of the job list driven   *)
(* by any sequence of launches and reaps, those of TinyShell, which follow *)
(* from one inductive invariant, Inv, those of the redirections, and that  *)
(* of parseline, for every set of words and every length of command.       *)
(***************************************************************************)
EXTENDS TinyShell, Streams, CommandLine, NatFacts, FiniteSetTheorems, FunctionTheorems

-----------------------------------------------------------------------------
(* A scan that stops at some entry stops at one that satisfies its         *)
(* condition; NULL, 0, is no entry.                                        *)
LEMMA FirstMember ==
  ASSUME NEW S \in SUBSET Slots, S # {}
  PROVE  First(S) \in S /\ First(S) # 0
<1>1. S \in SUBSET Nat
  BY JobListAssumption DEF Slots
<1>2. \E x \in S : \A y \in S : x <= y
  BY <1>1, LeastNat
<1>3. Min(S) \in S
  BY <1>2 DEF Min
<1>4. First(S) \in S
  BY <1>3 DEF First
<1>5. 0 \notin Slots
  BY DEF Slots
<1> QED
  BY <1>4, <1>5

LEMMA FirstNull ==
  ASSUME NEW S \in SUBSET Slots
  PROVE  /\ First(S) \in Slots \cup {0}
         /\ First(S) = 0 <=> S = {}
<1>1. CASE S = {}
  BY <1>1 DEF First
<1>2. CASE S # {}
  BY <1>2, FirstMember
<1> QED
  BY <1>1, <1>2

(* The largest job ID of a table is a natural number that bounds them all  *)
(* and is 0 only if they all are.  The maximum exists because it does for  *)
(* every prefix of the table: there is no shortest prefix without one.     *)
Bound(jl, k, m) == /\ m \in {0} \cup {jl[i].jid : i \in 1 .. k}
                   /\ \A i \in 1 .. k : jl[i].jid <= m

LEMMA MaxJidBound ==
  ASSUME NEW jl \in [Slots -> Job]
  PROVE  /\ maxjid(jl) \in {0} \cup {jl[i].jid : i \in Slots}
         /\ maxjid(jl) \in Nat
         /\ \A i \in Slots : jl[i].jid <= maxjid(jl)
<1> DEFINE Bad == {k \in 0 .. MAXJOBS : ~ \E m \in Nat : Bound(jl, k, m)}
<1>a. \A i \in Slots : jl[i].jid \in Nat
  BY DEF Job
<1>1. Bad = {}
  <2> SUFFICES ASSUME Bad # {} PROVE FALSE
    OBVIOUS
  <2>1. PICK k \in Bad : \A l \in Bad : k <= l
    <3>1. Bad \in SUBSET Nat
      OBVIOUS
    <3> QED
      BY <3>1, LeastNat
  <2>2. Bound(jl, 0, 0)
    BY DEF Bound
  <2>3. k \in 1 .. MAXJOBS /\ k - 1 \in 0 .. MAXJOBS /\ k - 1 \notin Bad
    BY <2>1, <2>2, JobListAssumption
  <2>4. PICK m \in Nat : Bound(jl, k - 1, m)
    BY <2>3
  <2>5. jl[k].jid \in Nat
    BY <2>3, <1>a DEF Slots
  <2>6. 1 .. k = (1 .. k - 1) \cup {k}
    BY <2>3, JobListAssumption
  <2>7. CASE jl[k].jid <= m
    <3>1. Bound(jl, k, m)
      BY <2>4, <2>6, <2>7 DEF Bound
    <3> QED
      BY <3>1, <2>1
  <2>8. CASE m < jl[k].jid
    <3>1. \A i \in 1 .. k - 1 : jl[i].jid \in Nat /\ jl[i].jid <= m
      BY <2>4, <2>3, <1>a, JobListAssumption DEF Bound, Slots
    <3>2. Bound(jl, k, jl[k].jid)
      BY <2>5, <2>6, <2>8, <3>1 DEF Bound
    <3> QED
      BY <3>2, <2>1, <2>5
  <2> QED
    BY <2>5, <2>7, <2>8
<1>2. PICK m \in Nat : Bound(jl, MAXJOBS, m)
  BY <1>1, JobListAssumption
<1> DEFINE T == {0} \cup {jl[i].jid : i \in Slots}
<1>3. m \in T /\ \A y \in T : m >= y
  BY <1>2, <1>a DEF Bound, Slots
<1>4. maxjid(jl) \in T /\ \A y \in T : maxjid(jl) >= y
  BY <1>3 DEF maxjid, Max
<1>5. T \subseteq Nat
  BY <1>a
<1> QED
  BY <1>4, <1>5

-----------------------------------------------------------------------------
(* The lookups and the two routines that change the table.                 *)
LEMMA GetJobPid ==
  ASSUME NEW jl, NEW p \in Pids
  PROVE  /\ getjobpid(jl, p) \in Slots \cup {0}
         /\ getjobpid(jl, p) # 0 => jl[getjobpid(jl, p)].pid = p
         /\ getjobpid(jl, p) = 0 => \A i \in Slots : jl[i].pid # p
<1> DEFINE S == {i \in Slots : p # 0 /\ jl[i].pid = p}
<1>1. S \in SUBSET Slots /\ p # 0
  BY JobListAssumption
<1>2. getjobpid(jl, p) = First(S)
  BY DEF getjobpid
<1>3. CASE S = {}
  BY <1>1, <1>2, <1>3, FirstNull
<1>4. CASE S # {}
  BY <1>1, <1>2, <1>4, FirstMember
<1> QED
  BY <1>3, <1>4

LEMMA AddJobSlot ==
  ASSUME NEW p, NEW s, addjob(p, s)
  PROVE  \E i \in Slots :
           /\ job_list[i].pid = 0
           /\ job_list' = [job_list EXCEPT ![i] =
                             [pid |-> p, jid |-> nextjid, state |-> s]]
<1> DEFINE S == {k \in Slots : job_list[k].pid = 0}
<1>1. S # {} /\ S \in SUBSET Slots
  BY DEF addjob, Full
<1>2. First(S) \in S
  BY <1>1, FirstMember
<1> QED
  BY <1>2 DEF addjob

LEMMA DeleteJobCases ==
  ASSUME NEW p \in Pids, deletejob(p)
  PROVE  \/ (\A i \in Slots : job_list[i].pid # p) /\ UNCHANGED jobVars
         \/ \E i \in Slots :
              /\ job_list[i].pid = p
              /\ job_list' = [job_list EXCEPT ![i] = clearjob]
              /\ nextjid' = maxjid(job_list') + 1
<1>1. CASE getjobpid(job_list, p) = 0
  BY <1>1, GetJobPid DEF deletejob
<1>2. CASE getjobpid(job_list, p) # 0
  BY <1>2, GetJobPid DEF deletejob
<1> QED
  BY <1>1, <1>2

LEMMA AddJobType ==
  ASSUME TableTypeOK, NEW p \in Pids \cup {0},
         NEW s \in {UNDEF, FG, BG, ST}, addjob(p, s)
  PROVE  TableTypeOK'
<1>1. PICK i \in Slots : job_list' = [job_list EXCEPT ![i] =
                           [pid |-> p, jid |-> nextjid, state |-> s]]
  BY AddJobSlot
<1>2. [pid |-> p, jid |-> nextjid, state |-> s] \in Job
  BY DEF TableTypeOK, Job
<1>3. job_list' \in [Slots -> Job]
  BY <1>1, <1>2 DEF TableTypeOK
<1>4. nextjid' \in Nat \ {0}
  BY JobListAssumption DEF addjob, TableTypeOK
<1> QED
  BY <1>3, <1>4 DEF TableTypeOK

LEMMA DeleteJobType ==
  ASSUME TableTypeOK, NEW p \in Pids, deletejob(p)
  PROVE  TableTypeOK'
<1>1. CASE UNCHANGED jobVars
  BY <1>1 DEF jobVars, TableTypeOK
<1>2. CASE \E i \in Slots :
             /\ job_list' = [job_list EXCEPT ![i] = clearjob]
             /\ nextjid' = maxjid(job_list') + 1
  <2>1. clearjob \in Job
    BY DEF clearjob, Job
  <2>2. job_list' \in [Slots -> Job]
    BY <1>2, <2>1 DEF TableTypeOK
  <2>3. maxjid(job_list') \in Nat
    BY <2>2, MaxJidBound
  <2> QED
    BY <1>2, <2>2, <2>3 DEF TableTypeOK
<1> QED
  BY <1>1, <1>2, DeleteJobCases

-----------------------------------------------------------------------------
(* The table and the counter keep their types.                             *)
THEOREM TableTyped == TableSpec => []TableTypeOK
<1>1. TableInit => TableTypeOK
  BY DEF TableInit, TableTypeOK, initjobs, clearjob, Job
<1>2. TableTypeOK /\ [TableNext]_jobVars => TableTypeOK'
  <2> SUFFICES ASSUME TableTypeOK, [TableNext]_jobVars PROVE TableTypeOK'
    OBVIOUS
  <2>1. CASE UNCHANGED jobVars
    BY <2>1 DEF jobVars, TableTypeOK
  <2>2. ASSUME NEW p \in Pids, Reap(p) PROVE TableTypeOK'
    BY <2>2, DeleteJobType DEF Reap
  <2>3. ASSUME NEW p \in Pids, NEW s \in {FG, BG}, Launch(p, s)
        PROVE  TableTypeOK'
    BY <2>3, AddJobType DEF Launch
  <2> QED
    BY <2>1, <2>2, <2>3 DEF TableNext
<1> QED
  BY <1>1, <1>2, PTL DEF TableSpec

(* Numbering starts again at 1 whenever the list is empty.                 *)
THEOREM EmptyListRestarts == TableSpec => []EmptyRestarts
<1>1. TableInit => EmptyRestarts
  BY DEF TableInit, EmptyRestarts
<1>2. TableTypeOK /\ TableTypeOK' /\ EmptyRestarts /\ [TableNext]_jobVars
        => EmptyRestarts'
  <2> SUFFICES ASSUME TableTypeOK, TableTypeOK', EmptyRestarts,
                      [TableNext]_jobVars,
                      \A i \in Slots : job_list'[i] = clearjob
               PROVE  nextjid' = 1
    BY DEF EmptyRestarts
  <2>1. CASE UNCHANGED jobVars
    BY <2>1 DEF jobVars, EmptyRestarts
  <2>2. ASSUME NEW p \in Pids, Reap(p) PROVE nextjid' = 1
    <3>1. PICK i \in Slots : nextjid' = maxjid(job_list') + 1
      BY <2>2, DeleteJobCases DEF Reap, Listed
    <3>2. \A k \in Slots : job_list'[k].jid = 0
      BY DEF clearjob
    <3>3. maxjid(job_list') \in {0} \cup {job_list'[k].jid : k \in Slots}
      BY MaxJidBound DEF TableTypeOK
    <3>4. maxjid(job_list') = 0
      BY <3>2, <3>3
    <3> QED
      BY <3>1, <3>4
  <2>3. ASSUME NEW p \in Pids, NEW s \in {FG, BG}, Launch(p, s) PROVE FALSE
    <3>1. PICK i \in Slots : job_list'[i].pid = p
      BY <2>3, AddJobSlot DEF Launch, TableTypeOK
    <3>2. job_list'[i].pid = 0
      BY DEF clearjob
    <3> QED
      BY <3>1, <3>2, JobListAssumption
  <2> QED
    BY <2>1, <2>2, <2>3 DEF TableNext
<1> QED
  BY <1>1, <1>2, TableTyped, PTL DEF TableSpec

-----------------------------------------------------------------------------
(* The inductive invariant.                                                *)

(* perform_job has found an entry before it reads the pid in it.           *)
SlotKnown == pc = "read_pid" => cur.slot \in Slots

(* From the block before fork until addjob has returned, no handler runs.  *)
NewChildIsShielded ==
  /\ pc \in {"fork", "addjob"} => frames = <<>> /\ blocked
  /\ pc = "addjob" => cur.pid \in Pids \ Free /\ ~Listed(cur.pid)

(* What a handler for SIGINT or SIGTSTP has read is still in the           *)
(* foreground, or has stopped, or has been reaped.                         *)
Foreground(p) ==
  \E i \in Slots : job_list[i].pid = p /\ job_list[i].state \in {FG, ST}

ForwardedIsForeground ==
  \A k \in DOMAIN frames :
     LET p == frames[k].pid
     IN  frames[k].read /\ p # 0 /\ p \notin Free => Foreground(p)

Inv == /\ TypeOK
       /\ SlotKnown
       /\ NewChildIsShielded
       /\ ListingSound
       /\ ListingComplete
       /\ ForwardedIsForeground

-----------------------------------------------------------------------------
(* The stack of handlers.                                                  *)
LEMMA PushFrame ==
  ASSUME NEW f \in Frame, NEW fs \in Seq(Frame)
  PROVE  /\ <<f>> \o fs \in Seq(Frame)
         /\ \A k \in DOMAIN (<<f>> \o fs) :
              IF k = 1 THEN (<<f>> \o fs)[k] = f
                       ELSE k - 1 \in DOMAIN fs /\ (<<f>> \o fs)[k] = fs[k - 1]
<1>1. <<f>> \in Seq(Frame) /\ Len(<<f>>) = 1 /\ <<f>>[1] = f
  OBVIOUS
<1>2. <<f>> \o fs \in Seq(Frame) /\ Len(<<f>> \o fs) = 1 + Len(fs)
  BY <1>1
<1>3. ASSUME NEW k \in DOMAIN (<<f>> \o fs)
      PROVE  IF k = 1 THEN (<<f>> \o fs)[k] = f
                      ELSE k - 1 \in DOMAIN fs /\ (<<f>> \o fs)[k] = fs[k - 1]
  BY <1>1, <1>2
<1> QED
  BY <1>2, <1>3

LEMMA PopFrame ==
  ASSUME NEW fs \in Seq(Frame), fs # <<>>
  PROVE  /\ Head(fs) \in Frame /\ Head(fs) = fs[1] /\ 1 \in DOMAIN fs
         /\ Tail(fs) \in Seq(Frame)
         /\ \A k \in DOMAIN Tail(fs) :
              k + 1 \in DOMAIN fs /\ Tail(fs)[k] = fs[k + 1]
OBVIOUS

(* fgpid returns 0 or the pid of an entry in the FG state.                 *)
LEMMA FgPid ==
  ASSUME NEW jl
  PROVE  \/ fgpid(jl) = 0
         \/ \E i \in Slots : jl[i].state = FG /\ fgpid(jl) = jl[i].pid
<1> DEFINE S == {k \in Slots : jl[k].state = FG}
<1>1. CASE S = {}
  BY <1>1 DEF fgpid, First
<1>2. CASE S # {}
  <2>1. First(S) \in S /\ First(S) # 0
    BY <1>2, FirstMember
  <2> QED
    BY <2>1 DEF fgpid
<1> QED
  BY <1>1, <1>2

(* What the steps of the children have in common: they leave the shell     *)
(* alone, and a child that exists goes on existing.                        *)
LEMMA SignalledKeeps ==
  ASSUME NEW q \in Process, NEW s \in {"INT", "TSTP"}
  PROVE  Signalled(q, s) \in Process /\ Signalled(q, s).st = q.st
BY DEF Signalled, Process

LEMMA InheritedEffect ==
  ASSUME TypeOK, NEW p \in Pids, NEW s \in {"INT", "TSTP"},
         InheritedHandler(p, s)
  PROVE  /\ proc' \in [Pids -> Process]
         /\ \A q \in Pids : proc'[q].st = proc[q].st
         /\ UNCHANGED <<job_list, nextjid, pc, cur, blocked, frames, untracked,
                       pending>>
<1> DEFINE handled == [proc EXCEPT ![p].sig = @ \ {s}]
<1>1. /\ handled \in [Pids -> Process]
      /\ \A q \in Pids : handled[q].st = proc[q].st
  BY DEF TypeOK, Process
<1>2. proc' = handled \/ proc' = [handled EXCEPT ![proc[p].fg] = Signalled(@, s)]
  BY DEF InheritedHandler
<1> HIDE DEF handled
<1>3. /\ proc' \in [Pids -> Process]
      /\ \A q \in Pids : proc'[q].st = proc[q].st
  BY <1>1, <1>2, SignalledKeeps
<1> QED
  BY <1>3 DEF InheritedHandler, ChildOnly, Silently, jobVars, shellVars

LEMMA ChildStepEffect ==
  ASSUME TypeOK, NEW p \in Pids, ChildStep(p)
  PROVE  /\ UNCHANGED <<job_list, nextjid, pc, cur, blocked, frames, untracked>>
         /\ proc' \in [Pids -> Process]
         /\ \A q \in Pids : proc'[q].st = "none" <=> proc[q].st = "none"
         /\ pending' \in {pending, pending \cup {"CHLD"}}
<1>1. proc \in [Pids -> Process] /\ proc[p].st \in Life
  BY DEF TypeOK, Process
<1>2. ASSUME NEW st \in Life \ {"none"}, NEW sig \in SUBSET proc[p].sig,
             proc[p].st # "none", Becomes(p, st, sig)
      PROVE  /\ UNCHANGED <<job_list, nextjid, pc, cur, blocked, frames, untracked>>
             /\ proc' \in [Pids -> Process]
             /\ \A q \in Pids : proc'[q].st = "none" <=> proc[q].st = "none"
  BY <1>1, <1>2 DEF Becomes, ChildOnly, Process, jobVars, shellVars
<1>3. CASE Setpgid(p)
  BY <1>1, <1>3 DEF Setpgid, ChildOnly, Silently, Process, Life, jobVars, shellVars
<1>4. CASE \E s \in {"INT", "TSTP"} : InheritedHandler(p, s)
  BY <1>4, InheritedEffect
<1>5. CASE InheritedQuit(p) \/ Exec(p) \/ ExecFails(p)
  BY <1>2, <1>5 DEF InheritedQuit, BeforeExec, Exec, ExecFails, Silently,
                    TellParent, Life
<1>6. CASE Reacts(p)
  BY <1>2, <1>6 DEF Reacts, TakeInt, TakeTstp, Resume, TellParent, Life
<1>7. CASE Dies(p) \/ Stops(p)
  BY <1>2, <1>7 DEF Dies, Stops, TellParent, Life
<1> QED
  BY <1>3, <1>4, <1>5, <1>6, <1>7 DEF ChildStep, Startup

(* Nor does a key or the driver's kill.                                    *)
LEMMA UserSignalEffect ==
  ASSUME TypeOK, NEW s \in UserSignals, UserSignal(s)
  PROVE  /\ UNCHANGED <<job_list, nextjid, pc, cur, blocked, frames, untracked>>
         /\ proc' \in [Pids -> Process]
         /\ \A q \in Pids : proc'[q].st = proc[q].st
<1>1. s \in {"INT", "TSTP", "QUIT"}
  BY TinyShellAssumption
<1>2. \A q \in Process : Reached(q, s) \in Process /\ Reached(q, s).st = q.st
  BY <1>1 DEF Reached, Process
<1> QED
  BY <1>2 DEF UserSignal, TypeOK, jobVars, shellVars

LEMMA LookupSlot ==
  ASSUME NEW jl, NEW j
  PROVE  getjobjid(jl, j) \in Slots \cup {0} /\ getjobpid(jl, j) \in Slots \cup {0}
BY FirstNull DEF getjobjid, getjobpid

(* Finish and Return keep the types of what they change.                   *)
LEMMA FinishType ==
  ASSUME TypeOK, frames # <<>>, Finish
  PROVE  frames' \in Seq(Frame) /\ pc' \in PC
BY PopFrame DEF TypeOK, Finish, PC

LEMMA NoCommandType == NoCommand \in Command_t
BY DEF NoCommand, Command_t

-----------------------------------------------------------------------------
(* Every variable keeps its type.                                          *)
LEMMA InitType == Init => TypeOK
<1> SUFFICES ASSUME Init PROVE TypeOK
  OBVIOUS
<1>1. TableTypeOK
  BY DEF Init, TableInit, TableTypeOK, initjobs, clearjob, Job
<1>2. proc \in [Pids -> Process]
  BY DEF Init, NoProcess, Process, Life
<1>3. frames \in Seq(Frame)
  BY DEF Init
<1> QED
  BY <1>1, <1>2, <1>3, NoCommandType DEF Init, TypeOK, PC

LEMMA CommandType ==
  ASSUME TypeOK, Command
  PROVE  TypeOK'
<1>1. CASE \E s \in {FG, BG} : RunCommand(s)
  BY <1>1 DEF TypeOK, TableTypeOK, RunCommand, At, NoCommand, Command_t, PC,
              jobVars, signalVars, childVars
<1>2. ASSUME NEW s \in JobCommands, NEW j, JobById(s, j)
      PROVE  TypeOK'
  <2>1. s \in {FG, BG}
    BY TinyShellAssumption DEF FG, BG
  <2>2. getjobjid(job_list, j) \in Slots \cup {0}
    BY LookupSlot
  <2>3. pc' \in PC
    BY <1>2 DEF JobById, Crash, PC
  <2>4. cur' \in Command_t
    <3>1. CASE UNCHANGED cur
      BY <3>1 DEF TypeOK
    <3>2. CASE cur' = [pid |-> 0, slot |-> getjobjid(job_list, j),
                       state |-> s, builtin |-> TRUE]
      BY <3>2, <2>1, <2>2 DEF Command_t
    <3> QED
      BY <1>2, <3>1, <3>2 DEF JobById, Crash
  <2> QED
    BY <1>2, <2>3, <2>4 DEF TypeOK, TableTypeOK, JobById, jobVars, signalVars, childVars
<1>3. ASSUME NEW s \in JobCommands, NEW p \in Pids, JobByPid(s, p)
      PROVE  TypeOK'
  <2>1. s \in {FG, BG}
    BY TinyShellAssumption DEF FG, BG
  <2>2. getjobpid(job_list, p) \in Slots \cup {0}
    BY LookupSlot
  <2>3. pc' \in PC
    BY <1>3 DEF JobByPid, Crash, PC
  <2>4. cur' \in Command_t
    <3>1. CASE UNCHANGED cur
      BY <3>1 DEF TypeOK
    <3>2. CASE cur' = [pid |-> p, slot |-> getjobpid(job_list, p),
                       state |-> s, builtin |-> TRUE]
      BY <3>2, <2>1, <2>2 DEF Command_t
    <3> QED
      BY <1>3, <3>1, <3>2 DEF JobByPid, Crash
  <2> QED
    BY <1>3, <2>3, <2>4 DEF TypeOK, TableTypeOK, JobByPid, jobVars, signalVars,
                      childVars
<1>4. CASE NoArgument \/ Quit
  BY <1>4 DEF TypeOK, TableTypeOK, NoArgument, Quit, Crash, PC, jobVars,
              signalVars, childVars
<1> QED
  BY <1>1, <1>2, <1>3, <1>4 DEF Command

LEMMA MainStepType ==
  ASSUME TypeOK, SlotKnown, NewChildIsShielded, MainStep
  PROVE  TypeOK'
<1> USE DEF TypeOK, jobVars, signalVars, childVars
<1>1. ASSUME NEW p \in Pids, Fork(p) PROVE TypeOK'
  <2>1. fgpid(job_list) \in Pids \cup {0}
    BY FgPid DEF TableTypeOK, Job
  <2>3. proc' \in [Pids -> Process]
    BY <1>1, <2>1 DEF Fork, Process, Life
  <2>2. cur' \in Command_t /\ pc' \in PC
    BY <1>1 DEF Fork, Command_t, PC
  <2> QED
    BY <1>1, <2>2, <2>3 DEF Fork, TableTypeOK
<1>2. CASE ForkFails \/ Unblock
  BY <1>2, NoCommandType DEF ForkFails, Unblock, Return, PC, TableTypeOK
<1>3. CASE AddJob
  <2>1. cur.pid \in Pids \cup {0} /\ cur.state \in {UNDEF, FG, BG, ST}
    BY DEF Command_t
  <2>2. TableTypeOK'
    BY <1>3, <2>1, AddJobType DEF AddJob
  <2> QED
    BY <1>3, <2>2 DEF AddJob, PC
<1>4. CASE AddJobFails
  <2>1. cur.pid \in Pids
    BY <1>4 DEF AddJobFails, At, NewChildIsShielded
  <2> QED
    BY <1>4, <2>1, NoCommandType DEF AddJobFails, Return, PC, TableTypeOK
<1>5. CASE WaitTest \/ Suspend
  BY <1>5, NoCommandType DEF WaitTest, Suspend, Return, PC, TableTypeOK
<1>6. CASE ReadPid
  <2>1. job_list[cur.slot].pid \in Pids \cup {0}
    BY <1>6 DEF ReadPid, At, SlotKnown, TableTypeOK, Job
  <2>2. cur' \in Command_t
    BY <1>6, <2>1 DEF ReadPid, Command_t
  <2> QED
    BY <1>6, <2>2 DEF ReadPid, PC, TableTypeOK
<1>7. CASE SetState
  <2>1. job_list' \in [Slots -> Job]
    BY <1>7 DEF SetState, TableTypeOK, Job, Command_t
  <2> QED
    BY <1>7, <2>1 DEF SetState, PC, TableTypeOK
<1>8. CASE Continue
  <2>1. \A q \in Process : Continued(q) \in Process
    BY DEF Continued, Process, Life
  <2>2. proc' \in [Pids -> Process]
    BY <1>8, <2>1 DEF Continue, Command_t
  <2> QED
    BY <1>8, <2>2, NoCommandType DEF Continue, Return, PC, TableTypeOK
<1> QED
  BY <1>1, <1>2, <1>3, <1>4, <1>5, <1>6, <1>7, <1>8 DEF MainStep

LEMMA HandlerType ==
  ASSUME TypeOK,
         ReapStep \/ \E s \in {"INT", "TSTP"} : KeyStep(s)
  PROVE  TypeOK'
<1> USE DEF TypeOK, jobVars, shellVars, signalVars, childVars
<1>1. ASSUME NEW p \in Pids, ReapDead(p) PROVE TypeOK'
  <2>1. TableTypeOK'
    BY <1>1, DeleteJobType DEF ReapDead
  <2>2. proc' \in [Pids -> Process]
    BY <1>1 DEF ReapDead, NoProcess, Process, Life
  <2> QED
    BY <1>1, <2>1, <2>2 DEF ReapDead
<1>2. ASSUME NEW p \in Pids, ReportStop(p) PROVE TypeOK'
  <2>1. proc' \in [Pids -> Process]
    BY <1>2 DEF ReportStop, Process, Life
  <2>2. job_list' \in [Slots -> Job]
    <3> DEFINE i == getjobpid(job_list, p)
    <3>1. CASE UNCHANGED job_list
      BY <3>1 DEF TableTypeOK
    <3>2. CASE job_list' = [job_list EXCEPT ![i].state = ST]
      BY <3>2 DEF TableTypeOK, Job
    <3> QED
      BY <1>2, <3>1, <3>2 DEF ReportStop
  <2>3. pc' \in PC /\ cur' = cur
    BY <1>2 DEF ReportStop, Crash, PC
  <2> QED
    BY <1>2, <2>1, <2>2, <2>3 DEF ReportStop, TableTypeOK
<1>3. CASE NothingToReap
  BY <1>3, FinishType DEF NothingToReap, InHandler, TableTypeOK
<1>4. ASSUME NEW s \in {"INT", "TSTP"}, ReadForeground(s) PROVE TypeOK'
  <2> DEFINE f == [Head(frames) EXCEPT !.read = TRUE, !.pid = fgpid(job_list)]
  <2>1. fgpid(job_list) \in Pids \cup {0}
    BY FgPid DEF TableTypeOK, Job
  <2>2. f \in Frame /\ Tail(frames) \in Seq(Frame)
    <3>1. Head(frames) \in Frame /\ Tail(frames) \in Seq(Frame)
      BY <1>4, PopFrame DEF ReadForeground, InHandler
    <3> QED
      BY <3>1, <2>1 DEF Frame
  <2>3. frames' \in Seq(Frame)
    BY <1>4, <2>2, PushFrame DEF ReadForeground
  <2> QED
    BY <1>4, <2>3 DEF ReadForeground, TableTypeOK
<1>5. ASSUME NEW s \in {"INT", "TSTP"}, Forward(s) PROVE TypeOK'
  <2>1. proc' \in [Pids -> Process]
    BY <1>5, SignalledKeeps DEF Forward
  <2> QED
    BY <1>5, <2>1, FinishType DEF Forward, InHandler, TableTypeOK
<1> QED
  BY <1>1, <1>2, <1>3, <1>4, <1>5 DEF ReapStep, KeyStep

LEMMA OtherType ==
  ASSUME TypeOK,
         \/ \E s \in Handled : Deliver(s)
         \/ QuitDelivered
         \/ \E p \in Pids : ChildStep(p)
         \/ \E s \in UserSignals : UserSignal(s)
         \/ UNCHANGED vars
  PROVE  TypeOK'
<1> USE DEF TypeOK, TableTypeOK, jobVars, shellVars, signalVars, childVars
<1>1. ASSUME NEW s \in Handled, Deliver(s) PROVE TypeOK'
  <2>1. [sig |-> s, read |-> FALSE, pid |-> 0] \in Frame
    BY DEF Frame
  <2>2. frames' \in Seq(Frame)
    BY <1>1, <2>1, PushFrame DEF Deliver
  <2> QED
    BY <1>1, <2>2 DEF Deliver
<1>2. CASE QuitDelivered
  BY <1>2 DEF QuitDelivered, PC
<1>3. ASSUME NEW p \in Pids, ChildStep(p) PROVE TypeOK'
  BY <1>3, ChildStepEffect DEF Handled
<1>4. ASSUME NEW s \in UserSignals, UserSignal(s) PROVE TypeOK'
  BY <1>4, UserSignalEffect, TinyShellAssumption DEF UserSignal, Handled
<1>5. CASE UNCHANGED vars
  BY <1>5 DEF vars
<1> QED
  BY <1>1, <1>2, <1>3, <1>4, <1>5

LEMMA TypePreserved ==
  ASSUME TypeOK, SlotKnown, NewChildIsShielded, [Next]_vars
  PROVE  TypeOK'
BY CommandType, MainStepType, HandlerType, OtherType DEF Next

-----------------------------------------------------------------------------
(* Steps that neither change an entry nor create or reap a child.          *)
Quiet ==
  \/ Command \/ ForkFails \/ AddJobFails \/ Unblock \/ WaitTest \/ Suspend
  \/ ReadPid \/ Continue
  \/ NothingToReap \/ \E s \in {"INT", "TSTP"} : KeyStep(s)
  \/ \E s \in Handled : Deliver(s)
  \/ QuitDelivered
  \/ \E p \in Pids : ChildStep(p)
  \/ \E s \in UserSignals : UserSignal(s)
  \/ UNCHANGED vars

(* The other steps.                                                        *)
Listing(p) ==
  \/ Fork(p) \/ ReapDead(p) \/ ReportStop(p)

LEMMA StepCases ==
  ASSUME [Next]_vars
  PROVE  \/ Quiet
         \/ AddJob
         \/ SetState
         \/ \E p \in Pids : Listing(p)
BY DEF Next, MainStep, ReapStep, Quiet, Listing

LEMMA QuietEffect ==
  ASSUME TypeOK, Quiet
  PROVE  UNCHANGED job_list /\ Free' = Free
<1> USE DEF TypeOK, jobVars, shellVars, signalVars, childVars
<1>1. CASE Command
  BY <1>1 DEF Command, RunCommand, JobById, JobByPid, NoArgument, Quit, Free
<1>2. CASE ForkFails \/ AddJobFails \/ Unblock \/ WaitTest \/ Suspend \/ ReadPid
  BY <1>2 DEF ForkFails, AddJobFails, Unblock, WaitTest, Suspend, ReadPid, Free
<1>3. CASE Continue
  <2>1. \A q \in Process : Continued(q).st = "none" <=> q.st = "none"
    BY DEF Continued
  <2>2. \A p \in Pids : proc'[p].st = "none" <=> proc[p].st = "none"
    BY <1>3, <2>1 DEF Continue
  <2> QED
    BY <1>3, <2>2 DEF Continue, Free
<1>4. CASE NothingToReap
  BY <1>4 DEF NothingToReap, Free
<1>5. ASSUME NEW s \in {"INT", "TSTP"}, KeyStep(s)
      PROVE  UNCHANGED job_list /\ Free' = Free
  <2>1. CASE ReadForeground(s)
    BY <2>1 DEF ReadForeground, Free
  <2>2. CASE Forward(s)
    <3>1. \A p \in Pids : proc'[p].st = proc[p].st
      BY <2>2, SignalledKeeps DEF Forward
    <3> QED
      BY <2>2, <3>1 DEF Forward, Free
  <2> QED
    BY <1>5, <2>1, <2>2 DEF KeyStep
<1>6. CASE \/ \E s \in Handled : Deliver(s)
           \/ QuitDelivered
           \/ \E s \in UserSignals : UserSignal(s)
           \/ UNCHANGED vars
  BY <1>6, UserSignalEffect DEF Deliver, QuitDelivered, vars, Free
<1>7. ASSUME NEW p \in Pids, ChildStep(p)
      PROVE  UNCHANGED job_list /\ Free' = Free
  BY <1>7, ChildStepEffect DEF Free
<1> QED
  BY <1>1, <1>2, <1>3, <1>4, <1>5, <1>6, <1>7 DEF Quiet

(* The steps that create or reap a child or report one stopped, as they    *)
(* change the list.                                                        *)
LEMMA ForkEffect ==
  ASSUME TypeOK, NEW p \in Pids, Fork(p)
  PROVE  UNCHANGED job_list /\ p \in Free /\ Free' = Free \ {p}
BY DEF TypeOK, Fork, Free, jobVars

LEMMA ReapDeadEffect ==
  ASSUME TypeOK, NEW p \in Pids, ReapDead(p)
  PROVE  /\ Free' = Free \cup {p}
         /\ p \notin Free
         /\ \/ UNCHANGED job_list /\ ~Listed(p)
            \/ \E i \in Slots : /\ job_list[i].pid = p
                               /\ job_list' = [job_list EXCEPT ![i] = clearjob]
<1>1. Free' = Free \cup {p} /\ p \notin Free
  BY DEF TypeOK, ReapDead, Free, NoProcess
<1>2. deletejob(p)
  BY DEF ReapDead
<1> QED
  BY <1>1, <1>2, DeleteJobCases DEF Listed, jobVars

LEMMA ReportStopEffect ==
  ASSUME TypeOK, NEW p \in Pids, ReportStop(p)
  PROVE  /\ Free' = Free
         /\ \/ UNCHANGED job_list
            \/ \E i \in Slots : job_list' = [job_list EXCEPT ![i].state = ST]
<1>1. Free' = Free
  BY DEF TypeOK, ReportStop, Free
<1>2. getjobpid(job_list, p) \in Slots \cup {0}
  BY LookupSlot
<1> QED
  BY <1>1, <1>2 DEF ReportStop

LEMMA StateOnly ==
  ASSUME TypeOK, NEW i, NEW s,
         job_list' = [job_list EXCEPT ![i].state = s]
  PROVE  \A k \in Slots : /\ job_list'[k].pid = job_list[k].pid
                          /\ job_list'[k].state \in {job_list[k].state, s}
BY DEF TypeOK, TableTypeOK, Job

-----------------------------------------------------------------------------
(* The conjuncts of the invariant, one by one.                             *)
LEMMA SlotPreserved ==
  ASSUME TypeOK, SlotKnown, [Next]_vars
  PROVE  SlotKnown'
<1> USE DEF SlotKnown, jobVars, shellVars, signalVars, childVars
<1>1. CASE Command
  <2>1. ASSUME NEW s, NEW j, JobById(s, j) PROVE SlotKnown'
    BY <2>1, LookupSlot DEF JobById, Crash
  <2> QED
    BY <1>1, <2>1 DEF Command, RunCommand, JobByPid, NoArgument, Quit, Crash
<1>2. CASE MainStep
  BY <1>2 DEF MainStep, Fork, ForkFails, AddJob, AddJobFails, Unblock, WaitTest,
              Suspend, ReadPid, SetState, Continue, Return
<1>3. CASE ReapStep \/ \E s \in {"INT", "TSTP"} : KeyStep(s)
  BY <1>3 DEF ReapStep, KeyStep, ReapDead, ReportStop, NothingToReap,
              ReadForeground, Forward, Finish, Crash
<1>4. CASE \/ \E s \in Handled : Deliver(s)
           \/ QuitDelivered
           \/ \E s \in UserSignals : UserSignal(s)
           \/ UNCHANGED vars
  BY <1>4, UserSignalEffect DEF Deliver, QuitDelivered, vars
<1>5. ASSUME NEW p \in Pids, ChildStep(p) PROVE SlotKnown'
  BY <1>5, ChildStepEffect
<1> QED
  BY <1>1, <1>2, <1>3, <1>4, <1>5 DEF Next

LEMMA ShieldPreserved ==
  ASSUME TypeOK, ListingSound, NewChildIsShielded, [Next]_vars
  PROVE  NewChildIsShielded'
<1> USE DEF NewChildIsShielded, jobVars, shellVars, signalVars, childVars
<1>1. CASE Command
  BY <1>1 DEF Command, RunCommand, JobById, JobByPid, NoArgument, Quit, Crash, At
<1>2. ASSUME NEW p \in Pids, Fork(p) PROVE NewChildIsShielded'
  <2>1. frames' = <<>> /\ blocked'
    BY <1>2 DEF Fork, At
  <2>2. p \in Free /\ p \notin Free' /\ UNCHANGED job_list
    BY <1>2, ForkEffect
  <2>3. ~Listed(p)
    BY <2>2, JobListAssumption DEF ListingSound, Listed
  <2>4. cur'.pid = p /\ pc' = "addjob"
    BY <1>2 DEF Fork, TypeOK, Command_t
  <2> QED
    BY <2>1, <2>2, <2>3, <2>4 DEF Listed
<1>3. CASE \/ ForkFails \/ AddJob \/ AddJobFails \/ Unblock \/ WaitTest
           \/ Suspend \/ ReadPid \/ SetState \/ Continue
  BY <1>3 DEF ForkFails, AddJob, AddJobFails, Unblock, WaitTest, Suspend, ReadPid,
              SetState, Continue, Return, At
<1>4. CASE ReapStep \/ \E s \in {"INT", "TSTP"} : KeyStep(s)
  <2>1. frames # <<>>
    BY <1>4 DEF ReapStep, KeyStep, ReapDead, ReportStop, NothingToReap,
                ReadForeground, Forward, InHandler
  <2>2. pc' \in {pc, "wait", "crashed"}
    BY <1>4 DEF ReapStep, KeyStep, ReapDead, ReportStop, NothingToReap,
                ReadForeground, Forward, Finish, Crash
  <2> QED
    BY <2>1, <2>2
<1>5. CASE (\E s \in Handled : Deliver(s)) \/ QuitDelivered
  BY <1>5 DEF Deliver, QuitDelivered
<1>6. CASE \/ \E p \in Pids : ChildStep(p)
           \/ \E s \in UserSignals : UserSignal(s)
           \/ UNCHANGED vars
  <2>1. UNCHANGED job_list /\ Free' = Free
    BY <1>6, QuietEffect DEF Quiet
  <2>2. UNCHANGED <<pc, cur, blocked, frames>>
    BY <1>6, ChildStepEffect, UserSignalEffect DEF vars
  <2> QED
    BY <2>1, <2>2 DEF Listed
<1> QED
  BY <1>1, <1>2, <1>3, <1>4, <1>5, <1>6 DEF Next, MainStep

LEMMA SoundPreserved ==
  ASSUME TypeOK, NewChildIsShielded, ListingSound, [Next]_vars
  PROVE  ListingSound'
<1>1. CASE Quiet
  BY <1>1, QuietEffect DEF ListingSound
<1>2. CASE AddJob
  <2>1. PICK i \in Slots :
           job_list' = [job_list EXCEPT ![i] =
                          [pid |-> cur.pid, jid |-> nextjid,
                           state |-> cur.state]]
    BY <1>2, AddJobSlot DEF AddJob
  <2>2. cur.pid \in Pids \ Free /\ ~Listed(cur.pid)
    BY <1>2 DEF AddJob, At, NewChildIsShielded
  <2>3. Free' = Free
    BY <1>2 DEF AddJob, childVars, Free
  <2>4. \A k \in Slots :
           job_list'[k].pid = IF k = i THEN cur.pid ELSE job_list[k].pid
    BY <2>1 DEF TypeOK, TableTypeOK
  <2> QED
    BY <2>2, <2>3, <2>4 DEF ListingSound, Listed
<1>3. CASE SetState
  <2>1. \A k \in Slots : job_list'[k].pid = job_list[k].pid
    BY <1>3, StateOnly DEF SetState
  <2>2. Free' = Free
    BY <1>3 DEF SetState, childVars, Free
  <2> QED
    BY <2>1, <2>2 DEF ListingSound
<1>4. ASSUME NEW p \in Pids, Fork(p) PROVE ListingSound'
  BY <1>4, ForkEffect DEF ListingSound
<1>5. ASSUME NEW p \in Pids, ReapDead(p) PROVE ListingSound'
  <2>1. Free' = Free \cup {p}
    BY <1>5, ReapDeadEffect
  <2>2. \A k \in Slots :
           job_list'[k].pid = IF job_list[k].pid = p THEN 0 ELSE job_list[k].pid
    <3>1. CASE UNCHANGED job_list /\ ~Listed(p)
      BY <3>1 DEF Listed
    <3>2. CASE \E i \in Slots :
                  /\ job_list[i].pid = p
                  /\ job_list' = [job_list EXCEPT ![i] = clearjob]
      <4>1. PICK i \in Slots :
                  /\ job_list[i].pid = p
                  /\ job_list' = [job_list EXCEPT ![i] = clearjob]
        BY <3>2
      <4>2. \A k \in Slots : job_list[k].pid = p => k = i
        BY <4>1, JobListAssumption DEF ListingSound
      <4> QED
        BY <4>1, <4>2 DEF TypeOK, TableTypeOK, clearjob
    <3> QED
      BY <1>5, <3>1, <3>2, ReapDeadEffect
  <2>3. ASSUME NEW i \in Slots, job_list'[i].pid # 0
        PROVE  /\ job_list'[i].pid \notin Free'
               /\ \A k \in Slots : job_list'[k].pid = job_list'[i].pid => k = i
    <3>1. job_list'[i].pid = job_list[i].pid /\ job_list[i].pid # p
      BY <2>2, <2>3
    <3>2. \A k \in Slots : job_list'[k].pid = job_list'[i].pid
                            => job_list[k].pid = job_list[i].pid
      BY <2>2, <2>3, <3>1
    <3> QED
      BY <2>1, <2>3, <3>1, <3>2 DEF ListingSound
  <2> QED
    BY <2>3 DEF ListingSound
<1>6. ASSUME NEW p \in Pids, ReportStop(p) PROVE ListingSound'
  <2>1. \A k \in Slots : job_list'[k].pid = job_list[k].pid
    BY <1>6, ReportStopEffect, StateOnly
  <2> QED
    BY <1>6, <2>1, ReportStopEffect DEF ListingSound
<1> QED
  BY <1>1, <1>2, <1>3, <1>4, <1>5, <1>6, StepCases DEF Listing

LEMMA CompletePreserved ==
  ASSUME TypeOK, NewChildIsShielded, ListingSound, ListingComplete, [Next]_vars
  PROVE  ListingComplete'
<1> SUFFICES ASSUME Alive', NEW q \in Pids \ Free'
             PROVE  Listed(q)' \/ q \in untracked' \/ AboutToAdd(q)'
  BY DEF ListingComplete
<1>a. Alive
  BY DEF Next, vars, shellVars, Alive
<1>b. q \notin Free => Listed(q) \/ q \in untracked \/ AboutToAdd(q)
  BY <1>a DEF ListingComplete
<1> USE DEF jobVars, shellVars, signalVars, childVars
<1>1. CASE Quiet
  <2>1. UNCHANGED job_list /\ Free' = Free
    BY <1>1, QuietEffect
  <2>2. Listed(q)' <=> Listed(q)
    BY <2>1 DEF Listed
  <2>3. untracked \subseteq untracked'
    BY <1>1, ChildStepEffect, UserSignalEffect
       DEF Quiet, Command, RunCommand, JobById, JobByPid, NoArgument, Quit,
           ForkFails, AddJobFails, Unblock, WaitTest, Suspend, ReadPid, Continue,
           NothingToReap, KeyStep, ReadForeground, Forward, Deliver,
           QuitDelivered, vars
  <2>4. CASE AddJobFails
    BY <1>b, <2>1, <2>2, <2>3, <2>4 DEF AddJobFails, AboutToAdd
  <2>5. CASE ~AddJobFails /\ pc = "addjob"
    <3>1. UNCHANGED <<pc, cur>>
      <4>1. frames = <<>>
        BY <2>5 DEF NewChildIsShielded
      <4>2. ~QuitDelivered
        BY DEF QuitDelivered, Alive
      <4> QED
        BY <1>1, <2>5, <4>1, <4>2, ChildStepEffect, UserSignalEffect
           DEF Quiet, Command, RunCommand, JobById, JobByPid, NoArgument, Quit,
               ForkFails, Unblock, WaitTest, Suspend, ReadPid, Continue, At,
               NothingToReap, KeyStep, ReadForeground, Forward, InHandler,
               Deliver, vars
    <3> QED
      BY <1>b, <2>1, <2>2, <2>3, <3>1 DEF AboutToAdd
  <2>6. CASE pc # "addjob"
    BY <1>b, <2>1, <2>2, <2>3, <2>6 DEF AboutToAdd
  <2> QED
    BY <2>4, <2>5, <2>6
<1>2. CASE AddJob
  <2>1. PICK i \in Slots :
           /\ job_list[i].pid = 0
           /\ job_list' = [job_list EXCEPT ![i] =
                             [pid |-> cur.pid, jid |-> nextjid,
                           state |-> cur.state]]
    BY <1>2, AddJobSlot DEF AddJob
  <2>2. job_list'[i].pid = cur.pid /\ \A k \in Slots \ {i} : job_list'[k] = job_list[k]
    BY <2>1 DEF TypeOK, TableTypeOK
  <2>3. q \notin Free /\ untracked' = untracked
    BY <1>2 DEF AddJob, Free
  <2>4. q # 0
    BY JobListAssumption
  <2> QED
    BY <1>b, <2>1, <2>2, <2>3, <2>4 DEF AboutToAdd, Listed
<1>3. CASE SetState
  <2>1. \A k \in Slots : job_list'[k].pid = job_list[k].pid
    BY <1>3, StateOnly DEF SetState
  <2> QED
    BY <1>3, <1>b, <2>1 DEF SetState, At, AboutToAdd, Listed, Free
<1>4. ASSUME NEW p \in Pids, Fork(p)
      PROVE  Listed(q)' \/ q \in untracked' \/ AboutToAdd(q)'
  <2>1. UNCHANGED job_list /\ Free' = Free \ {p}
    BY <1>4, ForkEffect
  <2>2. AboutToAdd(p)' /\ untracked' = untracked /\ pc # "addjob"
    BY <1>4 DEF Fork, At, AboutToAdd, TypeOK, Command_t
  <2> QED
    BY <1>b, <2>1, <2>2 DEF Listed, AboutToAdd
<1>5. ASSUME NEW p \in Pids, ReapDead(p)
      PROVE  Listed(q)' \/ q \in untracked' \/ AboutToAdd(q)'
  <2>1. q \notin Free /\ q # p
    BY <1>5, ReapDeadEffect
  <2>2. untracked' = untracked \ {p} /\ UNCHANGED <<pc, cur>>
    BY <1>5 DEF ReapDead
  <2>3. \A k \in Slots : job_list[k].pid = q => job_list'[k].pid = q
    BY <1>5, <2>1, ReapDeadEffect DEF TypeOK, TableTypeOK
  <2> QED
    BY <1>b, <2>1, <2>2, <2>3 DEF Listed, AboutToAdd
<1>6. ASSUME NEW p \in Pids, ReportStop(p)
      PROVE  Listed(q)' \/ q \in untracked' \/ AboutToAdd(q)'
  <2>1. \A k \in Slots : job_list'[k].pid = job_list[k].pid
    BY <1>6, ReportStopEffect, StateOnly
  <2>2. UNCHANGED <<pc, cur, untracked>>
    BY <1>6 DEF ReportStop, Crash, Alive
  <2> QED
    BY <1>6, <1>b, <2>1, <2>2, ReportStopEffect DEF Listed, AboutToAdd
<1> QED
  BY <1>1, <1>2, <1>3, <1>4, <1>5, <1>6, StepCases DEF Listing

(* A handler that leaves keeps the claim for the handlers below it.        *)
LEMMA FinishForwarded ==
  ASSUME TypeOK, ForwardedIsForeground, frames # <<>>, Finish,
         UNCHANGED job_list, Free' = Free
  PROVE  ForwardedIsForeground'
<1>1. \A k \in DOMAIN frames' : k + 1 \in DOMAIN frames /\ frames'[k] = frames[k + 1]
  BY PopFrame DEF Finish, TypeOK
<1>2. \A p : Foreground(p)' <=> Foreground(p)
  BY DEF Foreground
<1> QED
  BY <1>1, <1>2 DEF ForwardedIsForeground

LEMMA ForwardPreserved ==
  ASSUME TypeOK, ListingSound, ForwardedIsForeground, [Next]_vars
  PROVE  ForwardedIsForeground'
<1> USE DEF jobVars, shellVars, signalVars, childVars
<1>1. CASE Command \/ MainStep
  <2>1. frames' = <<>>
    BY <1>1 DEF Command, RunCommand, JobById, JobByPid, NoArgument, Quit,
                MainStep, Fork, ForkFails, AddJob, AddJobFails, Unblock,
                WaitTest, Suspend, ReadPid, SetState, Continue, At
  <2> QED
    BY <2>1 DEF ForwardedIsForeground
<1>2. ASSUME NEW p \in Pids, ReapDead(p) PROVE ForwardedIsForeground'
  <2>1. frames' = frames /\ Free' = Free \cup {p}
    BY <1>2, ReapDeadEffect DEF ReapDead
  <2>2. ASSUME NEW q, q # p, Foreground(q), q # 0 PROVE Foreground(q)'
    <3>1. PICK i \in Slots : job_list[i].pid = q /\ job_list[i].state \in {FG, ST}
      BY <2>2 DEF Foreground
    <3>2. job_list'[i] = job_list[i]
      BY <1>2, <2>2, <3>1, ReapDeadEffect DEF TypeOK, TableTypeOK
    <3> QED
      BY <3>1, <3>2 DEF Foreground
  <2> QED
    BY <2>1, <2>2 DEF ForwardedIsForeground
<1>3. ASSUME NEW p \in Pids, ReportStop(p) PROVE ForwardedIsForeground'
  <2>1. frames' = frames /\ Free' = Free
    BY <1>3, ReportStopEffect DEF ReportStop
  <2>2. \A k \in Slots : /\ job_list'[k].pid = job_list[k].pid
                        /\ job_list'[k].state \in {job_list[k].state, ST}
    BY <1>3, ReportStopEffect, StateOnly
  <2>3. \A q : Foreground(q) => Foreground(q)'
    BY <2>2 DEF Foreground
  <2> QED
    BY <2>1, <2>3 DEF ForwardedIsForeground
<1>4. CASE NothingToReap
  <2>1. UNCHANGED job_list /\ Free' = Free
    BY <1>4, QuietEffect DEF Quiet
  <2> QED
    BY <1>4, <2>1, FinishForwarded DEF NothingToReap, InHandler
<1>5. ASSUME NEW s \in {"INT", "TSTP"}, KeyStep(s) PROVE ForwardedIsForeground'
  <2>1. UNCHANGED job_list /\ Free' = Free
    BY <1>5, QuietEffect DEF Quiet
  <2>2. CASE Forward(s)
    BY <2>1, <2>2, FinishForwarded DEF Forward, InHandler
  <2>3. CASE ReadForeground(s)
    <3> DEFINE f == [Head(frames) EXCEPT !.read = TRUE, !.pid = fgpid(job_list)]
    <3>1. fgpid(job_list) \in Pids \cup {0}
      BY FgPid DEF TypeOK, TableTypeOK, Job
    <3>2. frames # <<>> /\ frames \in Seq(Frame)
      BY <2>3 DEF ReadForeground, InHandler, TypeOK
    <3>3. f \in Frame /\ f.pid = fgpid(job_list) /\ Tail(frames) \in Seq(Frame)
      <4>1. Head(frames) \in Frame /\ Tail(frames) \in Seq(Frame)
        BY <3>2, PopFrame
      <4> QED
        BY <3>1, <4>1 DEF Frame
    <3>4. frames' = <<f>> \o Tail(frames)
      BY <2>3 DEF ReadForeground
    <3>5. \A q : Foreground(q)' <=> Foreground(q)
      BY <2>1 DEF Foreground
    <3>6. ASSUME NEW k \in DOMAIN frames', frames'[k].read, frames'[k].pid # 0,
                 frames'[k].pid \notin Free
          PROVE  Foreground(frames'[k].pid)
      <4>1. CASE k = 1
        <5>1. frames'[k] = f
          BY <3>3, <3>4, <4>1, PushFrame
        <5> QED
          BY <3>3, <3>6, <5>1, FgPid DEF Foreground
      <4>2. CASE k # 1
        <5>1. k - 1 \in DOMAIN Tail(frames) /\ frames'[k] = Tail(frames)[k - 1]
          BY <3>3, <3>4, <4>2, PushFrame
        <5>2. \E m \in DOMAIN frames : frames'[k] = frames[m]
          BY <3>2, <5>1, PopFrame
        <5> QED
          BY <3>6, <5>2 DEF ForwardedIsForeground
      <4> QED
        BY <4>1, <4>2
    <3> QED
      BY <2>1, <3>5, <3>6 DEF ForwardedIsForeground
  <2> QED
    BY <1>5, <2>2, <2>3 DEF KeyStep
<1>6. ASSUME NEW s \in Handled, Deliver(s) PROVE ForwardedIsForeground'
  <2> DEFINE f == [sig |-> s, read |-> FALSE, pid |-> 0]
  <2>1. UNCHANGED job_list /\ Free' = Free
    BY <1>6, QuietEffect DEF Quiet
  <2>2. f \in Frame /\ frames \in Seq(Frame)
    BY DEF Frame, TypeOK
  <2>3. frames' = <<f>> \o frames
    BY <1>6 DEF Deliver
  <2>4. \A k \in DOMAIN frames' :
           \/ ~frames'[k].read
           \/ \E m \in DOMAIN frames : frames'[k] = frames[m]
    BY <2>2, <2>3, PushFrame
  <2>5. \A q : Foreground(q)' <=> Foreground(q)
    BY <2>1 DEF Foreground
  <2> QED
    BY <2>1, <2>4, <2>5 DEF ForwardedIsForeground
<1>7. CASE \/ QuitDelivered
           \/ \E p \in Pids : ChildStep(p)
           \/ \E s \in UserSignals : UserSignal(s)
           \/ UNCHANGED vars
  <2>1. UNCHANGED job_list /\ Free' = Free
    BY <1>7, QuietEffect DEF Quiet
  <2>2. frames' = frames
    BY <1>7, ChildStepEffect, UserSignalEffect DEF QuitDelivered, vars
  <2> QED
    BY <2>1, <2>2 DEF ForwardedIsForeground, Foreground
<1> QED
  BY <1>1, <1>2, <1>3, <1>4, <1>5, <1>6, <1>7 DEF Next, ReapStep

-----------------------------------------------------------------------------
LEMMA InitInv == Init => Inv
<1> SUFFICES ASSUME Init PROVE Inv
  OBVIOUS
<1>1. TypeOK
  BY InitType
<1>2. \A i \in Slots : job_list[i].pid = 0
  BY DEF Init, TableInit, initjobs, clearjob
<1>3. Free = Pids
  BY DEF Init, NoProcess, Free
<1>4. SlotKnown /\ NewChildIsShielded /\ ForwardedIsForeground
  BY DEF Init, SlotKnown, NewChildIsShielded, ForwardedIsForeground
<1>5. ListingSound /\ ListingComplete
  BY <1>2, <1>3 DEF ListingSound, ListingComplete
<1> QED
  BY <1>1, <1>4, <1>5 DEF Inv

LEMMA InvPreserved == Inv /\ [Next]_vars => Inv'
BY TypePreserved, SlotPreserved, ShieldPreserved, SoundPreserved,
   CompletePreserved, ForwardPreserved DEF Inv

(* The invariant holds in every reachable state.                           *)
THEOREM Invariance == Spec => []Inv
BY InitInv, InvPreserved, PTL DEF Spec

(* Every variable keeps its type.                                          *)
THEOREM Typed == Spec => []TypeOK
<1>1. Inv => TypeOK
  BY DEF Inv
<1> QED
  BY <1>1, Invariance, PTL

(* No dead job is listed and no child is listed twice.                     *)
THEOREM ListIsSound == Spec => []ListingSound
<1>1. Inv => ListingSound
  BY DEF Inv
<1> QED
  BY <1>1, Invariance, PTL

(* Every child is listed from addjob until it is reaped, unless addjob had *)
(* no room for it.                                                         *)
THEOREM ListIsComplete == Spec => []ListingComplete
<1>1. Inv => ListingComplete
  BY DEF Inv
<1> QED
  BY <1>1, Invariance, PTL

(* The handlers forward to a job that is in the foreground, or has stopped *)
(* being it by a stop.                                                     *)
ShellSpares == \A s \in {"INT", "TSTP"} : SparedBy(KeyStep(s))

LEMMA ForwardSpares ==
  ASSUME Inv, NEW s \in {"INT", "TSTP"}, Forward(s),
         NEW p \in Pids, ~(proc'[p].sig \subseteq proc[p].sig)
  PROVE  Foreground(p)
<1>1. frames # <<>> /\ frames \in Seq(Frame) /\ Head(frames).read
  BY DEF Forward, InHandler, Inv, TypeOK
<1>2. Head(frames) = frames[1] /\ 1 \in DOMAIN frames
  BY <1>1, PopFrame
<1>3. p = Head(frames).pid /\ proc'[p] = Signalled(proc[p], s)
  BY DEF Forward, Inv, TypeOK
<1>4. proc[p].st # "none"
  BY <1>3 DEF Signalled
<1>5. p # 0 /\ p \notin Free
  BY <1>4, JobListAssumption DEF Free
<1> QED
  BY <1>1, <1>2, <1>3, <1>5 DEF Inv, ForwardedIsForeground

LEMMA HandlersSpare ==
  ASSUME Inv, NEW s \in {"INT", "TSTP"}
  PROVE  SparedBy(KeyStep(s))
<1> SUFFICES ASSUME KeyStep(s), NEW p \in Pids,
                    ~(proc'[p].sig \subseteq proc[p].sig)
             PROVE  Foreground(p)
  BY DEF SparedBy, Foreground
<1>1. ~ReadForeground(s)
  BY DEF ReadForeground, childVars
<1> QED
  BY <1>1, ForwardSpares DEF KeyStep

(* The shell's handlers never send ctrl-c or ctrl-z to a job listed in the *)
(* background.                                                             *)
THEOREM BackgroundIsSpared == Spec => SparesBackground
<1>1. Inv => ShellSpares
  BY HandlersSpare DEF ShellSpares
<1>2. Inv => [ShellSpares]_vars
  BY <1>1
<1>3. Spec => [][ShellSpares]_vars
  BY <1>2, Invariance, PTL DEF Spec
<1> QED
  BY <1>3 DEF SparesBackground, ShellSpares

-----------------------------------------------------------------------------
(* Without the fg builtin.                                                 *)

(* perform_job never writes FG, and a wait is eval's: for its own job,     *)
(* with the signals blocked.                                               *)
EvalWaits ==
  /\ cur.builtin => cur.state # FG
  /\ Waiting => blocked /\ ~cur.builtin /\ cur.pid \in Pids
  /\ pc \in {"read_pid", "set_state", "continue"} => cur.builtin
  /\ pc \in {"fork", "addjob"} => ~cur.builtin

(* No entry that deletejob has cleared is marked FG afterwards.            *)
FgHasPid == \A i \in Slots : job_list[i].state = FG => job_list[i].pid \in Pids

EvalInv == Inv /\ EvalWaits /\ FgHasPid /\ ForegroundAwaited

LEMMA FgPidFound ==
  ASSUME NEW jl, NEW i \in Slots, jl[i].state = FG
  PROVE  \E k \in Slots : jl[k].state = FG /\ fgpid(jl) = jl[k].pid
<1> DEFINE S == {k \in Slots : jl[k].state = FG}
<1>1. First(S) \in S /\ First(S) # 0
  BY FirstMember
<1> QED
  BY <1>1 DEF fgpid

LEMMA EvalWaitsPreserved ==
  ASSUME "FG" \notin JobCommands, Inv, EvalWaits, [Next]_vars
  PROVE  EvalWaits'
<1> USE DEF EvalWaits, Waiting, jobVars, shellVars, signalVars, childVars
<1>a. cur \in Command_t
  BY DEF Inv, TypeOK
<1>1. CASE Command
  <2>1. ASSUME NEW s \in {FG, BG}, RunCommand(s) PROVE EvalWaits'
    BY <2>1 DEF RunCommand, NoCommand
  <2>2. ASSUME NEW s \in JobCommands,
               NEW j, JobById(s, j) \/ JobByPid(s, j)
        PROVE  EvalWaits'
    BY <2>2 DEF JobById, JobByPid, At, Crash, FG
  <2>3. CASE NoArgument \/ Quit
    BY <2>3 DEF NoArgument, Quit, At, Crash
  <2> QED
    BY <1>1, <2>1, <2>2, <2>3 DEF Command
<1>2. CASE MainStep
  <2>1. ASSUME NEW p \in Pids, Fork(p) PROVE EvalWaits'
    BY <2>1, <1>a DEF Fork, At, Command_t
  <2>2. CASE AddJob
    BY <2>2 DEF AddJob, At, Inv, NewChildIsShielded
  <2>3. CASE ForkFails \/ AddJobFails \/ Unblock
    BY <2>3 DEF ForkFails, AddJobFails, Unblock, Return, NoCommand
  <2>4. CASE WaitTest \/ Suspend
    BY <2>4 DEF WaitTest, Suspend, At
  <2>5. CASE ReadPid
    BY <2>5, <1>a DEF ReadPid, At, Command_t
  <2>6. CASE SetState
    BY <2>6 DEF SetState, At
  <2>7. CASE Continue
    BY <2>7 DEF Continue, At, Return, NoCommand
  <2> QED
    BY <1>2, <2>1, <2>2, <2>3, <2>4, <2>5, <2>6, <2>7 DEF MainStep
<1>3. CASE ReapStep \/ \E s \in {"INT", "TSTP"} : KeyStep(s)
  BY <1>3 DEF ReapStep, KeyStep, ReapDead, ReportStop, NothingToReap,
              ReadForeground, Forward, Finish, Crash
<1>4. CASE \/ \E s \in Handled : Deliver(s)
           \/ QuitDelivered
           \/ \E s \in UserSignals : UserSignal(s)
           \/ UNCHANGED vars
  BY <1>4, UserSignalEffect DEF Deliver, QuitDelivered, vars, Inv
<1>5. ASSUME NEW p \in Pids, ChildStep(p) PROVE EvalWaits'
  BY <1>5, ChildStepEffect DEF Inv
<1> QED
  BY <1>1, <1>2, <1>3, <1>4, <1>5 DEF Next

LEMMA FgHasPidPreserved ==
  ASSUME Inv, EvalWaits, FgHasPid, [Next]_vars
  PROVE  FgHasPid'
<1> USE DEF FgHasPid
<1>t. TypeOK
  BY DEF Inv
<1>1. CASE Quiet
  BY <1>1, <1>t, QuietEffect
<1>2. CASE AddJob
  <2>1. PICK i \in Slots :
           job_list' = [job_list EXCEPT ![i] =
                          [pid |-> cur.pid, jid |-> nextjid,
                           state |-> cur.state]]
    BY <1>2, AddJobSlot DEF AddJob
  <2>2. cur.pid \in Pids
    BY <1>2 DEF AddJob, At, Inv, NewChildIsShielded
  <2> QED
    BY <1>t, <2>1, <2>2 DEF TypeOK, TableTypeOK
<1>3. CASE SetState
  <2>1. cur.state # FG
    BY <1>3 DEF SetState, At, EvalWaits
  <2>2. \A k \in Slots : /\ job_list'[k].pid = job_list[k].pid
                        /\ job_list'[k].state \in {job_list[k].state, cur.state}
    BY <1>3, <1>t, StateOnly DEF SetState
  <2> QED
    BY <2>1, <2>2
<1>4. ASSUME NEW p \in Pids, Listing(p) PROVE FgHasPid'
  <2>1. CASE Fork(p)
    BY <2>1, <1>t, ForkEffect
  <2>2. CASE ReapDead(p)
    <3>1. \A k \in Slots : job_list'[k] = job_list[k] \/ job_list'[k] = clearjob
      BY <2>2, <1>t, ReapDeadEffect DEF TypeOK, TableTypeOK
    <3> QED
      BY <3>1 DEF clearjob, UNDEF, FG
  <2>3. CASE ReportStop(p)
    <3>1. \A k \in Slots : /\ job_list'[k].pid = job_list[k].pid
                          /\ job_list'[k].state \in {job_list[k].state, ST}
      BY <2>3, <1>t, ReportStopEffect, StateOnly
    <3> QED
      BY <3>1 DEF ST, FG
  <2> QED
    BY <1>4, <2>1, <2>2, <2>3 DEF Listing
<1> QED
  BY <1>1, <1>2, <1>3, <1>4, StepCases

(* The step of a handler or of the outside, as the main program sees it.   *)
LEMMA WaitingKept ==
  ASSUME Inv, EvalWaits, FgHasPid, ForegroundAwaited, Alive, Alive', Quiet,
         NEW p \in Pids, IsFg(p)
  PROVE  Waiting' /\ cur' = cur /\ blocked'
<1> USE DEF Waiting, jobVars, shellVars, signalVars, childVars
<1>1. Waiting /\ cur.pid = p /\ blocked
  BY DEF ForegroundAwaited
<1>2. CASE WaitTest
  <2>1. \A q \in Pids : IsFg(q) => q = p
    BY <1>1 DEF ForegroundAwaited
  <2>2. \A i \in Slots : job_list[i].state = FG => job_list[i].pid = p
    BY <2>1 DEF FgHasPid, IsFg
  <2>3. fgpid(job_list) = p
    BY <2>2, FgPidFound DEF IsFg
  <2> QED
    BY <1>1, <1>2, <2>3 DEF WaitTest
<1>3. CASE Suspend
  BY <1>1, <1>3 DEF Suspend
<1>4. CASE \/ Command \/ ForkFails \/ AddJobFails \/ Unblock \/ ReadPid
           \/ Continue
  BY <1>1, <1>4 DEF Command, RunCommand, JobById, JobByPid, NoArgument, Quit,
                    ForkFails, AddJobFails, Unblock, ReadPid, Continue, At
<1>5. CASE \/ NothingToReap \/ \E s \in {"INT", "TSTP"} : KeyStep(s)
           \/ \E s \in Handled : Deliver(s)
           \/ QuitDelivered
           \/ \E s \in UserSignals : UserSignal(s)
           \/ UNCHANGED vars
  BY <1>1, <1>5, UserSignalEffect
     DEF NothingToReap, KeyStep, ReadForeground, Forward, Finish,
         Deliver, QuitDelivered, Alive, vars, Inv
<1>6. ASSUME NEW q \in Pids, ChildStep(q)
      PROVE  Waiting' /\ cur' = cur /\ blocked'
  BY <1>1, <1>6, ChildStepEffect DEF Inv
<1> QED
  BY <1>2, <1>3, <1>4, <1>5, <1>6 DEF Quiet

LEMMA AwaitedPreserved ==
  ASSUME EvalInv, [Next]_vars
  PROVE  ForegroundAwaited'
<1> SUFFICES ASSUME Alive', NEW p \in Pids, IsFg(p)'
             PROVE  Waiting' /\ cur'.pid = p /\ blocked'
  BY DEF ForegroundAwaited
<1>a. Alive
  BY DEF Next, vars, shellVars, Alive
<1>t. Inv /\ TypeOK /\ EvalWaits /\ FgHasPid /\ ForegroundAwaited
  BY DEF EvalInv, Inv
<1>b. IsFg(p) => Waiting /\ cur.pid = p /\ blocked
  BY <1>a, <1>t DEF ForegroundAwaited
<1> USE DEF jobVars, shellVars, signalVars, childVars
<1>1. CASE Quiet
  <2>1. IsFg(p)
    BY <1>1, <1>t, QuietEffect DEF IsFg
  <2> QED
    BY <1>1, <1>a, <1>b, <1>t, <2>1, WaitingKept
<1>2. CASE AddJob
  <2>1. PICK i \in Slots :
           job_list' = [job_list EXCEPT ![i] =
                          [pid |-> cur.pid, jid |-> nextjid,
                           state |-> cur.state]]
    BY <1>2, AddJobSlot DEF AddJob
  <2>2. ~IsFg(p)
    BY <1>2, <1>b DEF AddJob, At, Waiting
  <2>3. p = cur.pid /\ cur.state = FG
    BY <1>t, <2>1, <2>2 DEF IsFg, TypeOK, TableTypeOK
  <2>4. blocked
    BY <1>2, <1>t DEF AddJob, At, Inv, NewChildIsShielded
  <2> QED
    BY <1>2, <2>3, <2>4 DEF AddJob, Waiting
<1>3. CASE SetState
  <2>1. cur.state # FG
    BY <1>3, <1>t DEF SetState, At, EvalWaits
  <2>2. \A k \in Slots : /\ job_list'[k].pid = job_list[k].pid
                        /\ job_list'[k].state \in {job_list[k].state, cur.state}
    BY <1>3, <1>t, StateOnly DEF SetState
  <2>3. IsFg(p)
    BY <2>1, <2>2 DEF IsFg
  <2> QED
    BY <1>3, <1>b, <2>3 DEF SetState, At, Waiting
<1>4. ASSUME NEW q \in Pids, Listing(q)
      PROVE  Waiting' /\ cur'.pid = p /\ blocked'
  <2>1. CASE Fork(q)
    <3>1. IsFg(p)
      BY <2>1, <1>t, ForkEffect DEF IsFg
    <3> QED
      BY <2>1, <1>b, <3>1 DEF Fork, At, Waiting
  <2>2. CASE ReapDead(q)
    <3>1. \A k \in Slots : job_list'[k] = job_list[k] \/ job_list'[k] = clearjob
      BY <2>2, <1>t, ReapDeadEffect DEF TypeOK, TableTypeOK
    <3>2. IsFg(p)
      BY <3>1 DEF IsFg, clearjob, UNDEF, FG
    <3> QED
      BY <2>2, <1>b, <3>2 DEF ReapDead, Waiting
  <2>3. CASE ReportStop(q)
    <3>1. \A k \in Slots : /\ job_list'[k].pid = job_list[k].pid
                          /\ job_list'[k].state \in {job_list[k].state, ST}
      BY <2>3, <1>t, ReportStopEffect, StateOnly
    <3>2. IsFg(p)
      BY <3>1 DEF IsFg, ST, FG
    <3>3. UNCHANGED <<pc, cur, blocked>>
      BY <2>3 DEF ReportStop, Crash, Alive
    <3> QED
      BY <1>b, <3>2, <3>3 DEF Waiting
  <2> QED
    BY <1>4, <2>1, <2>2, <2>3 DEF Listing
<1> QED
  BY <1>1, <1>2, <1>3, <1>4, StepCases

LEMMA EvalInvariance ==
  ASSUME "FG" \notin JobCommands
  PROVE  Spec => []EvalInv
<1>1. Init => EvalInv
  <2> SUFFICES ASSUME Init PROVE EvalInv
    OBVIOUS
  <2>1. \A i \in Slots : job_list[i].state # FG
    BY DEF Init, TableInit, initjobs, clearjob, UNDEF, FG
  <2>2. FgHasPid /\ ForegroundAwaited
    BY <2>1 DEF FgHasPid, ForegroundAwaited, IsFg
  <2>3. EvalWaits
    BY DEF Init, EvalWaits, Waiting, NoCommand
  <2> QED
    BY <2>2, <2>3, InitInv DEF EvalInv
<1>2. EvalInv /\ [Next]_vars => EvalInv'
  BY InvPreserved, EvalWaitsPreserved, FgHasPidPreserved, AwaitedPreserved
     DEF EvalInv
<1> QED
  BY <1>1, <1>2, PTL DEF Spec

(* Without the fg builtin no job is in the FG state at the prompt, and the *)
(* one that is is the job that eval waits for with the signals blocked.    *)
THEOREM ForegroundIsAwaited ==
  ASSUME "FG" \notin JobCommands
  PROVE  Spec => []ForegroundAwaited
<1>1. EvalInv => ForegroundAwaited
  BY DEF EvalInv
<1> QED
  BY <1>1, EvalInvariance, PTL

(* "At most 1 job can be in the FG state", as long as the shell is alive   *)
(* and the fg builtin is not used.                                         *)
THEOREM OneForeground ==
  ASSUME "FG" \notin JobCommands
  PROVE  Spec => [](Alive => AtMostOneFG)
<1>1. ForegroundAwaited => (Alive => AtMostOneFG)
  BY DEF ForegroundAwaited, AtMostOneFG
<1> QED
  BY <1>1, ForegroundIsAwaited, PTL

(* A child is forked when nothing is in the foreground: its copy of the    *)
(* list shows no foreground job, to whatever signal it handles later.      *)
CopiesIdle == \A p \in Pids : proc[p].fg = 0

LEMMA ForkedIdle ==
  ASSUME EvalInv, Alive, NEW p \in Pids, Fork(p)
  PROVE  fgpid(job_list) = 0
<1>1. pc = "fork"
  BY DEF Fork, At
<1>2. \A q \in Pids : ~IsFg(q)
  BY <1>1 DEF EvalInv, ForegroundAwaited, Waiting
<1>3. \A i \in Slots : job_list[i].state # FG
  BY <1>2 DEF EvalInv, FgHasPid, IsFg
<1> QED
  BY <1>3, FgPid

LEMMA CopiesIdlePreserved ==
  ASSUME EvalInv, CopiesIdle, [Next]_vars
  PROVE  CopiesIdle'
<1>t. TypeOK /\ proc \in [Pids -> Process]
  BY DEF EvalInv, Inv, TypeOK
<1> SUFFICES ASSUME NEW p \in Pids PROVE proc'[p].fg = 0
  BY DEF CopiesIdle
<1>p. \A q \in Pids : proc[q].fg = 0
  BY DEF CopiesIdle
<1> USE DEF childVars
<1>1. CASE \/ Command \/ ForkFails \/ AddJob \/ AddJobFails \/ Unblock
           \/ WaitTest \/ Suspend \/ ReadPid \/ SetState \/ NothingToReap
           \/ \E s \in {"INT", "TSTP"} : ReadForeground(s)
           \/ \E s \in Handled : Deliver(s)
           \/ QuitDelivered
           \/ UNCHANGED vars
  BY <1>1, <1>p
     DEF Command, RunCommand, JobById, JobByPid, NoArgument, Quit, ForkFails,
         AddJob, AddJobFails, Unblock, WaitTest, Suspend, ReadPid, SetState,
         NothingToReap, ReadForeground, Deliver, QuitDelivered, vars
<1>2. ASSUME Alive, NEW q \in Pids, Fork(q) PROVE proc'[p].fg = 0
  BY <1>2, <1>t, <1>p, ForkedIdle DEF Fork
<1>3. CASE Continue
  <2>1. \A q \in Process : Continued(q).fg = q.fg
    BY DEF Continued, Process
  <2> QED
    BY <1>3, <1>t, <1>p, <2>1 DEF Continue
<1>4. ASSUME NEW q \in Pids, ReapDead(q) \/ ReportStop(q) PROVE proc'[p].fg = 0
  BY <1>4, <1>t, <1>p DEF ReapDead, ReportStop, NoProcess, Process
<1>5. ASSUME NEW s \in {"INT", "TSTP"}, Forward(s) PROVE proc'[p].fg = 0
  <2>1. \A q \in Process : Signalled(q, s).fg = q.fg
    BY DEF Signalled, Process
  <2> QED
    BY <1>5, <1>t, <1>p, <2>1 DEF Forward
<1>6. ASSUME NEW q \in Pids, ChildStep(q) PROVE proc'[p].fg = 0
  <2>1. ASSUME NEW s, InheritedHandler(q, s) PROVE proc'[p].fg = 0
    BY <2>1, <1>t, <1>p DEF InheritedHandler, Process
  <2>2. CASE Setpgid(q)
    BY <2>2, <1>t, <1>p DEF Setpgid, Process
  <2>3. CASE \/ InheritedQuit(q) \/ Exec(q) \/ ExecFails(q)
             \/ Reacts(q) \/ Dies(q) \/ Stops(q)
    BY <2>3, <1>t, <1>p DEF InheritedQuit, Exec, ExecFails, Reacts, TakeInt,
                            TakeTstp, Resume, Dies, Stops, Becomes
  <2> QED
    BY <1>6, <2>1, <2>2, <2>3 DEF ChildStep, Startup
<1>7. ASSUME NEW s \in UserSignals, UserSignal(s) PROVE proc'[p].fg = 0
  <2>1. \A q \in Process : Reached(q, s).fg = q.fg
    BY DEF Reached, Process
  <2> QED
    BY <1>7, <1>t, <1>p, <2>1 DEF UserSignal
<1> QED
  BY <1>1, <1>2, <1>3, <1>4, <1>5, <1>6, <1>7 DEF Next, MainStep, ReapStep, KeyStep

(* Without the fg builtin no handler, the shell's nor a new child's, sends *)
(* the signal of a key to a job listed in the background.                  *)
HandlersSpareAll ==
  \A s \in {"INT", "TSTP"} : /\ SparedBy(KeyStep(s))
                             /\ \A p \in Pids : SparedBy(InheritedHandler(p, s))

THEOREM KeysAreForTheForeground ==
  ASSUME "FG" \notin JobCommands
  PROVE  Spec => KeysSpareBackground
<1>1. ASSUME Inv, CopiesIdle, NEW s \in {"INT", "TSTP"}, NEW p \in Pids
      PROVE  SparedBy(InheritedHandler(p, s))
  <2>1. ASSUME InheritedHandler(p, s), NEW q \in Pids
        PROVE  proc'[q].sig \subseteq proc[q].sig
    BY <1>1, <2>1 DEF InheritedHandler, CopiesIdle, Inv, TypeOK, Process
  <2> QED
    BY <2>1 DEF SparedBy
<1>2. EvalInv /\ CopiesIdle => [HandlersSpareAll]_vars
  BY <1>1, HandlersSpare DEF HandlersSpareAll, EvalInv
<1>3. Init => CopiesIdle
  BY DEF Init, CopiesIdle, NoProcess
<1>4. Spec => [][HandlersSpareAll]_vars
  BY <1>2, <1>3, EvalInvariance, CopiesIdlePreserved, PTL DEF Spec
<1> QED
  BY <1>4 DEF KeysSpareBackground, HandlersSpareAll

-----------------------------------------------------------------------------
(* Without the builtins fg and bg.                                         *)

(* perform_job is never entered; a child is not reported stopped before it *)
(* is listed; and sigchld_handler misses an entry only for a child that    *)
(* addjob has refused.                                                     *)
NoJobCommand == pc \notin {"read_pid", "set_state", "continue"}

NewIsNotStopped == pc = "addjob" => proc[cur.pid].st # "stopped"

CrashIsUntracked == pc = "crashed" => untracked # {}

StopInv == /\ Inv
           /\ NoJobCommand
           /\ NewIsNotStopped
           /\ CrashIsUntracked
           /\ StoppedIsListed

(* The steps that are left never stop a child for good nor wake one.       *)
LEMMA QuietStops ==
  ASSUME TypeOK, NoJobCommand, Quiet, NEW p \in Pids
  PROVE  /\ proc'[p].st = "stopped" => proc[p].st = "stopped"
         /\ proc[p].st \in {"stopped", "zombie"}
              => proc'[p].st \in {"stopped", "zombie"}
<1> USE DEF TypeOK, jobVars, shellVars, signalVars, childVars
<1>1. CASE Command
  BY <1>1 DEF Command, RunCommand, JobById, JobByPid, NoArgument, Quit
<1>2. CASE ForkFails \/ AddJobFails \/ Unblock \/ WaitTest \/ Suspend \/ ReadPid
  BY <1>2 DEF ForkFails, AddJobFails, Unblock, WaitTest, Suspend, ReadPid
<1>3. CASE NothingToReap
  BY <1>3 DEF NothingToReap
<1>4. ASSUME NEW s \in {"INT", "TSTP"}, KeyStep(s)
      PROVE  proc'[p].st = proc[p].st
  BY <1>4, SignalledKeeps DEF KeyStep, ReadForeground, Forward
<1>5. CASE \/ \E s \in Handled : Deliver(s)
           \/ QuitDelivered
           \/ \E s \in UserSignals : UserSignal(s)
           \/ UNCHANGED vars
  BY <1>5, UserSignalEffect DEF Deliver, QuitDelivered, vars
<1>6. ASSUME NEW q \in Pids, ChildStep(q)
      PROVE  /\ proc'[p].st = "stopped" => proc[p].st = "stopped"
             /\ proc[p].st \in {"stopped", "zombie"}
                  => proc'[p].st \in {"stopped", "zombie"}
  <2>1. CASE \E s \in {"INT", "TSTP"} : InheritedHandler(q, s)
    BY <2>1, InheritedEffect
  <2>2. CASE Setpgid(q)
    BY <2>2 DEF Setpgid, Process
  <2>3. CASE InheritedQuit(q) \/ Exec(q) \/ ExecFails(q)
    BY <2>3 DEF InheritedQuit, BeforeExec, Exec, ExecFails, Becomes
  <2>4. CASE Reacts(q) \/ Dies(q) \/ Stops(q)
    BY <2>4 DEF Reacts, TakeInt, TakeTstp, Resume, Dies, Stops, Becomes
  <2> QED
    BY <1>6, <2>1, <2>2, <2>3, <2>4 DEF ChildStep, Startup
<1> QED
  BY <1>1, <1>2, <1>3, <1>4, <1>5, <1>6 DEF Quiet, NoJobCommand, Continue, At

LEMMA NoJobCommandPreserved ==
  ASSUME JobCommands = {}, Inv, NoJobCommand, [Next]_vars
  PROVE  NoJobCommand'
<1> USE DEF NoJobCommand, jobVars, shellVars, signalVars, childVars
<1>1. CASE Command
  BY <1>1 DEF Command, RunCommand, Quit
<1>2. CASE MainStep
  BY <1>2 DEF MainStep, Fork, ForkFails, AddJob, AddJobFails, Unblock, WaitTest,
              Suspend, ReadPid, SetState, Continue, Return, At
<1>3. CASE ReapStep \/ \E s \in {"INT", "TSTP"} : KeyStep(s)
  BY <1>3 DEF ReapStep, KeyStep, ReapDead, ReportStop, NothingToReap,
              ReadForeground, Forward, Finish, Crash
<1>4. CASE \/ \E s \in Handled : Deliver(s)
           \/ QuitDelivered
           \/ \E s \in UserSignals : UserSignal(s)
           \/ UNCHANGED vars
  BY <1>4, UserSignalEffect DEF Deliver, QuitDelivered, vars, Inv
<1>5. ASSUME NEW p \in Pids, ChildStep(p) PROVE NoJobCommand'
  BY <1>5, ChildStepEffect DEF Inv
<1> QED
  BY <1>1, <1>2, <1>3, <1>4, <1>5 DEF Next

LEMMA NewIsNotStoppedPreserved ==
  ASSUME JobCommands = {}, Inv, NoJobCommand, NewIsNotStopped, [Next]_vars
  PROVE  NewIsNotStopped'
<1> SUFFICES ASSUME pc' = "addjob" PROVE proc'[cur'.pid].st # "stopped"
  BY DEF NewIsNotStopped
<1>t. TypeOK /\ NewChildIsShielded
  BY DEF Inv
<1> USE DEF jobVars, shellVars, signalVars, childVars
<1>1. ASSUME NEW p \in Pids, Fork(p) PROVE proc'[cur'.pid].st # "stopped"
  BY <1>1, <1>t DEF Fork, TypeOK, Command_t
<1>2. CASE Quiet
  <2>1. pc = "addjob" /\ UNCHANGED cur
    BY <1>2, <1>t, ChildStepEffect, UserSignalEffect
       DEF Quiet, Command, RunCommand, Quit, ForkFails, AddJobFails, Unblock,
           WaitTest, Suspend, ReadPid, Continue, Return, NothingToReap, KeyStep,
           ReadForeground, Forward, Finish, Deliver, QuitDelivered, vars
  <2>2. cur.pid \in Pids
    BY <1>t, <2>1 DEF NewChildIsShielded
  <2> QED
    BY <1>2, <1>t, <2>1, <2>2, QuietStops DEF NewIsNotStopped
<1>3. CASE AddJob \/ SetState
  BY <1>3 DEF AddJob, SetState
<1>4. ASSUME NEW p \in Pids, ReapDead(p) \/ ReportStop(p) PROVE FALSE
  <2>1. frames # <<>> /\ pc = "addjob"
    BY <1>4 DEF ReapDead, ReportStop, InHandler, Crash
  <2> QED
    BY <1>t, <2>1 DEF NewChildIsShielded
<1> QED
  BY <1>1, <1>2, <1>3, <1>4, StepCases DEF Listing

LEMMA CrashIsUntrackedPreserved ==
  ASSUME JobCommands = {}, Inv, CrashIsUntracked, [Next]_vars
  PROVE  CrashIsUntracked'
<1> SUFFICES ASSUME pc' = "crashed" PROVE untracked' # {}
  BY DEF CrashIsUntracked
<1> USE DEF jobVars, shellVars, signalVars, childVars
<1>1. CASE UNCHANGED vars
  BY <1>1 DEF vars, CrashIsUntracked
<1>2. ASSUME NEW p \in Pids, ReportStop(p), Alive PROVE untracked' # {}
  <2>1. getjobpid(job_list, p) = 0 /\ untracked' = untracked
    BY <1>2 DEF ReportStop, Alive
  <2>2. ~Listed(p)
    BY <2>1, GetJobPid DEF Listed
  <2>3. p \notin Free /\ frames # <<>>
    BY <1>2 DEF ReportStop, Free, InHandler
  <2>4. ~AboutToAdd(p)
    BY <2>3 DEF AboutToAdd, Inv, NewChildIsShielded
  <2>5. p \in untracked
    BY <1>2, <2>2, <2>3, <2>4 DEF Inv, ListingComplete
  <2> QED
    BY <2>1, <2>5
<1>3. CASE Next /\ ~\E p \in Pids : ReportStop(p)
  <2>1. Alive
    BY <1>3 DEF Next
  <2>2. ~Command /\ ~MainStep
    BY <2>1 DEF Command, RunCommand, Quit, MainStep, Fork, ForkFails, AddJob,
                AddJobFails, Unblock, WaitTest, Suspend, ReadPid, SetState,
                Continue, Return, Alive
  <2>3. ~ReapStep /\ ~\E s \in {"INT", "TSTP"} : KeyStep(s)
    BY <1>3, <2>1 DEF ReapStep, ReapDead, NothingToReap, KeyStep, ReadForeground,
                Forward, Finish, Alive
  <2>4. /\ ~\E s \in Handled : Deliver(s)
        /\ ~QuitDelivered
        /\ ~\E s \in UserSignals : UserSignal(s)
    BY <2>1, UserSignalEffect DEF Deliver, QuitDelivered, Alive, Inv
  <2>5. ASSUME NEW p \in Pids, ChildStep(p) PROVE FALSE
    BY <2>1, <2>5, ChildStepEffect DEF Inv, Alive
  <2> QED
    BY <1>3, <2>2, <2>3, <2>4, <2>5 DEF Next
<1> QED
  BY <1>1, <1>2, <1>3 DEF Next

LEMMA StoppedPreserved ==
  ASSUME Inv, Inv', NoJobCommand, NewIsNotStopped, StoppedIsListed, [Next]_vars
  PROVE  StoppedIsListed'
<1>t. TypeOK /\ ListingSound
  BY DEF Inv
<1>p. \A i \in Slots : job_list[i].pid \in Pids \cup {0}
  BY <1>t DEF TypeOK, TableTypeOK, Job
<1>z. 0 \notin Pids
  BY JobListAssumption
<1> USE DEF StoppedIsListed, jobVars, shellVars, signalVars, childVars
<1>1. CASE Quiet
  BY <1>1, <1>t, <1>p, QuietEffect, QuietStops
<1>2. CASE AddJob
  <2>1. PICK i \in Slots :
           job_list' = [job_list EXCEPT ![i] =
                          [pid |-> cur.pid, jid |-> nextjid,
                           state |-> cur.state]]
    BY <1>2, AddJobSlot DEF AddJob
  <2>2. cur.state # ST /\ proc[cur.pid].st # "stopped" /\ proc' = proc
    BY <1>2, <1>t DEF AddJob, At, NewIsNotStopped, TypeOK, Command_t, ST, UNDEF, FG, BG
  <2> QED
    BY <1>t, <2>1, <2>2 DEF TypeOK, TableTypeOK
<1>3. CASE SetState
  BY <1>3 DEF SetState, At, NoJobCommand
<1>4. ASSUME NEW p \in Pids, Fork(p) PROVE StoppedIsListed'
  <2>1. UNCHANGED job_list /\ p \in Free
    BY <1>4, <1>t, ForkEffect
  <2>2. \A q \in Pids \ {p} : proc'[q] = proc[q]
    BY <1>4, <1>t DEF Fork, TypeOK
  <2>3. \A i \in Slots : job_list[i].pid # p
    BY <1>t, <1>z, <2>1 DEF ListingSound
  <2> QED
    BY <1>p, <2>1, <2>2, <2>3
<1>5. ASSUME NEW p \in Pids, ReapDead(p) PROVE StoppedIsListed'
  <2>1. p \in Free' /\ \A q \in Pids \ {p} : proc'[q] = proc[q]
    BY <1>5, <1>t, ReapDeadEffect DEF ReapDead, TypeOK
  <2>2. \A i \in Slots : job_list'[i].pid # p
    BY <1>z, <2>1 DEF Inv, ListingSound
  <2>3. \A i \in Slots : job_list'[i] = job_list[i] \/ job_list'[i] = clearjob
    BY <1>5, <1>t, ReapDeadEffect DEF TypeOK, TableTypeOK
  <2> QED
    BY <1>p, <2>1, <2>2, <2>3 DEF clearjob
<1>6. ASSUME NEW p \in Pids, ReportStop(p) PROVE StoppedIsListed'
  <2>1. /\ proc'[p].st = "stopped"
        /\ \A q \in Pids \ {p} : proc'[q] = proc[q]
    BY <1>6, <1>t DEF ReportStop, TypeOK
  <2>2. CASE getjobpid(job_list, p) = 0
    <3>1. \A i \in Slots : job_list[i].pid # p
      BY <2>2, GetJobPid
    <3>2. UNCHANGED job_list
      BY <1>6, <2>2 DEF ReportStop
    <3> QED
      BY <1>p, <2>1, <3>1, <3>2
  <2>3. CASE getjobpid(job_list, p) # 0
    <3> DEFINE i == getjobpid(job_list, p)
    <3>1. i \in Slots /\ job_list[i].pid = p
      BY <2>3, GetJobPid
    <3>2. job_list' = [job_list EXCEPT ![i].state = ST]
      BY <1>6, <2>3 DEF ReportStop
    <3>3. /\ job_list'[i].pid = p /\ job_list'[i].state = ST
          /\ \A k \in Slots \ {i} : job_list'[k] = job_list[k]
      BY <1>t, <3>1, <3>2 DEF TypeOK, TableTypeOK, Job
    <3>4. \A k \in Slots \ {i} : job_list[k].pid # p
      BY <1>t, <1>z, <3>1 DEF ListingSound
    <3>5. \A k \in Slots \ {i} : job_list[k].pid # 0 => job_list[k].pid \in Pids \ {p}
      BY <1>p, <3>4
    <3> QED
      BY <2>1, <3>3, <3>5
  <2> QED
    BY <2>2, <2>3
<1> QED
  BY <1>1, <1>2, <1>3, <1>4, <1>5, <1>6, StepCases DEF Listing

LEMMA StopInvInit == Init => StopInv
<1> SUFFICES ASSUME Init PROVE StopInv
  OBVIOUS
<1>1. \A i \in Slots : job_list[i].pid = 0
  BY DEF Init, TableInit, initjobs, clearjob
<1> QED
  BY <1>1, InitInv DEF Init, StopInv, NoJobCommand, NewIsNotStopped,
                       CrashIsUntracked, StoppedIsListed

LEMMA StopInvPreserved ==
  ASSUME JobCommands = {}
  PROVE  StopInv /\ [Next]_vars => StopInv'
BY InvPreserved, NoJobCommandPreserved, NewIsNotStoppedPreserved,
   CrashIsUntrackedPreserved, StoppedPreserved DEF StopInv

(* Without bg and fg the list shows a job as stopped exactly when its      *)
(* child is, up to a SIGCHLD that has not been handled.                    *)
THEOREM StoppedJobsAreListed ==
  ASSUME JobCommands = {}
  PROVE  Spec => []StoppedIsListed
<1>1. StopInv => StoppedIsListed
  BY DEF StopInv
<1> QED
  BY <1>1, StopInvInit, StopInvPreserved, PTL DEF Spec

-----------------------------------------------------------------------------
(* With an entry for every process there can be, addjob refuses none: the  *)
(* listed children and the new one are different processes.                *)
LEMMA RoomForAll ==
  ASSUME Inv, AboutToAdd(cur.pid),
         IsFiniteSet(Pids), Cardinality(Pids) <= MAXJOBS
  PROVE  ~Full
<1> SUFFICES ASSUME Full PROVE FALSE
  OBVIOUS
<1> DEFINE Others == Pids \ {cur.pid}
           f == [i \in Slots |-> job_list[i].pid]
<1>1. cur.pid \in Pids /\ ~Listed(cur.pid)
  BY DEF AboutToAdd, Inv, NewChildIsShielded
<1>2. f \in [Slots -> Others]
  BY <1>1 DEF Full, Listed, Inv, TypeOK, TableTypeOK, Job
<1>3. \A i, k \in Slots : f[i] = f[k] => i = k
  BY DEF Full, Inv, ListingSound
<1>4. IsFiniteSet(Others) /\ Cardinality(Others) = Cardinality(Pids) - 1
  BY <1>1, FS_RemoveElement
<1>5. IsFiniteSet(Slots) /\ Cardinality(Slots) = MAXJOBS
  BY FS_Interval, JobListAssumption DEF Slots
<1>6. f \in Injection(Slots, Others)
  BY <1>2, <1>3, Fun_IsInj
<1>7. Cardinality(Slots) <= Cardinality(Others)
  BY <1>4, <1>6, FS_Injection
<1> QED
  BY <1>4, <1>5, <1>7, JobListAssumption, FS_CardinalityType

LEMMA AllTracked ==
  ASSUME Inv, untracked = {}, [Next]_vars,
         IsFiniteSet(Pids), Cardinality(Pids) <= MAXJOBS
  PROVE  untracked' = {}
<1> USE DEF jobVars, shellVars, signalVars, childVars
<1>1. CASE AddJobFails
  BY <1>1, RoomForAll DEF AddJobFails, At, AboutToAdd
<1>2. CASE Quiet /\ ~AddJobFails
  BY <1>2, ChildStepEffect, UserSignalEffect
     DEF Inv, Quiet, Command, RunCommand, JobById, JobByPid, NoArgument, Quit,
         ForkFails, Unblock, WaitTest, Suspend, ReadPid, Continue, NothingToReap,
         KeyStep, ReadForeground, Forward, Deliver, QuitDelivered, vars
<1>3. CASE AddJob \/ SetState \/ \E p \in Pids : Listing(p)
  BY <1>3 DEF AddJob, SetState, Listing, Fork, ReapDead, ReportStop
<1> QED
  BY <1>1, <1>2, <1>3, StepCases

(* sigchld_handler finds an entry for every child that stops, when there   *)
(* are no more processes than entries and fg and bg are not used.          *)
THEOREM HandlerFindsEntry ==
  ASSUME JobCommands = {}, IsFiniteSet(Pids), Cardinality(Pids) <= MAXJOBS
  PROVE  Spec => []NeverCrashes
<1>1. Init => untracked = {}
  BY DEF Init
<1>2. StopInv /\ untracked = {} /\ [Next]_vars => (untracked = {})'
  BY AllTracked DEF StopInv
<1>3. StopInv /\ untracked = {} => NeverCrashes
  BY DEF StopInv, CrashIsUntracked, NeverCrashes
<1> QED
  BY <1>1, <1>2, <1>3, StopInvInit, StopInvPreserved, PTL DEF Spec

-----------------------------------------------------------------------------
(* The redirections: the shell keeps its descriptors over any sequence of  *)
(* commands, and each command finds its files, whatever the limit on       *)
(* descriptors and the files.                                              *)
(*                                                                         *)
(* Every call of the sequence keeps what a descriptor that was open stands *)
(* for, but for the one change_IO redirects; that one is restored from the *)
(* copy dup has made.  If dup had no descriptor left, open has none        *)
(* either, and nothing was redirected.                                     *)

(* The numbers of the two streams are descriptors.                         *)
LEMMA StreamFds == 0 \in Fds /\ 1 \in Fds /\ None \notin Fds
  BY StreamsAssumption DEF Fds, None

(* Lowest is a free descriptor if there is one, and None if not.           *)
LEMMA LowestIsFree ==
  ASSUME NEW t \in Tables
  PROVE  IF FreeFds(t) = {} THEN Lowest(t) = None
                         ELSE Lowest(t) \in Fds /\ t[Lowest(t)] = Shut
<1>1. CASE FreeFds(t) = {}
  BY <1>1 DEF Lowest
<1>2. CASE FreeFds(t) # {}
  <2>1. FreeFds(t) \in SUBSET Nat
    BY StreamsAssumption DEF FreeFds, Fds
  <2>2. \E fd \in FreeFds(t) : \A other \in FreeFds(t) : fd <= other
    BY <1>2, <2>1, LeastNat
  <2>3. Lowest(t) \in FreeFds(t)
    BY <1>2, <2>2 DEF Lowest
  <2> QED
    BY <1>2, <2>3 DEF FreeFds
<1> QED
  BY <1>1, <1>2

(* open and dup keep what is open, and the new descriptor has the file.    *)
LEMMA OpenedKeeps ==
  ASSUME NEW t \in Tables, NEW file \in Files
  PROVE  /\ Opened(t, file) \in Tables
         /\ \A fd \in Fds : t[fd] # Shut => Opened(t, file)[fd] = t[fd]
         /\ Lowest(t) # None => Opened(t, file)[Lowest(t)] = file
<1>1. CASE FreeFds(t) = {}
  BY <1>1, LowestIsFree DEF Opened
<1>2. CASE FreeFds(t) # {}
  <2>1. Lowest(t) \in Fds /\ t[Lowest(t)] = Shut /\ Lowest(t) # None
    BY <1>2, LowestIsFree, StreamFds
  <2> QED
    BY <2>1 DEF Opened, Tables
<1> QED
  BY <1>1, <1>2

(* A redirection with a free descriptor changes the stream and nothing     *)
(* else, without one or without a file nothing at all.                     *)
LEMMA RedirectChanges ==
  ASSUME NEW t \in Tables, NEW file \in Files \cup {Shut}, NEW to \in Fds,
         t[to] # Shut
  PROVE  Redirect(t, file, to) = IF file = Shut \/ FreeFds(t) = {} THEN t
                                 ELSE [t EXCEPT ![to] = file]
<1>1. CASE file = Shut
  BY <1>1 DEF Redirect
<1>2. CASE file # Shut /\ FreeFds(t) = {}
  <2>1. Lowest(t) = None
    BY <1>2, LowestIsFree
  <2> QED
    BY <1>2, <2>1 DEF Redirect, Opened, dup2, close
<1>3. CASE file # Shut /\ FreeFds(t) # {}
  <2> DEFINE low == Lowest(t)
             t1 == [t EXCEPT ![low] = file]
             t2 == [t1 EXCEPT ![to] = t1[low]]
             t3 == [t2 EXCEPT ![low] = Shut]
  <2>1. low \in Fds /\ t[low] = Shut /\ low # None /\ low # to
    BY <1>3, LowestIsFree, StreamFds
  <2>2. Redirect(t, file, to) = t3
    BY <1>3, <2>1 DEF Redirect, Opened, dup2, close
  <2>3. t1[low] = file
    BY <2>1 DEF Tables
  <2>4. t3 = [t EXCEPT ![to] = file]
    BY <2>1, <2>3 DEF Tables
  <2> QED
    BY <1>3, <2>2, <2>4
<1> QED
  BY <1>1, <1>2, <1>3

(* change_IO leaves the table as it is if no descriptor is free, and       *)
(* changes no more than the two streams otherwise.                         *)
LEMMA ChangeIOKeeps ==
  ASSUME NEW t \in Tables, t[0] # Shut, t[1] # Shut,
         NEW infile \in Files \cup {Shut}, NEW outfile \in Files \cup {Shut}
  PROVE  LET c == change_IO(t, infile, outfile)
         IN  /\ c \in Tables
             /\ \A fd \in Fds \ {0, 1} : c[fd] = t[fd]
             /\ FreeFds(t) = {} => c = t
<1> DEFINE r == Redirect(t, infile, 0)
<1>1. r = IF infile = Shut \/ FreeFds(t) = {} THEN t ELSE [t EXCEPT ![0] = infile]
  BY RedirectChanges, StreamFds
<1>2. r \in Tables /\ r[1] # Shut
  BY <1>1, StreamFds DEF Tables
<1>3. change_IO(t, infile, outfile) =
        IF outfile = Shut \/ FreeFds(r) = {} THEN r ELSE [r EXCEPT ![1] = outfile]
  BY <1>2, RedirectChanges, StreamFds DEF change_IO
<1>4. FreeFds(t) = {} => change_IO(t, infile, outfile) = t
  BY <1>1, <1>3
<1>5. change_IO(t, infile, outfile) \in Tables
  BY <1>2, <1>3, StreamFds DEF Tables
<1>6. \A fd \in Fds \ {0, 1} : change_IO(t, infile, outfile)[fd] = t[fd]
  BY <1>1, <1>2, <1>3 DEF Tables
<1> QED
  BY <1>4, <1>5, <1>6

(* A builtin command keeps what every descriptor that is open stands for.  *)
LEMMA BuiltinKeeps ==
  ASSUME NEW t \in Tables, t[0] # Shut, t[1] # Shut,
         NEW infile \in Files \cup {Shut}, NEW outfile \in Files \cup {Shut}
  PROVE  /\ Builtin(t, infile, outfile) \in Tables
         /\ \A fd \in Fds : t[fd] # Shut => Builtin(t, infile, outfile)[fd] = t[fd]
<1> DEFINE out == Lowest(t)
           t1  == Opened(t, t[1])
           in  == Lowest(t1)
           t2  == Opened(t1, t1[0])
           t3  == change_IO(t2, infile, outfile)
           t4  == dup2(t3, out, 1)
<1>1. /\ t1 \in Tables /\ t1[0] = t[0] /\ t1[1] = t[1]
      /\ \A k \in Fds : t[k] # Shut => t1[k] = t[k]
  BY OpenedKeeps, StreamFds DEF Tables
<1>2. /\ t2 \in Tables /\ t2[0] = t[0] /\ t2[1] = t[1]
      /\ \A k \in Fds : t[k] # Shut => t2[k] = t[k]
  BY <1>1, OpenedKeeps, StreamFds DEF Tables
<1>3. t3 \in Tables /\ \A k \in Fds \ {0, 1} : t3[k] = t2[k]
  BY <1>2, ChangeIOKeeps
<1>4. t4 \in Tables /\ t4[1] = t[1] /\ \A k \in Fds \ {1} : t4[k] = t3[k]
  <2>1. CASE out = None
    <3>1. FreeFds(t) = {}
      BY <2>1, LowestIsFree, StreamFds
    <3>2. t1 = t /\ in = None /\ t2 = t
      BY <2>1 DEF Opened
    <3>3. t3 = t
      BY <3>1, <3>2, ChangeIOKeeps
    <3> QED
      BY <2>1, <3>3 DEF dup2
  <2>2. CASE out # None
    <3>1. out \in Fds \ {0, 1} /\ t1[out] = t[1]
      BY <2>2, LowestIsFree, OpenedKeeps, StreamFds DEF Tables
    <3>2. t2[out] = t[1]
      BY <1>1, <3>1, OpenedKeeps, StreamFds DEF Tables
    <3>3. t3[out] = t[1]
      BY <1>3, <3>1, <3>2
    <3> QED
      BY <1>3, <2>2, <3>1, <3>3, StreamFds DEF dup2, Tables
  <2> QED
    BY <2>1, <2>2
<1>5. /\ dup2(t4, in, 0) \in Tables /\ dup2(t4, in, 0)[0] = t[0]
      /\ \A k \in Fds \ {0} : dup2(t4, in, 0)[k] = t4[k]
  <2>1. CASE in = None
    <3>1. FreeFds(t1) = {}
      BY <1>1, <2>1, LowestIsFree, StreamFds
    <3>2. t2 = t1
      BY <2>1 DEF Opened
    <3>3. t3 = t1
      BY <1>1, <3>1, <3>2, ChangeIOKeeps
    <3>4. t4[0] = t[0]
      BY <1>1, <1>4, <3>3, StreamFds
    <3> QED
      BY <1>4, <2>1, <3>4 DEF dup2
  <2>2. CASE in # None
    <3>1. in \in Fds \ {0, 1} /\ t2[in] = t[0]
      BY <1>1, <2>2, LowestIsFree, OpenedKeeps, StreamFds DEF Tables
    <3>2. t4[in] = t[0]
      BY <1>3, <1>4, <3>1
    <3> QED
      BY <1>4, <2>2, <3>1, <3>2, StreamFds DEF dup2, Tables
  <2> QED
    BY <2>1, <2>2
<1>6. Builtin(t, infile, outfile) = dup2(t4, in, 0)
  BY DEF Builtin
<1> QED
  BY <1>2, <1>3, <1>4, <1>5, <1>6, StreamFds

(* With a free descriptor change_IO makes the files that are named the two *)
(* streams and changes nothing else.                                       *)
LEMMA ChangeIORedirects ==
  ASSUME NEW t \in Tables, t[0] # Shut, t[1] # Shut, FreeFds(t) # {},
         NEW infile \in Files \cup {Shut}, NEW outfile \in Files \cup {Shut}
  PROVE  change_IO(t, infile, outfile) =
           [t EXCEPT ![0] = IF infile = Shut THEN t[0] ELSE infile,
                     ![1] = IF outfile = Shut THEN t[1] ELSE outfile]
<1> DEFINE r == [t EXCEPT ![0] = IF infile = Shut THEN t[0] ELSE infile]
<1>1. Redirect(t, infile, 0) = r
  BY RedirectChanges, StreamFds DEF Tables
<1>2. r \in Tables /\ r[0] # Shut /\ r[1] = t[1] /\ FreeFds(r) # {}
  BY StreamsAssumption, StreamFds DEF Tables, FreeFds
<1>3. Redirect(r, outfile, 1) =
        [r EXCEPT ![1] = IF outfile = Shut THEN t[1] ELSE outfile]
  <2>1. CASE outfile = Shut
    <3>1. r = [r EXCEPT ![1] = t[1]]
      BY <1>2, StreamFds DEF Tables
    <3> QED
      BY <2>1, <3>1 DEF Redirect
  <2>2. CASE outfile # Shut
    <3> HIDE DEF r
    <3>1. Redirect(r, outfile, 1) = [r EXCEPT ![1] = outfile]
      BY <1>2, <2>2, RedirectChanges, StreamFds
    <3> QED
      BY <2>2, <3>1
  <2> QED
    BY <2>1, <2>2
<1> QED
  BY <1>1, <1>3 DEF change_IO

-----------------------------------------------------------------------------
(* The invariant: the shell's streams are open, and the last command found *)
(* its own.                                                                *)
StreamsInv == /\ fds \in Tables /\ fds[0] # Shut /\ fds[1] # Shut
              /\ ChildRedirected

(* The invariant of the shell's descriptors.                               *)
THEOREM StreamsInvariance == StreamsSpec => []StreamsInv
<1>1. StreamsInit => StreamsInv
  BY DEF StreamsInit, StreamsInv, ChildRedirected, NoChild
<1>2. StreamsInv /\ [StreamsNext]_streamVars => StreamsInv'
  <2> SUFFICES ASSUME StreamsInv, [StreamsNext]_streamVars PROVE StreamsInv'
    OBVIOUS
  <2>1. ASSUME NEW infile \in Files \cup {Shut}, NEW outfile \in Files \cup {Shut},
               BuiltinCommand(infile, outfile)
        PROVE  StreamsInv'
    <3>1. fds' = Builtin(fds, infile, outfile) /\ child' = NoChild
      BY <2>1 DEF BuiltinCommand
    <3>2. fds' \in Tables /\ fds'[0] = fds[0] /\ fds'[1] = fds[1]
      BY <3>1, BuiltinKeeps, StreamFds DEF StreamsInv
    <3>3. ChildRedirected'
      BY <3>1 DEF ChildRedirected, NoChild
    <3> QED
      BY <3>2, <3>3 DEF StreamsInv
  <2>2. ASSUME NEW infile \in Files \cup {Shut}, NEW outfile \in Files \cup {Shut},
               OtherCommand(infile, outfile)
        PROVE  StreamsInv'
    <3>1. /\ fds' = fds
          /\ child' = [on |-> TRUE, infile |-> infile, outfile |-> outfile,
                       fds |-> change_IO(fds, infile, outfile)]
      BY <2>2 DEF OtherCommand
    <3>2. ChildRedirected'
      BY <3>1, ChangeIORedirects DEF StreamsInv, ChildRedirected, Wanted
    <3> QED
      BY <3>1, <3>2 DEF StreamsInv
  <2>3. CASE UNCHANGED streamVars
    BY <2>3 DEF streamVars, StreamsInv, ChildRedirected, Wanted
  <2> QED
    BY <2>1, <2>2, <2>3 DEF StreamsNext
<1> QED
  BY <1>1, <1>2, PTL DEF StreamsSpec

(* Whatever commands were run and redirected before, and however few       *)
(* descriptors there are, the shell's streams and files are back after     *)
(* each.                                                                   *)
THEOREM StreamsAreRestored == StreamsSpec => StreamsRestored
<1>1. StreamsInv /\ [StreamsNext]_streamVars
        => [\A fd \in Fds : fds[fd] # Shut => fds'[fd] = fds[fd]]_fds
  <2> SUFFICES ASSUME StreamsInv, StreamsNext, NEW fd \in Fds, fds[fd] # Shut
               PROVE  fds'[fd] = fds[fd]
    BY DEF streamVars
  <2>1. PICK infile \in Files \cup {Shut}, outfile \in Files \cup {Shut} :
          BuiltinCommand(infile, outfile) \/ OtherCommand(infile, outfile)
    BY DEF StreamsNext
  <2>2. CASE BuiltinCommand(infile, outfile)
    BY <2>2, BuiltinKeeps DEF StreamsInv, BuiltinCommand
  <2>3. CASE OtherCommand(infile, outfile)
    BY <2>3 DEF OtherCommand
  <2> QED
    BY <2>1, <2>2, <2>3
<1> QED
  BY <1>1, StreamsInvariance, PTL DEF StreamsSpec, StreamsRestored

(* A command finds the files it names as its streams as soon as one        *)
(* descriptor is free.                                                     *)
THEOREM ChildIsRedirected == StreamsSpec => []ChildRedirected
<1>1. StreamsInv => ChildRedirected
  BY DEF StreamsInv
<1> QED
  BY <1>1, StreamsInvariance, PTL

-----------------------------------------------------------------------------
(* The command line.  s stands on the line from position b on.             *)
Part(line, b, s) ==
  /\ b \in Nat \ {0} /\ b + Len(s) <= Len(line) + 1
  /\ \A i \in 1 .. Len(s) : line[b + i - 1] = s[i]

LEMMA PartsApart ==
  ASSUME NEW S, NEW line \in Seq(S), NEW s \in Seq(S), NEW t \in Seq(S), NEW b,
         Part(line, b, s \o t)
  PROVE  /\ Part(line, b, s) /\ Part(line, b + Len(s), t)
         /\ b + Len(s \o t) = b + Len(s) + Len(t)
<1>1. /\ s \o t \in Seq(S) /\ Len(s \o t) = Len(s) + Len(t)
      /\ \A i \in 1 .. Len(s) + Len(t) :
            (s \o t)[i] = IF i <= Len(s) THEN s[i] ELSE t[i - Len(s)]
  BY Concatenated
<1>2. Len(s) \in Nat /\ Len(t) \in Nat /\ Len(line) \in Nat
  OBVIOUS
<1>3. /\ b \in Nat \ {0} /\ b + Len(s) + Len(t) <= Len(line) + 1
      /\ \A i \in 1 .. Len(s) + Len(t) : line[b + i - 1] = (s \o t)[i]
  BY <1>1, <1>2 DEF Part
<1>4. ASSUME NEW i \in 1 .. Len(s)
      PROVE  line[b + i - 1] = s[i]
  BY <1>1, <1>2, <1>3
<1>5. ASSUME NEW i \in 1 .. Len(t)
      PROVE  line[b + Len(s) + i - 1] = t[i]
  <2>1. Len(s) + i \in 1 .. Len(s) + Len(t) /\ ~(Len(s) + i <= Len(s))
        /\ (Len(s) + i) - Len(s) = i /\ b + (Len(s) + i) - 1 = b + Len(s) + i - 1
    BY <1>2, <1>3
  <2>2. line[b + (Len(s) + i) - 1] = (s \o t)[Len(s) + i]
    BY <1>3, <2>1
  <2>3. (s \o t)[Len(s) + i] = t[i]
    BY <1>1, <2>1
  <2> QED
    BY <2>1, <2>2, <2>3
<1>6. b + Len(s) \in Nat \ {0} /\ b + Len(s) + Len(t) <= Len(line) + 1
      /\ b + Len(s) <= Len(line) + 1
  BY <1>2, <1>3
<1> QED
  BY <1>1, <1>2, <1>3, <1>4, <1>5, <1>6 DEF Part

LEMMA OnePart ==
  ASSUME NEW S, NEW line \in Seq(S), NEW b \in Nat \ {0}, b <= Len(line), NEW c, line[b] = c
  PROVE  Part(line, b, <<c>>)
<1>1. Len(<<c>>) = 1 /\ <<c>>[1] = c /\ b + 1 - 1 = b
  OBVIOUS
<1>2. ASSUME NEW i \in 1 .. 1
      PROVE  line[b + i - 1] = <<c>>[i]
    BY <1>1
<1> QED
  BY <1>1, <1>2 DEF Part

LEMMA TwoPart ==
  ASSUME NEW S, NEW line \in Seq(S), NEW b \in Nat, NEW c, NEW d, Part(line, b, <<c, d>>)
  PROVE  Part(line, b, <<c>>) /\ Part(line, b + 1, <<d>>)
<1>1. Len(<<c,d>>) = 2 /\ <<c,d>>[1] = c /\ <<c,d>>[2] = d
  OBVIOUS
<1>2. b # 0 /\ b + 1 <= Len(line) /\ line[b] = c /\ line[b + 1] = d
  BY <1>1 DEF Part
<1> QED
  BY <1>2, OnePart

LEMMA WholePart ==
  ASSUME NEW S, NEW line \in Seq(S)
  PROVE  Part(line, 1, line)
BY DEF Part

(* What SubSeq takes from the line is the part that stands there.          *)
LEMMA PartIsSubSeq ==
  ASSUME NEW S, NEW line \in Seq(S), NEW s \in Seq(S), NEW b, Part(line, b, s)
  PROVE  SubSeq(line, b, b + Len(s) - 1) = s
<1>1. Len(s) \in Nat /\ Len(line) \in Nat
  OBVIOUS
<1>2. /\ b \in Nat \ {0} /\ b + Len(s) - 1 <= Len(line)
      /\ \A i \in 1 .. Len(s) : line[b + i - 1] = s[i]
  BY <1>1 DEF Part
<1> DEFINE e == b + Len(s) - 1
           u == SubSeq(line, b, e)
<1>3. e \in Nat /\ e - b + 1 = Len(s) /\ e <= Len(line)
  BY <1>1, <1>2
<1>4. b \in Int /\ e \in Int
  BY <1>2, <1>3
<1> HIDE DEF e
<1>5. u \in Seq(S) /\ Len(u) = Len(s)
  <2>1. CASE b <= e
    BY <1>1, <1>2, <1>3, <2>1
  <2>2. CASE ~(b <= e)
    BY <1>1, <1>2, <1>3, <2>2
  <2> QED
    BY <2>1, <2>2
<1>6. ASSUME NEW i \in 1 .. Len(s)
      PROVE  u[i] = s[i]
  BY <1>1, <1>2, <1>3
<1> HIDE DEF u
<1>7. u = s
  BY <1>5, <1>6, SameElements
<1> QED
  BY <1>7 DEF u, e

(* The first of the positions from start on that hold one of chars.        *)
LEMMA IndexIs ==
  ASSUME NEW S, NEW line \in Seq(S), NEW chars, NEW start \in Nat, NEW j \in Nat,
         start <= j, j <= Len(line) + 1,
         \A i \in start .. j - 1 : line[i] \notin chars,
         j = Len(line) + 1 \/ line[j] \in chars
  PROVE  IndexOf(line, start, chars) = j
<1> DEFINE M == {i \in start .. Len(line) : line[i] \in chars} \cup {Len(line) + 1}
<1>1. Len(line) \in Nat
  OBVIOUS
<1>2. j \in M
  BY <1>1
<1>3. ASSUME NEW i \in M
      PROVE  j <= i /\ i \in Nat
  BY <1>1, <1>3
<1>4. ASSUME NEW i \in M, i <= j
      PROVE  i = j
  BY <1>3, <1>4
<1> HIDE DEF M
<1>5. Min(M) = j
  BY <1>2, <1>3, <1>4 DEF Min
<1> QED
  BY <1>5 DEF IndexOf, M

-----------------------------------------------------------------------------
(* The recursive function of Loop exists: there is no shortest line        *)
(* without one.                                                            *)
Looped(line, n, f) ==
  f = [k \in 0 .. n |-> IF k = 0 THEN Going(1, NoToken) ELSE Turn(line, f[k - 1])]

LEMMA LoopExists ==
  ASSUME NEW line, NEW n \in Nat
  PROVE  \E f : Looped(line, n, f)
<1> DEFINE Bad == {m \in Nat : ~ \E f : Looped(line, m, f)}
           first == Going(1, NoToken)
           T(at) == Turn(line, at)
<1>1. ASSUME Bad # {} PROVE FALSE
  <2>1. PICK m \in Bad : \A j \in Bad : m <= j
    <3>1. Bad \in SUBSET Nat
      OBVIOUS
    <3> HIDE DEF Bad
    <3> QED
      BY <1>1, <3>1, LeastNat
  <2>2. m \in Nat /\ ~ \E f : Looped(line, m, f)
    BY <2>1
  <2>3. CASE m = 0
    <3> DEFINE g == [k \in 0 .. 0 |-> first]
    <3>1. g = [k \in 0 .. 0 |-> IF k = 0 THEN first ELSE T(g[k - 1])]
      <4>1. \A k \in 0 .. 0 : first = IF k = 0 THEN first ELSE T(g[k - 1])
        <5> HIDE DEF first, T, g
        <5> QED
          OBVIOUS
      <4> HIDE DEF first, T
      <4> QED
        BY <4>1, Zenon
    <3>2. Looped(line, 0, g)
      <4> HIDE DEF g
      <4> QED
        BY <3>1 DEF Looped
    <3> QED
      BY <2>2, <2>3, <3>2
  <2>4. CASE m # 0
    <3>1. m - 1 \in Nat /\ m - 1 \notin Bad
      BY <2>1, <2>2, <2>4
    <3>2. PICK f : Looped(line, m - 1, f)
      BY <3>1
    <3>3. f = [k \in 0 .. m - 1 |-> IF k = 0 THEN first ELSE T(f[k - 1])]
      BY <3>2 DEF Looped
    <3> DEFINE g == [k \in 0 .. m |-> IF k = m THEN T(f[m - 1]) ELSE f[k]]
    <3>4. ASSUME NEW k \in 0 .. m
          PROVE  g[k] = IF k = 0 THEN first ELSE T(g[k - 1])
      <4> HIDE DEF first, T
      <4>1. CASE k = 0
        BY <2>2, <2>4, <3>3, <4>1
      <4>2. CASE k # 0 /\ k # m
        <5>1. k \in 0 .. m - 1 /\ k - 1 \in 0 .. m /\ k - 1 # m
          BY <2>2, <4>2
        <5>2. g[k] = f[k] /\ g[k - 1] = f[k - 1]
          BY <4>2, <5>1
        <5>3. f[k] = T(f[k - 1])
          <6> HIDE DEF g
          <6> QED
            BY <3>3, <4>2, <5>1
        <5> HIDE DEF g
        <5> QED
          BY <4>2, <5>2, <5>3
      <4>3. CASE k = m
        <5>1. k - 1 \in 0 .. m /\ k - 1 # m
          BY <2>2, <2>4, <4>3
        <5>2. g[k] = T(f[m - 1]) /\ g[k - 1] = f[m - 1]
          BY <4>3, <5>1
        <5> HIDE DEF g
        <5> QED
          BY <2>4, <4>3, <5>2
      <4> QED
        BY <4>1, <4>2, <4>3
    <3>5. g = [k \in 0 .. m |-> IF k = 0 THEN first ELSE T(g[k - 1])]
      <4> DEFINE h == [k \in 0 .. m |-> IF k = 0 THEN first ELSE T(g[k - 1])]
      <4>1. \A k \in 0 .. m : g[k] = h[k]
        <5> HIDE DEF first, T, g
        <5> QED
          BY <3>4
      <4>2. g = [k \in 0 .. m |-> g[k]] /\ h = [k \in 0 .. m |-> h[k]]
        <5> HIDE DEF first, T
        <5> QED
          OBVIOUS
      <4>3. g = h
        <5> HIDE DEF g, h
        <5> QED
          BY <4>1, <4>2
      <4> QED
        BY <4>3
    <3>6. Looped(line, m, g)
      <4> HIDE DEF g
      <4> QED
        BY <3>5 DEF Looped
    <3> QED
      BY <2>2, <3>6
  <2> QED
    BY <2>3, <2>4
<1> QED
  BY <1>1

LEMMA LoopSteps ==
  ASSUME NEW S, NEW line \in Seq(S)
  PROVE  /\ Loop(line)[0] = Going(1, NoToken)
         /\ \A k \in 1 .. Len(line) : Loop(line)[k] = Turn(line, Loop(line)[k - 1])
<1>1. Len(line) \in Nat
  OBVIOUS
<1>2. Loop(line) = CHOOSE f : Looped(line, Len(line), f)
  BY DEF Loop, Looped
<1>3. Looped(line, Len(line), Loop(line))
  BY <1>1, <1>2, LoopExists
<1> DEFINE f == Loop(line)
           n == Len(line)
           first == Going(1, NoToken)
           T(at) == Turn(line, at)
<1>4. f = [k \in 0 .. n |-> IF k = 0 THEN first ELSE T(f[k - 1])]
  BY <1>3 DEF Looped
<1>5. f[0] = first /\ \A k \in 1 .. n : f[k] = T(f[k - 1])
  <2> HIDE DEF f, first, T
  <2> QED
    BY <1>1, <1>4
<1> QED
  BY <1>5

(* What the loop comes to, no later than when it gets there.               *)
Came(line, at) ==
  \E j \in 0 .. Len(line) : Loop(line)[j] = at /\ j < at.buf

(* A turn that moves buf on is made: buf was behind as many characters as  *)
(* there have been turns, so there is one left.                            *)
LEMMA TurnTaken ==
  ASSUME NEW S, NEW line \in Seq(S), NEW at, at.buf \in Nat, Came(line, at),
         at.buf <= Len(line),
         Turn(line, at).buf \in Nat, Turn(line, at).buf > at.buf
  PROVE  Came(line, Turn(line, at))
<1>1. PICK j \in 0 .. Len(line) : Loop(line)[j] = at /\ j < at.buf
  BY DEF Came
<1>2. Len(line) \in Nat
  OBVIOUS
<1>3. j + 1 \in 1 .. Len(line) /\ (j + 1) - 1 = j
  BY <1>1, <1>2
<1>4. Loop(line)[j + 1] = Turn(line, at)
  BY <1>1, <1>3, LoopSteps
<1>5. j + 1 < Turn(line, at).buf
  BY <1>1, <1>2
<1> QED
  BY <1>3, <1>4, <1>5 DEF Came

(* Once buf is behind the line, the tokens are final.                      *)
LEMMA LoopEnds ==
  ASSUME NEW S, NEW line \in Seq(S), NEW at, Came(line, at),
         at.buf \in Nat, at.buf > Len(line)
  PROVE  Tokens(line) = at.tok
<1>1. PICK j \in 0 .. Len(line) : Loop(line)[j] = at
  BY DEF Came
<1>2. Len(line) \in Nat /\ Len(line) - j \in Nat
  BY <1>1
<1> DEFINE Q == {k \in Nat : k <= Len(line) - j => Loop(line)[j + k] = at}
<1>3. 0 \in Q
  BY <1>1
<1>4. ASSUME NEW k \in 1 .. Len(line) - j, k - 1 \in Q
      PROVE  k \in Q
  <2>1. Loop(line)[j + (k - 1)] = at
    BY <1>2, <1>4
  <2>2. j + k \in 1 .. Len(line) /\ (j + k) - 1 = j + (k - 1) /\ k \in Nat
    BY <1>1, <1>2, <1>4
  <2>3. Loop(line)[j + k] = Turn(line, at)
    BY <2>1, <2>2, LoopSteps
  <2>4. Turn(line, at) = at
    BY DEF Turn
  <2> QED
    BY <2>2, <2>3, <2>4
<1>5. Len(line) - j \in Q
  <2>1. Q \in SUBSET Nat
    OBVIOUS
  <2> HIDE DEF Q
  <2> QED
    BY <1>2, <1>3, <1>4, <2>1, UpTo
<1>6. Loop(line)[Len(line)] = at
  <2>1. j + (Len(line) - j) = Len(line)
    BY <1>1, <1>2
  <2> QED
    BY <1>2, <1>5, <2>1
<1> QED
  BY <1>6 DEF Tokens

-----------------------------------------------------------------------------
(* The turns of the loop.                                                  *)
Token(argv, infile, outfile, state) ==
  [argv |-> argv, infile |-> infile, outfile |-> outfile, state |-> state]

Chars == STRING \cup {Blank, From, Into, Amp} \cup Quotes

LEMMA Characters ==
  /\ Blank # From /\ Blank # Into /\ From # Into
  /\ Amp # Blank /\ Amp # From /\ Amp # Into /\ Amp \notin Quotes
  /\ Blank \notin Quotes /\ From \notin Quotes /\ Into \notin Quotes
<1>1. Blank # From /\ Blank # Into /\ From # Into
  BY DEF Blank, From, Into
<1>2. Amp # Blank /\ Amp # From /\ Amp # Into
  BY DEF Blank, From, Into, Amp
<1>3. Amp \notin Quotes /\ Blank \notin Quotes /\ From \notin Quotes /\ Into \notin Quotes
  BY DEF Blank, From, Into, Amp, Quotes
<1> QED
  BY <1>1, <1>2, <1>3

LEMMA GoingFields ==
  ASSUME NEW b, NEW tok
  PROVE  Going(b, tok).buf = b /\ Going(b, tok).tok = tok
BY DEF Going

(* Blanks are passed over.                                                 *)
LEMMA BlankTurn ==
  ASSUME NEW S, NEW line \in Seq(S), NEW tok, NEW b \in Nat,
         Part(line, b, <<Blank>>), Came(line, Going(b, tok))
  PROVE  Came(line, Going(b + 1, tok))
<1>1. b <= Len(line) /\ line[b] = Blank
  BY DEF Part
<1>2. Turn(line, Going(b, tok)) = Going(b + 1, tok)
  <2>1. line[Going(b, tok).buf] = Blank /\ ~(Going(b, tok).buf > Len(line))
    BY <1>1, GoingFields
  <2>2. Blank \notin {From, Into}
    BY Characters
  <2> QED
    BY <2>1, <2>2, GoingFields, Characters DEF Turn
<1>3. b + 1 \in Nat /\ b + 1 > b
  OBVIOUS
<1> QED
  BY <1>1, <1>2, <1>3, GoingFields, TurnTaken

(* A redirection waits for its file, and a second one for the same stream  *)
(* is an error.                                                            *)
LEMMA RedirectTurn ==
  ASSUME NEW S, NEW line \in Seq(S), NEW tok, NEW b \in Nat, NEW c \in {From, Into},
         Part(line, b, <<c>>), Came(line, Going(b, tok))
  PROVE  IF (IF c = From THEN tok.infile ELSE tok.outfile) # <<>>
         THEN Came(line, Leaves(line, Malformed))
         ELSE Came(line, Going(b + 1, [tok EXCEPT !.state = @ \cup {c}]))
<1>1. b <= Len(line) /\ line[b] = c /\ Len(line) \in Nat
  BY DEF Part
<1>2. c # Blank
  BY Characters
<1>3. Turn(line, Going(b, tok)) = Redirects(line, Going(b, tok))
  BY <1>1, <1>2, GoingFields DEF Turn
<1>4. Redirects(line, Going(b, tok)) =
        IF (IF c = From THEN tok.infile ELSE tok.outfile) # <<>>
        THEN Leaves(line, Malformed)
        ELSE Going(b + 1, [tok EXCEPT !.state = @ \cup {c}])
  <2> DEFINE at == Going(b, tok)
  <2>1. at.buf = b /\ at.tok = tok
    BY GoingFields
  <2> HIDE DEF at
  <2>2. line[at.buf] = c
    BY <1>1, <2>1
  <2>3. Redirects(line, at) =
          IF (IF c = From THEN tok.infile ELSE tok.outfile) # <<>>
          THEN Leaves(line, Malformed)
          ELSE Going(b + 1, [tok EXCEPT !.state = @ \cup {c}])
    BY <2>1, <2>2, Zenon DEF Redirects
  <2> QED
    BY <2>3 DEF at
<1>5. CASE (IF c = From THEN tok.infile ELSE tok.outfile) # <<>>
  <2>1. Turn(line, Going(b, tok)) = Leaves(line, Malformed)
    BY <1>3, <1>4, <1>5
  <2>2. Leaves(line, Malformed).buf = Len(line) + 1
    BY GoingFields DEF Leaves
  <2>3. Len(line) + 1 \in Nat /\ Len(line) + 1 > b
    BY <1>1
  <2>4. Came(line, Leaves(line, Malformed))
    BY <1>1, <2>1, <2>2, <2>3, GoingFields, TurnTaken
  <2> QED
    BY <1>5, <2>4
<1>6. CASE ~((IF c = From THEN tok.infile ELSE tok.outfile) # <<>>)
  <2> DEFINE more == [tok EXCEPT !.state = @ \cup {c}]
  <2>1. Turn(line, Going(b, tok)) = Going(b + 1, more)
    BY <1>3, <1>4, <1>6
  <2> HIDE DEF more
  <2>2. Came(line, Going(b + 1, more))
    BY <1>1, <2>1, GoingFields, TurnTaken
  <2> QED
    BY <1>6, <2>2 DEF more
<1> QED
  BY <1>5, <1>6

(* A word is recorded when its end is found; argv may be full then.        *)
LEMMA RecordTurn ==
  ASSUME NEW S, NEW line \in Seq(S), NEW tok, NEW b \in Nat, NEW c,
         NEW start \in Nat, NEW next \in Nat, NEW more,
         Part(line, b, <<c>>), c \notin {Blank, From, Into}, Came(line, Going(b, tok)),
         start = IF c \in Quotes THEN b + 1 ELSE b,
         next = IndexOf(line, start, IF c \in Quotes THEN {c} ELSE {Blank}),
         next >= start,
         c \in Quotes => next <= Len(line), tok.state # {From, Into},
         more = Recorded(tok, SubSeq(line, start, next - 1))
  PROVE  IF Len(more.argv) >= MAXARGS - 1
         THEN Came(line, Leaves(line, more))
         ELSE Came(line, Going(next + 1, more))
<1>1. b <= Len(line) /\ line[b] = c /\ Len(line) \in Nat
  BY DEF Part
<1>2. Turn(line, Going(b, tok)) = Records(line, Going(b, tok))
  BY <1>1, GoingFields DEF Turn
<1>3. ~(c \in Quotes /\ next > Len(line))
  BY <1>1
<1>4. Records(line, Going(b, tok)) = IF Len(more.argv) >= MAXARGS - 1
                                     THEN Leaves(line, more)
                                     ELSE Going(next + 1, more)
  <2> DEFINE at == Going(b, tok)
  <2>1. at.buf = b /\ at.tok = tok
    BY GoingFields
  <2> HIDE DEF at
  <2>2. line[at.buf] = c
    BY <1>1, <2>1
  <2>3. Records(line, at) = IF Len(more.argv) >= MAXARGS - 1
                            THEN Leaves(line, more)
                            ELSE Going(next + 1, more)
    BY <1>3, <2>1, <2>2 DEF Records
  <2> QED
    BY <2>3 DEF at
<1>5. CASE Len(more.argv) >= MAXARGS - 1
  <2>1. Turn(line, Going(b, tok)) = Leaves(line, more)
    BY <1>2, <1>4, <1>5
  <2>2. Leaves(line, more).buf = Len(line) + 1
    BY GoingFields DEF Leaves
  <2>3. Len(line) + 1 \in Nat /\ Len(line) + 1 > b
    BY <1>1
  <2>4. Came(line, Leaves(line, more))
    BY <1>1, <2>1, <2>2, <2>3, GoingFields, TurnTaken
  <2> QED
    BY <1>5, <2>4
<1>6. CASE ~(Len(more.argv) >= MAXARGS - 1)
  <2>1. Turn(line, Going(b, tok)) = Going(next + 1, more)
    BY <1>2, <1>4, <1>6
  <2>2. next + 1 \in Nat /\ next + 1 > b
    OBVIOUS
  <2>3. Came(line, Going(next + 1, more))
    BY <1>1, <2>1, <2>2, GoingFields, TurnTaken
  <2> QED
    BY <1>6, <2>3
<1> QED
  BY <1>5, <1>6

(* A word that stands bare ends at a blank or with the line.               *)
LEMMA BareTurn ==
  ASSUME NEW line \in Seq(Chars), NEW tok, NEW b \in Nat, NEW word \in Seq(Chars),
         NEW more, Bare(word), Part(line, b, word), Came(line, Going(b, tok)),
         \/ b + Len(word) = Len(line) + 1
         \/ Part(line, b + Len(word), <<Blank>>),
         tok.state # {From, Into}, more = Recorded(tok, word)
  PROVE  IF Len(more.argv) >= MAXARGS - 1
         THEN Came(line, Leaves(line, more))
         ELSE Came(line, Going(b + Len(word) + 1, more))
<1> DEFINE next == b + Len(word)
           c == word[1]
<1>1. Len(word) \in Nat /\ Len(word) # 0 /\ Len(line) \in Nat
  BY DEF Bare
<1>2. c \notin Quotes /\ c # From /\ c # Into /\ \A i \in 1 .. Len(word) : word[i] # Blank
  BY DEF Bare, Range
<1>3. /\ b \in Nat \ {0} /\ next <= Len(line) + 1 /\ next \in Nat
      /\ \A i \in 1 .. Len(word) : line[b + i - 1] = word[i]
  BY <1>1 DEF Part
<1>4. Part(line, b, <<c>>)
  <2>1. b + 1 - 1 = b /\ line[b] = c
    BY <1>1, <1>3
  <2>2. b <= Len(line)
    BY <1>1, <1>3
  <2> HIDE DEF c
  <2> QED
    BY <1>3, <2>1, <2>2, OnePart
<1>5. ASSUME NEW i \in b .. next - 1
      PROVE  line[i] \notin {Blank}
  <2>1. i - b + 1 \in 1 .. Len(word) /\ b + (i - b + 1) - 1 = i
    BY <1>1, <1>3
  <2>2. line[i] = word[i - b + 1]
    BY <1>3, <2>1
  <2> QED
    BY <1>2, <2>1, <2>2
<1>6. next = Len(line) + 1 \/ line[next] \in {Blank}
  <2>1. CASE Part(line, next, <<Blank>>)
    BY <1>3, <2>1 DEF Part
  <2> QED
    BY <2>1
<1>7. b <= next
  BY <1>1, <1>3
<1> HIDE DEF next
<1>8. IndexOf(line, b, {Blank}) = next
  BY <1>3, <1>5, <1>6, <1>7, IndexIs
<1>9. SubSeq(line, b, next - 1) = word
  BY PartIsSubSeq DEF next
<1>10. c # Blank
  BY <1>1, <1>2
<1>11. next = IndexOf(line, b, IF c \in Quotes THEN {c} ELSE {Blank})
  BY <1>2, <1>8
<1>12. b = IF c \in Quotes THEN b + 1 ELSE b
  BY <1>2
<1> HIDE DEF c
<1>13. c \notin {Blank, From, Into}
  BY <1>2, <1>10
<1>14. more = Recorded(tok, SubSeq(line, b, next - 1)) /\ next >= b
  BY <1>7, <1>9
<1>15. c \in Quotes => next <= Len(line)
  BY <1>2
<1>16. IF Len(more.argv) >= MAXARGS - 1
       THEN Came(line, Leaves(line, more))
       ELSE Came(line, Going(next + 1, more))
  BY <1>3, <1>4, <1>11, <1>12, <1>13, <1>14, <1>15, RecordTurn
<1> QED
  BY <1>16 DEF next

(* A quoted word ends at the quote that closes it.                         *)
LEMMA QuotedTurn ==
  ASSUME NEW line \in Seq(Chars), NEW tok, NEW b \in Nat, NEW q \in Quotes,
         NEW word \in Seq(Chars), NEW more, q \notin Range(word),
         Part(line, b, <<q>>), Part(line, b + 1, word),
         Part(line, b + 1 + Len(word), <<q>>),
         Came(line, Going(b, tok)), tok.state # {From, Into},
         more = Recorded(tok, word)
  PROVE  IF Len(more.argv) >= MAXARGS - 1
         THEN Came(line, Leaves(line, more))
         ELSE Came(line, Going(b + Len(word) + 2, more))
<1> DEFINE next == b + 1 + Len(word)
           start == b + 1
<1>1. Len(word) \in Nat /\ Len(line) \in Nat /\ next \in Nat /\ start \in Nat
  OBVIOUS
<1>2. \A i \in 1 .. Len(word) : word[i] # q /\ line[start + i - 1] = word[i]
  BY DEF Range, Part
<1>3. next <= Len(line) /\ line[next] = q
  BY DEF Part
<1>4. ASSUME NEW i \in start .. next - 1
      PROVE  line[i] \notin {q}
  <2>1. i - start + 1 \in 1 .. Len(word) /\ start + (i - start + 1) - 1 = i
    BY <1>1
  <2>2. line[i] = word[i - start + 1]
    BY <1>2, <2>1
  <2> QED
    BY <1>2, <2>1, <2>2
<1>5. start <= next /\ next >= start /\ next <= Len(line) + 1
  BY <1>1, <1>3
<1>6. SubSeq(line, start, start + Len(word) - 1) = word
  BY PartIsSubSeq
<1>7. start + Len(word) - 1 = next - 1 /\ next + 1 = b + Len(word) + 2
  BY <1>1
<1> HIDE DEF next
<1>8. IndexOf(line, start, {q}) = next
  BY <1>1, <1>3, <1>4, <1>5, IndexIs
<1>9. q \notin {Blank, From, Into}
  BY Characters
<1>10. start = IF q \in Quotes THEN b + 1 ELSE b
  OBVIOUS
<1>11. next = IndexOf(line, start, IF q \in Quotes THEN {q} ELSE {Blank})
  BY <1>8
<1> HIDE DEF start
<1>12. more = Recorded(tok, SubSeq(line, start, next - 1))
  BY <1>6, <1>7
<1>13. IF Len(more.argv) >= MAXARGS - 1
       THEN Came(line, Leaves(line, more))
       ELSE Came(line, Going(next + 1, more))
  BY <1>1, <1>3, <1>5, <1>9, <1>10, <1>11, <1>12, RecordTurn
<1> QED
  BY <1>7, <1>13

(* A quote that is not closed.                                             *)
LEMMA UnclosedTurn ==
  ASSUME NEW line \in Seq(Chars), NEW tok, NEW b \in Nat, NEW q \in Quotes,
         NEW word \in Seq(Chars), q \notin Range(word),
         Part(line, b, <<q>>), Part(line, b + 1, word),
         b + Len(word) = Len(line), Came(line, Going(b, tok))
  PROVE  Came(line, Leaves(line, Malformed))
<1> DEFINE next == Len(line) + 1
           start == b + 1
           at == Going(b, tok)
<1>1. Len(word) \in Nat /\ Len(line) \in Nat /\ next \in Nat /\ start \in Nat
  OBVIOUS
<1>2. \A i \in 1 .. Len(word) : word[i] # q /\ line[start + i - 1] = word[i]
  BY DEF Range, Part
<1>3. b <= Len(line) /\ line[b] = q
  BY DEF Part
<1>4. ASSUME NEW i \in start .. next - 1
      PROVE  line[i] \notin {q}
  <2>1. i - start + 1 \in 1 .. Len(word) /\ start + (i - start + 1) - 1 = i
    BY <1>1
  <2>2. line[i] = word[i - start + 1]
    BY <1>2, <2>1
  <2> QED
    BY <1>2, <2>1, <2>2
<1>5. start <= next /\ next > Len(line) /\ next > b
  BY <1>1, <1>3
<1>6. IndexOf(line, start, {q}) = next
  <2>1. next = Len(line) + 1 /\ next <= Len(line) + 1
    BY <1>1
  <2> HIDE DEF start, next
  <2> QED
    BY <1>1, <1>4, <1>5, <2>1, IndexIs
<1>7. q \notin {Blank, From, Into}
  BY Characters
<1>8. at.buf = b /\ at.tok = tok
  BY GoingFields
<1> HIDE DEF at
<1>9. Turn(line, at) = Records(line, at)
  BY <1>1, <1>3, <1>7, <1>8 DEF Turn
<1>10. IndexOf(line, at.buf + 1, {line[at.buf]}) > Len(line) /\ line[at.buf] \in Quotes
  BY <1>3, <1>5, <1>6, <1>8
<1>11. Records(line, at) = Leaves(line, Malformed)
  BY <1>10 DEF Records
<1>12. Leaves(line, Malformed).buf = next
  BY GoingFields DEF Leaves
<1> HIDE DEF next
<1> QED
  BY <1>1, <1>3, <1>5, <1>8, <1>9, <1>11, <1>12, TurnTaken DEF at

-----------------------------------------------------------------------------
(* The items of a command.                                                 *)
LEMMA WiderSeq ==
  ASSUME NEW S, NEW T, S \subseteq T, NEW s \in Seq(S)
  PROVE  s \in Seq(T)
OBVIOUS

LEMMA CharSeqs ==
  /\ Words \subseteq Seq(Chars) /\ <<>> \in Seq(Chars)
  /\ \A c \in {Blank, From, Into, Amp} \cup Quotes : <<c>> \in Seq(Chars)
  /\ <<Into, Blank>> \in Seq(Chars)
<1>1. \A c \in {Blank, From, Into, Amp} \cup Quotes : c \in Chars
  BY DEF Chars
<1>2. STRING \subseteq Chars
  BY Zenon DEF Chars
<1>3. \A word \in Words : word \in Seq(STRING)
  BY CommandAssumption, Zenon
<1>4. Words \subseteq Seq(Chars)
  <2>1. ASSUME NEW word \in Words PROVE word \in Seq(Chars)
    BY <1>2, <1>3, WiderSeq, Zenon
  <2> QED
    BY <2>1, Zenon
<1> QED
  BY <1>1, <1>4

LEMMA ItemFacts ==
  ASSUME NEW item \in Items
  PROVE  /\ item.as \in Seq(Chars) /\ item.quote \in Seq(Chars)
         /\ item.word \in Words /\ item.word \in Seq(Chars)
         /\ item.as \in {<<>>, <<From>>, <<Into, Blank>>}
         /\ \/ item.quote = <<>> /\ Bare(item.word)
            \/ \E q \in Quotes : item.quote = <<q>> /\ q \notin Range(item.word)
<1>1. /\ item.as \in {<<>>, <<From>>, <<Into, Blank>>} /\ item.word \in Words
      /\ item.quote \in {<<>>} \cup {<<q>> : q \in Quotes}
      /\ IF item.quote = <<>> THEN Bare(item.word)
                              ELSE item.quote[1] \notin Range(item.word)
  BY DEF Items
<1>2. item.word \in Seq(Chars)
  BY <1>1, CharSeqs
<1>3. item.as \in Seq(Chars)
  BY <1>1, CharSeqs
<1>4. CASE item.quote = <<>>
  BY <1>1, <1>2, <1>3, <1>4
<1>5. CASE \E q \in Quotes : item.quote = <<q>>
  <2>1. PICK q \in Quotes : item.quote = <<q>>
    BY <1>5
  <2>2. item.quote # <<>> /\ item.quote[1] = q /\ item.quote \in Seq(Chars)
    BY <2>1, CharSeqs
  <2> QED
    BY <1>1, <1>2, <1>3, <2>1, <2>2
<1> QED
  BY <1>1, <1>4, <1>5

(* The parts of an item as it is written.                                  *)
LEMMA SpeltParts ==
  ASSUME NEW line \in Seq(Chars), NEW item \in Items, NEW b, Part(line, b, Spelt(item))
  PROVE  LET p == b + Len(item.as)
             w == p + Len(item.quote)
             e == w + Len(item.word)
         IN  /\ b \in Nat \ {0} /\ Part(line, b, item.as)
             /\ Part(line, p, item.quote) /\ Part(line, w, item.word)
             /\ Part(line, e, item.quote) /\ Part(line, e + Len(item.quote), <<Blank>>)
             /\ b + Len(Spelt(item)) = e + Len(item.quote) + 1
<1> DEFINE a == item.as
           q == item.quote
           s == item.word
           z == <<Blank>>
<1>1. a \in Seq(Chars) /\ q \in Seq(Chars) /\ s \in Seq(Chars)
  BY ItemFacts
<1>2. z \in Seq(Chars) /\ Len(z) = 1
  BY DEF Chars
<1>3. Part(line, b, (((a \o q) \o s) \o q) \o z)
  BY DEF Spelt
<1>4. b + Len(Spelt(item)) = b + Len((((a \o q) \o s) \o q) \o z)
  BY DEF Spelt
<1> HIDE DEF a, q, s, z
<1> DEFINE x == a \o q
           y == x \o s
           v == y \o q
<1>5. x \in Seq(Chars) /\ y \in Seq(Chars) /\ v \in Seq(Chars)
  BY <1>1, Concatenated
<1>6. /\ Part(line, b, v) /\ Part(line, b + Len(v), z)
      /\ b + Len(v \o z) = b + Len(v) + Len(z)
  <2>1. Part(line, b, v \o z) /\ z \in Seq(Chars)
    BY <1>2, <1>3
  <2> HIDE DEF v
  <2> QED
    BY <1>5, <2>1, PartsApart
<1>7. /\ Part(line, b, y) /\ Part(line, b + Len(y), q)
      /\ b + Len(v) = b + Len(y) + Len(q)
  <2> HIDE DEF y
  <2> QED
    BY <1>1, <1>5, <1>6, PartsApart
<1>8. /\ Part(line, b, x) /\ Part(line, b + Len(x), s)
      /\ b + Len(y) = b + Len(x) + Len(s)
  <2> HIDE DEF x
  <2> QED
    BY <1>1, <1>5, <1>7, PartsApart
<1>9. /\ Part(line, b, a) /\ Part(line, b + Len(a), q)
      /\ b + Len(x) = b + Len(a) + Len(q)
  BY <1>1, <1>8, PartsApart
<1>10. b \in Nat \ {0}
  BY <1>9 DEF Part
<1> QED
  BY <1>2, <1>4, <1>6, <1>7, <1>8, <1>9, <1>10 DEF a, q, s, z

(* A word that there is room for is recorded, and the blank behind it is   *)
(* behind the loop.                                                        *)
LEMMA WordRead ==
  ASSUME NEW line \in Seq(Chars), NEW item \in Items, NEW b,
         Part(line, b, Spelt(item)), NEW tok, NEW more,
         Came(line, Going(b + Len(item.as), tok)), tok.state # {From, Into},
         more = Recorded(tok, item.word), ~ Len(more.argv) >= MAXARGS - 1
  PROVE  Came(line, Going(b + Len(Spelt(item)), more))
<1> DEFINE p == b + Len(item.as)
           s == item.word
<1>1. /\ b \in Nat \ {0}
      /\ Part(line, p, item.quote) /\ Part(line, p + Len(item.quote), s)
      /\ Part(line, p + Len(item.quote) + Len(s), item.quote)
      /\ Part(line, p + Len(item.quote) + Len(s) + Len(item.quote), <<Blank>>)
      /\ b + Len(Spelt(item)) = p + Len(item.quote) + Len(s) + Len(item.quote) + 1
  BY SpeltParts
<1>2. s \in Seq(Chars) /\ p \in Nat /\ Len(s) \in Nat
  BY <1>1, ItemFacts
<1>3. CASE item.quote = <<>> /\ Bare(s)
  <2>1. Len(item.quote) = 0 /\ p + 0 = p /\ p + 0 + Len(s) + 0 = p + Len(s)
    BY <1>2, <1>3
  <2>2. /\ Part(line, p, s) /\ Part(line, p + Len(s), <<Blank>>)
        /\ b + Len(Spelt(item)) = p + Len(s) + 1
    BY <1>1, <2>1
  <2> HIDE DEF p, s
  <2>3. Came(line, Going(p + Len(s) + 1, more))
    BY <1>2, <1>3, <2>2, BareTurn DEF p, s
  <2> QED
    BY <2>2, <2>3
<1>4. CASE \E q \in Quotes : item.quote = <<q>> /\ q \notin Range(s)
  <2>1. PICK q \in Quotes : item.quote = <<q>> /\ q \notin Range(s)
    BY <1>4
  <2>2. Len(<<q>>) = 1 /\ Len(item.quote) = 1
    BY <2>1
  <2>3. /\ Part(line, p, <<q>>) /\ Part(line, p + 1, s)
        /\ Part(line, p + 1 + Len(s), <<q>>)
        /\ Part(line, p + Len(s) + 2, <<Blank>>)
        /\ b + Len(Spelt(item)) = p + Len(s) + 2 + 1 /\ p + Len(s) + 2 \in Nat
    <3>1. p + 1 + Len(s) + 1 = p + Len(s) + 2
      BY <1>2
    <3> HIDE DEF p, s
    <3> QED
      BY <1>1, <1>2, <2>1, <2>2, <3>1
  <2>4. Came(line, Going(p, tok)) /\ more = Recorded(tok, s)
    OBVIOUS
  <2> HIDE DEF p, s
  <2>5. Came(line, Going(p + Len(s) + 2, more))
    BY <1>2, <2>1, <2>3, <2>4, QuotedTurn
  <2>6. Came(line, Going(p + Len(s) + 2 + 1, more))
    BY <2>3, <2>5, BlankTurn
  <2> QED
    BY <2>3, <2>6
<1> QED
  BY <1>3, <1>4, ItemFacts

(* The state of the loop before and behind a word.                         *)
LEMMA StateAdded ==
  ASSUME NEW x, NEW y, NEW z, NEW c
  PROVE  [Token(x, y, z, {}) EXCEPT !.state = @ \cup {c}] = Token(x, y, z, {c})
<1>1. {} \cup {c} = {c}
  OBVIOUS
<1> DEFINE d == {c}
           e == {}
           u == e \cup {c}
<1>2. u = d
  BY <1>1
<1> HIDE DEF d, e, u
<1>3. [[argv |-> x, infile |-> y, outfile |-> z, state |-> e] EXCEPT !.state = u]
        = [argv |-> x, infile |-> y, outfile |-> z, state |-> d]
  BY <1>2
<1>4. [argv |-> x, infile |-> y, outfile |-> z, state |-> e].state = e
  OBVIOUS
<1> QED
  BY <1>3, <1>4 DEF Token, d, e, u

LEMMA RecordedIs ==
  ASSUME NEW argv, NEW infile, NEW outfile, NEW state, NEW word
  PROVE  Recorded(Token(argv, infile, outfile, state), word)
               = Token(IF state = {} THEN Append(argv, word) ELSE argv,
                       IF state = {From} THEN <<word>> ELSE infile,
                       IF state = {Into} THEN <<word>> ELSE outfile, {})
<1> DEFINE k == Token(argv, infile, outfile, state)
<1>1. k.argv = argv /\ k.infile = infile /\ k.outfile = outfile /\ k.state = state
  BY DEF Token
<1> HIDE DEF k
<1>2. Recorded(k, word) = Token(IF state = {} THEN Append(argv, word) ELSE argv,
                       IF state = {From} THEN <<word>> ELSE infile,
                       IF state = {Into} THEN <<word>> ELSE outfile, {})
  BY <1>1, Zenon DEF Recorded, Token
<1> QED
  BY <1>2 DEF k

(* Names for what the solvers should not look into.                        *)
OneWord(word) == <<word>>

Normal == {}

Awaits(c) == {c}

(* A word becomes an argument or the file that is awaited.                 *)
LEMMA RecordedWhere ==
  \A argv, infile, outfile, word :
    /\ Recorded(Token(argv, infile, outfile, Normal), word)
         = Token(Append(argv, word), infile, outfile, Normal)
    /\ Recorded(Token(argv, infile, outfile, Awaits(From)), word)
         = Token(argv, OneWord(word), outfile, Normal)
    /\ Recorded(Token(argv, infile, outfile, Awaits(Into)), word)
         = Token(argv, infile, OneWord(word), Normal)
<1> TAKE argv, infile, outfile, word
<1> DEFINE name == OneWord(word)
<1>1. Normal # Awaits(From) /\ Normal # Awaits(Into) /\ Awaits(From) # Awaits(Into)
  BY Characters DEF Normal, Awaits
<1>2. \A state : Recorded(Token(argv, infile, outfile, state), word)
               = Token(IF state = {} THEN Append(argv, word) ELSE argv,
                       IF state = {From} THEN name ELSE infile,
                       IF state = {Into} THEN name ELSE outfile, {})
  BY RecordedIs DEF OneWord
<1>3. \A state : Recorded(Token(argv, infile, outfile, state), word)
               = Token(IF state = Normal THEN Append(argv, word) ELSE argv,
                       IF state = Awaits(From) THEN name ELSE infile,
                       IF state = Awaits(Into) THEN name ELSE outfile, Normal)
  BY <1>2 DEF Normal, Awaits
<1> QED
  BY <1>1, <1>3

(* ">" or "<" makes the loop wait for the file of a stream that has none.  *)
LEMMA FileAwaited ==
  ASSUME NEW line \in Seq(Chars), NEW b \in Nat, NEW c \in {From, Into},
         Part(line, b, <<c>>), NEW argv, NEW infile, NEW outfile,
         Came(line, Going(b, Token(argv, infile, outfile, Normal)))
  PROVE  IF (IF c = From THEN infile ELSE outfile) # <<>>
         THEN Came(line, Leaves(line, Malformed))
         ELSE Came(line, Going(b + 1, Token(argv, infile, outfile, Awaits(c))))
<1> DEFINE tok == Token(argv, infile, outfile, Normal)
           more(d) == Token(argv, infile, outfile, Awaits(d))
<1>1. \A d : [tok EXCEPT !.state = @ \cup {d}] = more(d)
  BY StateAdded DEF Normal, Awaits
<1>2. tok.infile = infile /\ tok.outfile = outfile
  BY DEF Token
<1>3. Came(line, Going(b, tok))
  OBVIOUS
<1> HIDE DEF tok, more
<1>4. IF (IF c = From THEN tok.infile ELSE tok.outfile) # <<>>
      THEN Came(line, Leaves(line, Malformed))
      ELSE Came(line, Going(b + 1, [tok EXCEPT !.state = @ \cup {c}]))
  BY <1>3, RedirectTurn
<1> QED
  BY <1>1, <1>2, <1>4 DEF more

(* A file name follows its redirection, which must be the first for its    *)
(* stream.                                                                 *)
LEMMA RedirectionRead ==
  ASSUME NEW line \in Seq(Chars), NEW item \in Items, NEW b,
         Part(line, b, Spelt(item)), item.as # <<>>,
         NEW argv, NEW infile, NEW outfile,
         Came(line, Going(b, Token(argv, infile, outfile, Normal)))
  PROVE  IF (IF item.as = <<From>> THEN infile ELSE outfile) # <<>>
         THEN Came(line, Leaves(line, Malformed))
         ELSE Came(line, Going(b + Len(item.as),
                Token(argv, infile, outfile,
                      Awaits(IF item.as = <<From>> THEN From ELSE Into))))
<1> DEFINE named(c) == IF c = From THEN infile ELSE outfile
           more(c) == Token(argv, infile, outfile, Awaits(c))
<1>1. b \in Nat /\ Part(line, b, item.as)
  BY SpeltParts
<1>2. ASSUME NEW c \in {From, Into}, Part(line, b, <<c>>)
      PROVE  IF named(c) # <<>> THEN Came(line, Leaves(line, Malformed))
             ELSE Came(line, Going(b + 1, more(c)))
  BY <1>1, <1>2, FileAwaited
<1> HIDE DEF more
<1>3. CASE item.as = <<From>>
  <2>1. Part(line, b, <<From>>) /\ Len(item.as) = 1
    BY <1>1, <1>3
  <2>2. IF named(From) # <<>> THEN Came(line, Leaves(line, Malformed))
        ELSE Came(line, Going(b + 1, more(From)))
    BY <1>2, <2>1
  <2> QED
    BY <1>3, <2>1, <2>2 DEF more
<1>4. CASE item.as = <<Into, Blank>>
  <2>1. item.as # <<From>> /\ Len(item.as) = 2
    BY <1>4
  <2>2. Part(line, b, <<Into>>) /\ Part(line, b + 1, <<Blank>>)
    <3>1. Part(line, b, <<Into, Blank>>)
      BY <1>1, <1>4
    <3> QED
      BY <1>1, <3>1, TwoPart
  <2>3. IF named(Into) # <<>> THEN Came(line, Leaves(line, Malformed))
        ELSE Came(line, Going(b + 1, more(Into)))
    BY <1>2, <2>2
  <2>4. ~(named(Into) # <<>>) => Came(line, Going(b + 1 + 1, more(Into)))
    BY <1>1, <2>2, <2>3, BlankTurn
  <2>5. named(Into) = outfile /\ b + 1 + 1 = b + 2
    BY <1>1, Characters
  <2> QED
    BY <2>1, <2>3, <2>4, <2>5 DEF more
<1> QED
  BY <1>3, <1>4, ItemFacts

(* What an item adds to the tokens.                                        *)
LEMMA ItemRead ==
  ASSUME NEW line \in Seq(Chars), NEW item \in Items, NEW b,
         Part(line, b, Spelt(item)),
         NEW argv \in Seq(Words), NEW infile, NEW outfile, Len(argv) + 1 < MAXARGS - 1,
         Came(line, Going(b, Token(argv, infile, outfile, Normal)))
  PROVE  LET onward(tok) == Came(line, Going(b + Len(Spelt(item)), tok))
             word == item.word
         IN  /\ item.as = <<>>
                  => onward(Token(Append(argv, word), infile, outfile, Normal))
             /\ item.as = <<From>> /\ infile = <<>>
                  => onward(Token(argv, <<word>>, outfile, Normal))
             /\ item.as = <<Into, Blank>> /\ outfile = <<>>
                  => onward(Token(argv, infile, <<word>>, Normal))
             /\ (\/ item.as = <<From>> /\ infile # <<>>
                 \/ item.as = <<Into, Blank>> /\ outfile # <<>>)
                => Came(line, Leaves(line, Malformed))
<1> DEFINE word == item.word
           name == OneWord(word)
           e == b + Len(Spelt(item))
<1>1. word \in Words /\ b \in Nat
  BY ItemFacts, SpeltParts
<1>2. Len(Append(argv, word)) = Len(argv) + 1 /\ Len(argv) \in Nat /\ MAXARGS \in Nat
  BY <1>1, CommandAssumption
<1>3. /\ Normal # {From, Into} /\ Awaits(From) # {From, Into}
      /\ Awaits(Into) # {From, Into}
  BY Characters DEF Normal, Awaits
<1>4. \A x, y, z, t : Token(x, y, z, t).argv = x /\ Token(x, y, z, t).state = t
  BY DEF Token
<1> DEFINE Done == /\ item.as = <<>>
                      => Came(line, Going(e, Token(Append(argv, word), infile, outfile, Normal)))
                   /\ item.as = <<From>> /\ infile = <<>>
                      => Came(line, Going(e, Token(argv, name, outfile, Normal)))
                   /\ item.as = <<Into, Blank>> /\ outfile = <<>>
                      => Came(line, Going(e, Token(argv, infile, name, Normal)))
                   /\ (\/ item.as = <<From>> /\ infile # <<>>
                       \/ item.as = <<Into, Blank>> /\ outfile # <<>>)
                      => Came(line, Leaves(line, Malformed))
<1>5. ASSUME item.as = <<>> PROVE Done
  <2> DEFINE tok == Token(argv, infile, outfile, Normal)
             more == Token(Append(argv, word), infile, outfile, Normal)
  <2>1. more = Recorded(tok, word)
    BY RecordedWhere
  <2>2. ~ Len(more.argv) >= MAXARGS - 1 /\ tok.state # {From, Into}
    <3>1. more.argv = Append(argv, word) /\ tok.state = Normal
      <4> DEFINE longer == Append(argv, word)
      <4> HIDE DEF longer
      <4>1. Token(longer, infile, outfile, Normal).argv = longer
        BY <1>4
      <4>2. tok.state = Normal
        BY <1>4
      <4> QED
        BY <4>1, <4>2 DEF longer
    <3> HIDE DEF more, tok
    <3> QED
      BY <1>2, <1>3, <3>1
  <2>3. Came(line, Going(b + Len(item.as), tok))
    BY <1>1, <1>5
  <2> HIDE DEF tok, more
  <2>4. Came(line, Going(e, more))
    BY <2>1, <2>2, <2>3, WordRead
  <2>5. item.as # <<From>> /\ item.as # <<Into, Blank>>
    BY <1>5
  <2> QED
    BY <2>4, <2>5 DEF more
<1>6. ASSUME item.as = <<From>> PROVE Done
  <2> DEFINE tok == Token(argv, infile, outfile, Awaits(From))
             more == Token(argv, name, outfile, Normal)
  <2>1. more = Recorded(tok, word)
    BY RecordedWhere
  <2>2. ~ Len(more.argv) >= MAXARGS - 1 /\ tok.state # {From, Into}
    <3>1. more.argv = argv /\ tok.state = Awaits(From)
      BY <1>4
    <3> HIDE DEF more, tok
    <3> QED
      BY <1>2, <1>3, <3>1
  <2>3. item.as # <<>> /\ item.as # <<Into, Blank>>
    BY <1>6
  <2>4. IF infile # <<>> THEN Came(line, Leaves(line, Malformed))
        ELSE Came(line, Going(b + Len(item.as), tok))
    BY <1>6, <2>3, RedirectionRead
  <2> HIDE DEF tok, more
  <2>5. infile = <<>> => Came(line, Going(e, more))
    BY <2>1, <2>2, <2>4, WordRead
  <2> QED
    BY <1>6, <2>3, <2>4, <2>5 DEF more
<1>7. ASSUME item.as = <<Into, Blank>> PROVE Done
  <2> DEFINE tok == Token(argv, infile, outfile, Awaits(Into))
             more == Token(argv, infile, name, Normal)
  <2>1. more = Recorded(tok, word)
    BY RecordedWhere
  <2>2. ~ Len(more.argv) >= MAXARGS - 1 /\ tok.state # {From, Into}
    <3>1. more.argv = argv /\ tok.state = Awaits(Into)
      BY <1>4
    <3> HIDE DEF more, tok
    <3> QED
      BY <1>2, <1>3, <3>1
  <2>3. item.as # <<>> /\ item.as # <<From>>
    BY <1>7
  <2>4. IF outfile # <<>> THEN Came(line, Leaves(line, Malformed))
        ELSE Came(line, Going(b + Len(item.as), tok))
    BY <1>7, <2>3, RedirectionRead
  <2> HIDE DEF tok, more
  <2>5. outfile = <<>> => Came(line, Going(e, more))
    BY <2>1, <2>2, <2>4, WordRead
  <2> QED
    BY <1>7, <2>3, <2>4, <2>5 DEF more
<1>8. Done
  <2> HIDE DEF Done
  <2> QED
    BY <1>5, <1>6, <1>7, ItemFacts
<1> QED
  BY <1>8 DEF OneWord

-----------------------------------------------------------------------------
(* Recursion along the numbers up to n.                                    *)
Iterates(f, S, a, n, F) ==
  /\ f \in [0 .. n -> S] /\ f[0] = a
  /\ \A k \in 1 .. n : f[k] = F[k][f[k - 1]]

LEMMA Iterated ==
  ASSUME NEW S, NEW a \in S, NEW n \in Nat, NEW F \in [1 .. n -> [S -> S]]
  PROVE  \E f : Iterates(f, S, a, n, F)
<1> DEFINE Is(m, f) == /\ f \in [0 .. m -> S] /\ f[0] = a
                       /\ \A k \in 1 .. m : f[k] = F[k][f[k - 1]]
           Q == {m \in Nat : m <= n => \E f : Is(m, f)}
<1>1. 0 \in Q
  <2> DEFINE g == [k \in 0 .. 0 |-> a]
  <2>1. g \in [0 .. 0 -> S] /\ g[0] = a /\ \A k \in 1 .. 0 : FALSE
    OBVIOUS
  <2> HIDE DEF g
  <2>2. Is(0, g)
    BY <2>1, Zenon
  <2> HIDE DEF Is
  <2> QED
    BY <2>2
<1>2. ASSUME NEW m \in 1 .. n, m - 1 \in Q
      PROVE  m \in Q
  <2>1. m - 1 \in Nat /\ m - 1 <= n /\ m \in Nat
    BY <1>2
  <2>2. PICK f : Is(m - 1, f)
    <3> HIDE DEF Is
    <3> QED
      BY <1>2, <2>1
  <2> DEFINE last == F[m][f[m - 1]]
             g == [k \in 0 .. m |-> IF k = m THEN last ELSE f[k]]
  <2>3. f \in [0 .. m - 1 -> S] /\ f[0] = a
        /\ \A k \in 1 .. m - 1 : f[k] = F[k][f[k - 1]]
    BY <2>2
  <2> HIDE DEF Is
  <2>4. last \in S
    BY <1>2, <2>1, <2>3
  <2>5. g \in [0 .. m -> S] /\ g[0] = a
    <3> HIDE DEF last
    <3> QED
      BY <1>2, <2>1, <2>3, <2>4
  <2>6. ASSUME NEW k \in 1 .. m
        PROVE  g[k] = F[k][g[k - 1]]
    <3>1. k - 1 \in 0 .. m - 1 /\ g[k - 1] = f[k - 1]
      <4> HIDE DEF last
      <4> QED
        BY <2>1, <2>6
    <3>2. CASE k = m
      <4>1. g[k] = last
        <5> HIDE DEF last
        <5> QED
          BY <2>1, <3>2
      <4> HIDE DEF g
      <4> QED
        BY <3>1, <3>2, <4>1
    <3>3. CASE k # m
      <4>1. k \in 1 .. m - 1
        BY <2>1, <2>6, <3>3
      <4>2. g[k] = f[k]
        <5> HIDE DEF last
        <5> QED
          BY <2>6, <3>3
      <4> HIDE DEF g, last
      <4> QED
        BY <2>3, <3>1, <4>1, <4>2
    <3> QED
      BY <3>2, <3>3
  <2> HIDE DEF g
  <2>7. Is(m, g)
    BY <2>5, <2>6 DEF Is
  <2> QED
    BY <2>1, <2>7
<1>3. n \in Q
  <2>1. Q \in SUBSET Nat
    OBVIOUS
  <2> HIDE DEF Q
  <2> QED
    BY <1>1, <1>2, <2>1, UpTo
<1> QED
  BY <1>3 DEF Iterates

(* The text of the first items of a command.                               *)
LEMMA SpeltIsText ==
  ASSUME NEW item \in Items
  PROVE  Spelt(item) \in Seq(Chars)
<1>1. <<Blank>> \in Seq(Chars)
  BY CharSeqs
<1> QED
  BY <1>1, ItemFacts DEF Spelt

LEMMA SpellingSteps ==
  ASSUME NEW items \in Seq(Items)
  PROVE  /\ Spelling(items) \in [0 .. Len(items) -> Seq(Chars)]
         /\ Spelling(items)[0] = <<>>
         /\ \A k \in 1 .. Len(items) :
               Spelling(items)[k] = Spelling(items)[k - 1] \o Spelt(items[k])
<1> DEFINE n == Len(items)
           t == Spelling(items)
           S == Seq(Chars)
           next(k, x) == x \o Spelt(items[k])
           F == [k \in 1 .. n |-> [x \in S |-> next(k, x)]]
           Is(f) == f = [k \in 0 .. n |-> IF k = 0 THEN <<>> ELSE next(k, f[k - 1])]
<1>1. n \in Nat /\ <<>> \in S
  OBVIOUS
<1>2. \A k \in 1 .. n : items[k] \in Items /\ Spelt(items[k]) \in S
  BY SpeltIsText
<1>3. ASSUME NEW k \in 1 .. n, NEW x \in S
      PROVE  next(k, x) \in S
  BY <1>2, Concatenated
<1>4. \E f : Is(f)
  <2> HIDE DEF S, next, n
  <2>1. F \in [1 .. n -> [S -> S]]
    BY <1>3
  <2>2. \A k \in 1 .. n : \A x \in S : F[k][x] = next(k, x)
    OBVIOUS
  <2> HIDE DEF F
  <2>3. PICK f \in [0 .. n -> S] : f[0] = <<>> /\ \A k \in 1 .. n : f[k] = F[k][f[k - 1]]
    <3> DEFINE none == <<>>
    <3>1. none \in S
      BY <1>1, Zenon
    <3> HIDE DEF none
    <3>2. n \in Nat
      BY <1>1
    <3>3. \E f : Iterates(f, S, none, n, F)
      BY <2>1, <3>1, <3>2, Iterated
    <3>4. \E f \in [0 .. n -> S] : f[0] = none /\ \A k \in 1 .. n : f[k] = F[k][f[k - 1]]
      BY <3>3 DEF Iterates
    <3> QED
      BY <3>4 DEF none
  <2>4. ASSUME NEW k \in 0 .. n
        PROVE  f[k] = IF k = 0 THEN <<>> ELSE next(k, f[k - 1])
    <3>1. CASE k # 0
      <4>1. k \in 1 .. n /\ k - 1 \in 0 .. n
        BY <1>1, <3>1
      <4>2. f[k] = F[k][f[k - 1]] /\ f[k - 1] \in S
        BY <2>3, <4>1
      <4> QED
        BY <2>2, <3>1, <4>1, <4>2
    <3> QED
      BY <2>3, <3>1
  <2>5. f = [k \in 0 .. n |-> f[k]]
    BY <2>3
  <2>6. Is(f)
    BY <2>4, <2>5, Zenon
  <2> QED
    BY <2>6
<1>5. Is(t)
  <2>1. t = CHOOSE f : Is(f)
    BY DEF Spelling
  <2> HIDE DEF Is, t
  <2> QED
    BY <1>4, <2>1
<1>6. t[0] = <<>> /\ \A k \in 1 .. n : t[k] = next(k, t[k - 1])
  <2> HIDE DEF next, n, t
  <2> QED
    BY <1>1, <1>5
<1>7. ASSUME NEW m \in 0 .. n
      PROVE  t[m] \in S
  <2> DEFINE Q == {k \in Nat : k <= m => t[k] \in S}
  <2> HIDE DEF next, n, t, S
  <2>1. 0 \in Q
    BY <1>1, <1>6
  <2>2. ASSUME NEW k \in 1 .. m, k - 1 \in Q
        PROVE  k \in Q
    <3>1. k \in 1 .. n /\ k \in Nat /\ k - 1 <= m
      BY <1>1, <1>7, <2>2
    <3>2. t[k - 1] \in S
      BY <2>2, <3>1
    <3> QED
      BY <1>3, <1>6, <3>1, <3>2
  <2>3. m \in Q
    <3>1. Q \in SUBSET Nat /\ m \in Nat
      BY <1>1, <1>7
    <3> HIDE DEF Q
    <3> QED
      BY <2>1, <2>2, <3>1, UpTo
  <2> QED
    BY <2>3
<1>8. t \in [0 .. n -> S]
  <2>1. t = [k \in 0 .. n |-> t[k]]
    <3> HIDE DEF next, n, t, S
    <3> QED
      BY <1>5
  <2> HIDE DEF n, t, S
  <2> QED
    BY <1>7, <2>1
<1> QED
  BY <1>6, <1>8

(* The words of the first items, by what they are written as.              *)
Collects(items, as, those) ==
  \A k \in 1 .. Len(items) :
    those[k] = IF items[k].as = as THEN Append(those[k - 1], items[k].word)
                                   ELSE those[k - 1]

LEMMA SelectedSteps ==
  ASSUME NEW items \in Seq(Items), NEW as
  PROVE  LET those == Selected(items, as)
         IN  /\ those[0] = <<>> /\ Collects(items, as, those)
             /\ \A k \in 0 .. Len(items) : those[k] \in Seq(Words) /\ Len(those[k]) <= k
<1> DEFINE n == Len(items)
           t == Selected(items, as)
           S == Seq(Words)
           next(k, x) == IF items[k].as = as THEN Append(x, items[k].word) ELSE x
           F == [k \in 1 .. n |-> [x \in S |-> next(k, x)]]
           Is(f) == f = [k \in 0 .. n |-> IF k = 0 THEN <<>> ELSE next(k, f[k - 1])]
<1>1. n \in Nat /\ <<>> \in S /\ Len(<<>>) = 0
  OBVIOUS
<1>2. \A k \in 1 .. n : items[k].word \in Words
  BY ItemFacts
<1>3. ASSUME NEW k \in 1 .. n, NEW x \in S
      PROVE  next(k, x) \in S /\ Len(next(k, x)) <= Len(x) + 1 /\ Len(x) \in Nat
                              /\ Len(next(k, x)) \in Nat
  <2> DEFINE word == items[k].word
  <2>1. x \in Seq(Words) /\ word \in Words
    BY <1>2, <1>3
  <2> HIDE DEF word
  <2>2. /\ Append(x, word) \in Seq(Words) /\ Len(Append(x, word)) = Len(x) + 1
        /\ Len(x) \in Nat
    BY <2>1
  <2> DEFINE longer == Append(x, word)
  <2>3. next(k, x) = longer \/ next(k, x) = x
    BY DEF word
  <2> HIDE DEF next, longer
  <2> QED
    BY <2>1, <2>2, <2>3 DEF longer
<1>4. \E f : Is(f)
  <2> HIDE DEF S, next, n
  <2>1. F \in [1 .. n -> [S -> S]]
    BY <1>3
  <2>2. \A k \in 1 .. n : \A x \in S : F[k][x] = next(k, x)
    OBVIOUS
  <2> HIDE DEF F
  <2>3. PICK f \in [0 .. n -> S] : f[0] = <<>> /\ \A k \in 1 .. n : f[k] = F[k][f[k - 1]]
    <3> DEFINE none == <<>>
    <3>1. none \in S
      BY <1>1, Zenon
    <3> HIDE DEF none
    <3>2. n \in Nat
      BY <1>1
    <3>3. \E f : Iterates(f, S, none, n, F)
      BY <2>1, <3>1, <3>2, Iterated
    <3>4. \E f \in [0 .. n -> S] : f[0] = none /\ \A k \in 1 .. n : f[k] = F[k][f[k - 1]]
      BY <3>3 DEF Iterates
    <3> QED
      BY <3>4 DEF none
  <2>4. ASSUME NEW k \in 0 .. n
        PROVE  f[k] = IF k = 0 THEN <<>> ELSE next(k, f[k - 1])
    <3>1. CASE k # 0
      <4>1. k \in 1 .. n /\ k - 1 \in 0 .. n
        BY <1>1, <3>1
      <4>2. f[k] = F[k][f[k - 1]] /\ f[k - 1] \in S
        BY <2>3, <4>1
      <4> QED
        BY <2>2, <3>1, <4>1, <4>2
    <3> QED
      BY <2>3, <3>1
  <2>5. f = [k \in 0 .. n |-> f[k]]
    BY <2>3
  <2>6. Is(f)
    BY <2>4, <2>5, Zenon
  <2> QED
    BY <2>6
<1>5. Is(t)
  <2>1. t = CHOOSE f : Is(f)
    BY DEF Selected
  <2> HIDE DEF Is, t
  <2> QED
    BY <1>4, <2>1
<1>6. t[0] = <<>> /\ \A k \in 1 .. n : t[k] = next(k, t[k - 1])
  <2> HIDE DEF next, n, t
  <2> QED
    BY <1>1, <1>5
<1>7. ASSUME NEW m \in 0 .. n
      PROVE  t[m] \in S /\ Len(t[m]) <= m
  <2> DEFINE Q == {k \in Nat : k <= m => t[k] \in S /\ Len(t[k]) <= k}
  <2> HIDE DEF next, n, t, S
  <2>1. 0 \in Q
    BY <1>1, <1>6
  <2>2. ASSUME NEW k \in 1 .. m, k - 1 \in Q
        PROVE  k \in Q
    <3>1. k \in 1 .. n /\ k \in Nat /\ k - 1 <= m
      BY <1>1, <1>7, <2>2
    <3>2. t[k - 1] \in S /\ Len(t[k - 1]) <= k - 1
      BY <2>2, <3>1
    <3>3. t[k] = next(k, t[k - 1])
      BY <1>6, <3>1
    <3> DEFINE x == t[k - 1]
               y == next(k, x)
    <3>4. y \in S /\ Len(y) <= Len(x) + 1 /\ Len(x) \in Nat /\ Len(y) \in Nat
      <4> HIDE DEF x
      <4> QED
        BY <1>3, <3>1, <3>2 DEF x
    <3>5. t[k] = y /\ Len(x) <= k - 1
      BY <3>2, <3>3
    <3> HIDE DEF x, y
    <3>6. t[k] \in S /\ Len(t[k]) <= k
      BY <3>1, <3>4, <3>5
    <3> QED
      BY <3>1, <3>6
  <2>3. m \in Q
    <3>1. Q \in SUBSET Nat /\ m \in Nat
      BY <1>1, <1>7
    <3> HIDE DEF Q
    <3> QED
      BY <2>1, <2>2, <3>1, UpTo
  <2> QED
    BY <2>3
<1>8. Collects(items, as, t)
  BY <1>6, Zenon DEF Collects
<1> QED
  BY <1>6, <1>7, <1>8

(* A line begins with s and goes on with t.                                *)
Halves(line, s, t) ==
  /\ Part(line, 1, s) /\ Part(line, 1 + Len(s), t)
  /\ 1 + Len(s \o t) = 1 + Len(s) + Len(t)

LEMMA FrontApart ==
  ASSUME NEW line \in Seq(Chars), NEW s \in Seq(Chars), NEW t \in Seq(Chars),
         Part(line, 1, s \o t)
  PROVE  Halves(line, s, t)
BY PartsApart DEF Halves

(* Where the items of a command stand on the line.                         *)
LEMMA ItemsAreParts ==
  ASSUME NEW items \in Seq(Items), NEW line \in Seq(Chars), NEW end \in Seq(Chars),
         line = Written(items) \o end
  PROVE  LET t == Spelling(items)
             n == Len(items)
         IN  /\ \A k \in 1 .. n :
                   /\ Part(line, 1 + Len(t[k - 1]), Spelt(items[k]))
                   /\ 1 + Len(t[k]) = 1 + Len(t[k - 1]) + Len(Spelt(items[k]))
             /\ Part(line, 1 + Len(t[n]), end)
             /\ Len(line) + 1 = 1 + Len(t[n]) + Len(end)
             /\ t[0] = <<>> /\ 1 + Len(t[n]) \in Nat
<1> DEFINE t == Spelling(items)
           n == Len(items)
<1>1. n \in Nat /\ t[0] = <<>>
  <2>1. n \in Nat
    OBVIOUS
  <2>2. t[0] = <<>>
    BY SpellingSteps, Zenon
  <2> QED
    BY <2>1, <2>2, Zenon
<1>2. /\ t \in [0 .. n -> Seq(Chars)]
      /\ \A k \in 1 .. n : t[k] = t[k - 1] \o Spelt(items[k])
  BY SpellingSteps
<1>3. \A k \in 1 .. n : items[k] \in Items /\ Spelt(items[k]) \in Seq(Chars)
  BY SpeltIsText
<1>4. line = t[n] \o end
  BY DEF Written
<1>5. n \in 0 .. n /\ t[n] \in Seq(Chars)
  BY <1>1, <1>2
<1> HIDE DEF t, n
<1>6. Part(line, 1, t[n]) /\ Part(line, 1 + Len(t[n]), end)
      /\ 1 + Len(line) = 1 + Len(t[n]) + Len(end)
  <2>1. Part(line, 1, t[n] \o end)
    BY <1>4, WholePart, Zenon
  <2> DEFINE text == t[n]
  <2>2. Part(line, 1, text \o end) /\ text \in Seq(Chars) /\ line = text \o end
    BY <1>4, <1>5, <2>1, Zenon
  <2> HIDE DEF text
  <2>3. Part(line, 1, text) /\ Part(line, 1 + Len(text), end)
        /\ 1 + Len(text \o end) = 1 + Len(text) + Len(end)
    <3>1. Halves(line, text, end)
      BY <2>2, FrontApart, Zenon
    <3> QED
      BY <3>1 DEF Halves
  <2> QED
    BY <2>2, <2>3, Zenon DEF text
<1>7. ASSUME NEW k \in 1 .. n, Part(line, 1, t[k])
      PROVE  /\ Part(line, 1, t[k - 1]) /\ Part(line, 1 + Len(t[k - 1]), Spelt(items[k]))
             /\ 1 + Len(t[k]) = 1 + Len(t[k - 1]) + Len(Spelt(items[k]))
  <2>1. k - 1 \in 0 .. n
    BY <1>1
  <2> DEFINE front == t[k - 1]
             item == Spelt(items[k])
  <2>2. front \in Seq(Chars) /\ item \in Seq(Chars) /\ t[k] = front \o item
    BY <1>2, <1>3, <2>1
  <2> HIDE DEF front, item
  <2>3. Part(line, 1, front) /\ Part(line, 1 + Len(front), item)
        /\ 1 + Len(front \o item) = 1 + Len(front) + Len(item)
    <3>1. Part(line, 1, front \o item)
      BY <1>7, <2>2, Zenon
    <3>2. Halves(line, front, item)
      BY <2>2, <3>1, FrontApart, Zenon
    <3> QED
      BY <3>2 DEF Halves
  <2> QED
    BY <2>2, <2>3 DEF front, item
<1>8. ASSUME NEW m \in 0 .. n
      PROVE  Part(line, 1, t[m])
  <2> DEFINE Q == {j \in Nat : j <= n - m => Part(line, 1, t[n - j])}
  <2>1. 0 \in Q
    BY <1>1, <1>6
  <2>2. ASSUME NEW j \in 1 .. n - m, j - 1 \in Q
        PROVE  j \in Q
    <3>1. n - (j - 1) \in 1 .. n /\ (n - (j - 1)) - 1 = n - j /\ j \in Nat
          /\ j - 1 <= n - m
      BY <1>1, <1>8, <2>2
    <3>2. Part(line, 1, t[n - (j - 1)])
      BY <2>2, <3>1
    <3>3. Part(line, 1, t[n - j])
      BY <1>7, <3>1, <3>2
    <3> QED
      BY <3>1, <3>3
  <2>3. n - m \in Q
    <3>1. Q \in SUBSET Nat /\ n - m \in Nat
      BY <1>1, <1>8
    <3> HIDE DEF Q
    <3> QED
      BY <2>1, <2>2, <3>1, UpTo
  <2>4. n - (n - m) = m /\ n - m \in Nat
    BY <1>1, <1>8
  <2> QED
    BY <2>3, <2>4
<1>9. \A k \in 1 .. n :
        /\ Part(line, 1 + Len(t[k - 1]), Spelt(items[k]))
        /\ 1 + Len(t[k]) = 1 + Len(t[k - 1]) + Len(Spelt(items[k]))
  <2>1. \A k \in 1 .. n : k \in 0 .. n
    BY <1>1
  <2> QED
    BY <1>7, <1>8, <2>1
<1>10. Len(line) + 1 = 1 + Len(t[n]) + Len(end) /\ 1 + Len(t[n]) \in Nat
  <2>1. Len(line) \in Nat /\ Len(t[n]) \in Nat /\ Len(end) \in Nat
    BY <1>5
  <2> QED
    BY <1>6, <2>1
<1> QED
  BY <1>1, <1>6, <1>9, <1>10 DEF t, n

LEMMA SelectedWhere ==
  ASSUME NEW items \in Seq(Items)
  PROVE  LET A == Selected(items, <<>>)
             I == Selected(items, <<From>>)
             O == Selected(items, <<Into, Blank>>)
         IN  \A k \in 1 .. Len(items) :
               /\ A[k] = IF items[k].as = <<>>
                         THEN Append(A[k - 1], items[k].word) ELSE A[k - 1]
               /\ I[k] = IF items[k].as = <<From>>
                         THEN Append(I[k - 1], items[k].word) ELSE I[k - 1]
               /\ O[k] = IF items[k].as = <<Into, Blank>>
                         THEN Append(O[k - 1], items[k].word) ELSE O[k - 1]
<1>1. Collects(items, <<>>, Selected(items, <<>>))
  BY SelectedSteps, Zenon
<1>2. Collects(items, <<From>>, Selected(items, <<From>>))
  BY SelectedSteps, Zenon
<1>3. Collects(items, <<Into, Blank>>, Selected(items, <<Into, Blank>>))
  BY SelectedSteps, Zenon
<1> QED
  BY <1>1, <1>2, <1>3, Zenon DEF Collects

(* What the loop has come to behind the items: the words, each where it    *)
(* belongs, unless there are two files for a stream.                       *)
LEMMA ItemsRead ==
  ASSUME NEW items \in Seq(Items), Len(items) <= MaxItems,
         NEW line \in Seq(Chars), NEW end \in Seq(Chars), line = Written(items) \o end
  PROVE  LET n       == Len(items)
             argv    == Selected(items, <<>>)[n]
             infile  == Selected(items, <<From>>)[n]
             outfile == Selected(items, <<Into, Blank>>)[n]
         IN  IF Len(infile) > 1 \/ Len(outfile) > 1
             THEN Came(line, Leaves(line, Malformed))
             ELSE Came(line, Going(1 + Len(Spelling(items)[n]),
                                   Token(argv, infile, outfile, Normal)))
<1> DEFINE n == Len(items)
           t == Spelling(items)
           A == Selected(items, <<>>)
           I == Selected(items, <<From>>)
           O == Selected(items, <<Into, Blank>>)
           H(k) == IF Len(I[k]) > 1 \/ Len(O[k]) > 1
                   THEN Came(line, Leaves(line, Malformed))
                   ELSE Came(line, Going(1 + Len(t[k]), Token(A[k], I[k], O[k], Normal)))
           Q == {k \in Nat : k <= n => H(k)}
<1>1. n \in Nat /\ n + 2 <= MAXARGS /\ MAXARGS \in Nat
  BY CommandAssumption
<1>2. /\ \A k \in 1 .. n :
            /\ Part(line, 1 + Len(t[k - 1]), Spelt(items[k]))
            /\ 1 + Len(t[k]) = 1 + Len(t[k - 1]) + Len(Spelt(items[k]))
      /\ t[0] = <<>>
  BY ItemsAreParts
<1>3. A[0] = <<>> /\ I[0] = <<>> /\ O[0] = <<>>
  BY SelectedSteps
<1>4. \A k \in 0 .. n : /\ A[k] \in Seq(Words) /\ I[k] \in Seq(Words) /\ O[k] \in Seq(Words)
                        /\ Len(A[k]) <= k
  BY SelectedSteps
<1>5. \A k \in 1 .. n :
        /\ A[k] = IF items[k].as = <<>> THEN Append(A[k - 1], items[k].word) ELSE A[k - 1]
        /\ I[k] = IF items[k].as = <<From>> THEN Append(I[k - 1], items[k].word) ELSE I[k - 1]
        /\ O[k] = IF items[k].as = <<Into, Blank>> THEN Append(O[k - 1], items[k].word)
                                                    ELSE O[k - 1]
  BY SelectedWhere
<1> HIDE DEF A, I, O, t
<1>6. H(0)
  <2>1. Came(line, Going(1, NoToken))
    <3>1. Loop(line)[0] = Going(1, NoToken)
      BY LoopSteps, Zenon
    <3>2. 0 \in 0 .. Len(line)
      OBVIOUS
    <3>3. Going(1, NoToken).buf = 1
      BY GoingFields
    <3> QED
      BY <3>1, <3>3, <3>2 DEF Came
  <2>2. NoToken = Token(A[0], I[0], O[0], Normal)
    BY <1>3 DEF NoToken, Token, Normal
  <2>3. Len(I[0]) = 0 /\ Len(O[0]) = 0 /\ 1 + Len(t[0]) = 1
    BY <1>2, <1>3
  <2> QED
    BY <2>1, <2>2, <2>3
<1>7. ASSUME NEW k \in 1 .. n, H(k - 1)
      PROVE  H(k)
  <2> DEFINE item == items[k]
             b == 1 + Len(t[k - 1])
             argv == A[k - 1]
             infile == I[k - 1]
             outfile == O[k - 1]
             word == item.word
  <2>1. k - 1 \in 0 .. n /\ k \in 0 .. n /\ item \in Items
    BY <1>1
  <2>2. /\ argv \in Seq(Words) /\ infile \in Seq(Words) /\ outfile \in Seq(Words)
        /\ Len(argv) <= k - 1 /\ word \in Words
    BY <1>4, <2>1, ItemFacts
  <2>3. Len(argv) + 1 < MAXARGS - 1
    BY <1>1, <2>2
  <2>4. /\ Part(line, b, Spelt(item)) /\ b + Len(Spelt(item)) = 1 + Len(t[k])
    BY <1>2
  <2>5. /\ A[k] = IF item.as = <<>> THEN Append(argv, word) ELSE argv
        /\ I[k] = IF item.as = <<From>> THEN Append(infile, word) ELSE infile
        /\ O[k] = IF item.as = <<Into, Blank>> THEN Append(outfile, word) ELSE outfile
    BY <1>5
  <2>6. IF Len(infile) > 1 \/ Len(outfile) > 1
        THEN Came(line, Leaves(line, Malformed))
        ELSE Came(line, Going(b, Token(argv, infile, outfile, Normal)))
    BY <1>7
  <2>a. item.as \in {<<>>, <<From>>, <<Into, Blank>>}
    BY <2>1, ItemFacts
  <2> HIDE DEF item, b, argv, infile, outfile, word
  <2>7. CASE Len(infile) > 1 \/ Len(outfile) > 1
    <3>1. Len(Append(infile, word)) > Len(infile) /\ Len(Append(outfile, word)) > Len(outfile)
      BY <2>2
    <3>2. Len(I[k]) > 1 \/ Len(O[k]) > 1
      BY <2>2, <2>5, <2>7, <3>1
    <3> QED
      BY <2>6, <2>7, <3>2
  <2>8. CASE ~(Len(infile) > 1 \/ Len(outfile) > 1)
    <3> DEFINE onward(tok) == Came(line, Going(b + Len(Spelt(item)), tok))
    <3>1. Came(line, Going(b, Token(argv, infile, outfile, Normal)))
      BY <2>6, <2>8
    <3>2. /\ item.as = <<>>
              => onward(Token(Append(argv, word), infile, outfile, Normal))
          /\ item.as = <<From>> /\ infile = <<>>
              => onward(Token(argv, <<word>>, outfile, Normal))
          /\ item.as = <<Into, Blank>> /\ outfile = <<>>
              => onward(Token(argv, infile, <<word>>, Normal))
          /\ (\/ item.as = <<From>> /\ infile # <<>>
              \/ item.as = <<Into, Blank>> /\ outfile # <<>>)
             => Came(line, Leaves(line, Malformed))
      <4>1. word = item.word
        BY DEF word
      <4> QED
        BY <2>1, <2>2, <2>3, <2>4, <3>1, <4>1, ItemRead, Zenon
    <3> HIDE DEF onward
    <3>3. CASE item.as = <<>>
      <4>1. item.as # <<From>> /\ item.as # <<Into, Blank>>
        BY <3>3
      <4>2. A[k] = Append(argv, word) /\ I[k] = infile /\ O[k] = outfile
        BY <2>5, <3>3, <4>1
      <4> QED
        BY <2>4, <2>8, <3>2, <3>3, <4>2 DEF onward
    <3>4. CASE item.as = <<From>>
      <4>1. item.as # <<>> /\ item.as # <<Into, Blank>>
        BY <3>4
      <4>2. A[k] = argv /\ I[k] = Append(infile, word) /\ O[k] = outfile
        BY <2>5, <3>4, <4>1
      <4>3. CASE infile = <<>>
        <5>1. I[k] = <<word>> /\ Len(I[k]) = 1
          BY <4>2, <4>3
        <5>2. onward(Token(argv, I[k], outfile, Normal))
          BY <3>2, <3>4, <4>3, <5>1
        <5> QED
          BY <2>4, <2>8, <4>2, <5>1, <5>2 DEF onward
      <4>4. CASE infile # <<>>
        <5>1. Len(I[k]) > 1
          BY <2>2, <4>2, <4>4
        <5>2. Came(line, Leaves(line, Malformed))
          BY <3>2, <3>4, <4>4
        <5> QED
          BY <5>1, <5>2
      <4> QED
        BY <4>3, <4>4
    <3>5. CASE item.as = <<Into, Blank>>
      <4>1. item.as # <<>> /\ item.as # <<From>>
        BY <3>5
      <4>2. A[k] = argv /\ I[k] = infile /\ O[k] = Append(outfile, word)
        BY <2>5, <3>5, <4>1
      <4>3. CASE outfile = <<>>
        <5>1. O[k] = <<word>> /\ Len(O[k]) = 1
          BY <4>2, <4>3
        <5>2. onward(Token(argv, infile, O[k], Normal))
          BY <3>2, <3>5, <4>3, <5>1
        <5> QED
          BY <2>4, <2>8, <4>2, <5>1, <5>2 DEF onward
      <4>4. CASE outfile # <<>>
        <5>1. Len(O[k]) > 1
          BY <2>2, <4>2, <4>4
        <5>2. Came(line, Leaves(line, Malformed))
          BY <3>2, <3>5, <4>4
        <5> QED
          BY <5>1, <5>2
      <4> QED
        BY <4>3, <4>4
    <3> QED
      BY <2>a, <3>3, <3>4, <3>5
  <2> QED
    BY <2>7, <2>8
<1> HIDE DEF H
<1>8. n \in Q
  <2>1. Q \in SUBSET Nat /\ 0 \in Q
    BY <1>6
  <2>2. ASSUME NEW k \in 1 .. n, k - 1 \in Q
        PROVE  k \in Q
    <3>1. k - 1 <= n /\ k \in Nat
      BY <1>1, <2>2
    <3> QED
      BY <1>7, <2>2, <3>1
  <2> HIDE DEF Q
  <2> QED
    BY <1>1, <2>1, <2>2, UpTo
<1>9. H(n)
  BY <1>1, <1>8
<1> QED
  BY <1>9 DEF H, A, I, O, t

(* Left with tok, the loop gives tok, whether it was broken off or went    *)
(* through the line.                                                       *)
LEMMA LeftWith ==
  ASSUME NEW line \in Seq(Chars), NEW tok, Came(line, Leaves(line, tok))
  PROVE  Tokens(line) = tok
<1> DEFINE at == Going(Len(line) + 1, tok)
<1>1. at.buf = Len(line) + 1 /\ at.tok = tok
  BY GoingFields
<1>2. Came(line, at) /\ Len(line) \in Nat
  BY DEF Leaves
<1> HIDE DEF at
<1> QED
  BY <1>1, <1>2, LoopEnds

(* The loop comes with tok to the last part of the line.                   *)
Reaches(line, end, tok) ==
  \E b \in Nat : /\ Part(line, b, end) /\ Len(line) + 1 = b + Len(end)
                 /\ Came(line, Going(b, tok))

LEMMA ReachesTwo ==
  ASSUME NEW line \in Seq(Chars), NEW front \in Seq(Chars), NEW rest \in Seq(Chars), NEW tok,
         Reaches(line, front \o rest, tok)
  PROVE  \E b \in Nat :
           /\ Part(line, b, front) /\ Part(line, b + Len(front), rest)
           /\ Len(line) + 1 = b + Len(front) + Len(rest) /\ Came(line, Going(b, tok))
<1>1. PICK b \in Nat :
        /\ Part(line, b, front \o rest) /\ Len(line) + 1 = b + Len(front \o rest)
        /\ Came(line, Going(b, tok))
  BY DEF Reaches
<1>2. /\ Part(line, b, front) /\ Part(line, b + Len(front), rest)
      /\ b + Len(front \o rest) = b + Len(front) + Len(rest)
  BY <1>1, PartsApart
<1> QED
  BY <1>1, <1>2

(* The same for the line and what stands on it behind the items.           *)
LEMMA ReadSoFar ==
  ASSUME NEW items \in Seq(Items), Len(items) <= MaxItems, NEW end \in Seq(Chars)
  PROVE  LET n       == Len(items)
             line    == Written(items) \o end
             argv    == Selected(items, <<>>)[n]
             infile  == Selected(items, <<From>>)[n]
             outfile == Selected(items, <<Into, Blank>>)[n]
         IN  /\ line \in Seq(Chars)
             /\ argv \in Seq(Words) /\ infile \in Seq(Words) /\ outfile \in Seq(Words)
             /\ IF Len(infile) > 1 \/ Len(outfile) > 1
                THEN Tokens(line) = Malformed
                ELSE Reaches(line, end, Token(argv, infile, outfile, Normal))
<1> DEFINE n == Len(items)
           t == Spelling(items)
           line == Written(items) \o end
           A == Selected(items, <<>>)[n]
           I == Selected(items, <<From>>)[n]
           O == Selected(items, <<Into, Blank>>)[n]
<1>1. n \in Nat /\ n \in 0 .. n
  OBVIOUS
<1>2. line \in Seq(Chars)
  <2>1. Written(items) \in Seq(Chars)
    BY <1>1, SpellingSteps DEF Written
  <2> QED
    BY <2>1
<1>3. A \in Seq(Words) /\ I \in Seq(Words) /\ O \in Seq(Words)
  BY <1>1, SelectedSteps
<1>4. /\ Part(line, 1 + Len(t[n]), end) /\ Len(line) + 1 = 1 + Len(t[n]) + Len(end)
      /\ 1 + Len(t[n]) \in Nat
  BY <1>2, ItemsAreParts
<1>5. IF Len(I) > 1 \/ Len(O) > 1
      THEN Came(line, Leaves(line, Malformed))
      ELSE Came(line, Going(1 + Len(t[n]), Token(A, I, O, Normal)))
  BY <1>2, ItemsRead
<1> HIDE DEF A, I, O, line, n, t
<1>6. CASE Len(I) > 1 \/ Len(O) > 1
  <2>1. Tokens(line) = Malformed
    BY <1>2, <1>5, <1>6, LeftWith
  <2> QED
    BY <1>2, <1>3, <1>6, <2>1 DEF A, I, O, line, n
<1>7. CASE ~ (Len(I) > 1 \/ Len(O) > 1)
  <2>1. Reaches(line, end, Token(A, I, O, Normal))
    BY <1>4, <1>5, <1>7 DEF Reaches
  <2> QED
    BY <1>2, <1>3, <1>7, <2>1 DEF A, I, O, line, n
<1> QED
  BY <1>6, <1>7

(* What the end of the line adds: nothing, "&", a redirection that misses  *)
(* its file, a quote that misses the closing one, or both.                 *)
LEMMA NothingMore ==
  ASSUME NEW line \in Seq(Chars), NEW tok, Reaches(line, <<>>, tok)
  PROVE  Tokens(line) = tok
<1>1. Len(<<>>) = 0
  OBVIOUS
<1>2. PICK b \in Nat : Len(line) + 1 = b + 0 /\ Came(line, Going(b, tok))
  BY <1>1 DEF Reaches
<1>3. Going(b, tok).buf = b /\ Going(b, tok).tok = tok
  BY GoingFields
<1> QED
  BY <1>2, <1>3, LoopEnds

LEMMA AmpersandLast ==
  ASSUME NEW line \in Seq(Chars), NEW argv, NEW infile, NEW outfile,
         Reaches(line, <<Amp>>, Token(argv, infile, outfile, Normal))
  PROVE  Tokens(line) = Token(Append(argv, <<Amp>>), infile, outfile, Normal)
<1> DEFINE tok == Token(argv, infile, outfile, Normal)
           word == <<Amp>>
           more == Token(Append(argv, word), infile, outfile, Normal)
<1>1. word \in Seq(Chars) /\ Len(word) = 1 /\ Bare(word)
  BY Characters DEF Bare, Chars, Range
<1>2. tok.state # {From, Into}
  BY DEF Token, Normal
<1> HIDE DEF word
<1>3. more = Recorded(tok, word)
  BY RecordedWhere
<1> HIDE DEF tok, more
<1>4. PICK b \in Nat : /\ Part(line, b, word) /\ Len(line) + 1 = b + Len(word)
                       /\ Came(line, Going(b, tok))
  BY DEF Reaches, tok, word
<1>5. IF Len(more.argv) >= MAXARGS - 1
      THEN Came(line, Leaves(line, more))
      ELSE Came(line, Going(b + Len(word) + 1, more))
  BY <1>1, <1>2, <1>3, <1>4, BareTurn
<1>6. CASE Len(more.argv) >= MAXARGS - 1
  <2>1. Tokens(line) = more
    BY <1>5, <1>6, LeftWith
  <2> QED
    BY <2>1 DEF more, word
<1>7. CASE ~ Len(more.argv) >= MAXARGS - 1
  <2> DEFINE at == Going(b + Len(word) + 1, more)
  <2>1. at.buf = b + Len(word) + 1 /\ at.tok = more /\ Came(line, at)
    BY <1>5, <1>7, GoingFields
  <2>2. at.buf \in Nat /\ at.buf > Len(line)
    BY <1>1, <1>4, <2>1
  <2> HIDE DEF at
  <2>3. Tokens(line) = more
    BY <2>1, <2>2, LoopEnds
  <2> QED
    BY <2>3 DEF more, word
<1> QED
  BY <1>6, <1>7

LEMMA FileMissing ==
  ASSUME NEW line \in Seq(Chars), NEW argv, NEW infile, NEW outfile,
         NEW end \in {<<From>>, <<Into, Blank>>},
         Reaches(line, end, Token(argv, infile, outfile, Normal))
  PROVE  \/ Tokens(line) = Malformed
         \/ \E c \in {From, Into} : Tokens(line) = Token(argv, infile, outfile, Awaits(c))
<1> DEFINE tok == Token(argv, infile, outfile, Normal)
           waiting(c) == Token(argv, infile, outfile, Awaits(c))
<1>1. PICK b \in Nat : /\ Part(line, b, end) /\ Len(line) + 1 = b + Len(end)
                       /\ Came(line, Going(b, tok))
  BY DEF Reaches
<1>2. ASSUME NEW c \in {From, Into}, Part(line, b, <<c>>)
      PROVE  Tokens(line) = Malformed \/ Came(line, Going(b + 1, waiting(c)))
  <2>1. IF (IF c = From THEN infile ELSE outfile) # <<>>
        THEN Came(line, Leaves(line, Malformed))
        ELSE Came(line, Going(b + 1, waiting(c)))
    BY <1>1, <1>2, FileAwaited
  <2> HIDE DEF waiting
  <2> QED
    BY <2>1, LeftWith
<1>3. ASSUME NEW c, Came(line, Going(Len(line) + 1, waiting(c)))
      PROVE  Tokens(line) = waiting(c)
  <2> HIDE DEF waiting
  <2> QED
    BY <1>3, LeftWith DEF Leaves
<1>4. CASE end = <<From>>
  <2>1. Len(end) = 1 /\ b + 1 = Len(line) + 1 /\ Part(line, b, <<From>>)
    BY <1>1, <1>4
  <2> HIDE DEF waiting
  <2>2. Tokens(line) = Malformed \/ Came(line, Going(b + 1, waiting(From)))
    BY <1>2, <2>1
  <2> QED
    BY <1>3, <2>1, <2>2 DEF waiting
<1>5. CASE end = <<Into, Blank>>
  <2>1. /\ Len(end) = 2 /\ b + 2 = Len(line) + 1
        /\ Part(line, b, <<Into>>) /\ Part(line, b + 1, <<Blank>>)
    BY <1>1, <1>5, TwoPart
  <2> HIDE DEF waiting
  <2>2. CASE Came(line, Going(b + 1, waiting(Into)))
    <3>1. b + 1 \in Nat /\ (b + 1) + 1 = Len(line) + 1
      BY <2>1
    <3>2. Came(line, Going((b + 1) + 1, waiting(Into)))
      BY <2>1, <2>2, <3>1, BlankTurn
    <3> QED
      BY <1>3, <3>1, <3>2 DEF waiting
  <2> QED
    BY <1>2, <2>1, <2>2
<1> QED
  BY <1>4, <1>5

LEMMA QuoteLeftOpen ==
  ASSUME NEW line \in Seq(Chars), NEW tok, NEW end \in Unclosed,
         Reaches(line, end, tok)
  PROVE  Tokens(line) = Malformed
<1>1. PICK q \in Quotes, word \in Words : q \notin Range(word) /\ end = <<q>> \o word
  BY DEF Unclosed
<1>2. /\ <<q>> \in Seq(Chars) /\ word \in Seq(Chars) /\ Len(<<q>>) = 1
      /\ Len(word) \in Nat
  BY <1>1, CharSeqs
<1> DEFINE open == <<q>>
<1>3. open \in Seq(Chars) /\ Len(open) = 1 /\ end = open \o word
  BY <1>1, <1>2
<1> HIDE DEF open
<1>4. PICK b \in Nat :
        /\ Part(line, b, open) /\ Part(line, b + Len(open), word)
        /\ Len(line) + 1 = b + Len(open) + Len(word) /\ Came(line, Going(b, tok))
  BY <1>2, <1>3, ReachesTwo
<1>5. /\ Part(line, b, <<q>>) /\ Part(line, b + 1, word) /\ b + Len(word) = Len(line)
  <2>1. Part(line, b, open) /\ Part(line, b + 1, word) /\ b + Len(word) = Len(line)
    BY <1>2, <1>3, <1>4
  <2> QED
    BY <2>1 DEF open
<1>6. Came(line, Leaves(line, Malformed))
  BY <1>1, <1>2, <1>4, <1>5, UnclosedTurn
<1> QED
  BY <1>6, LeftWith

LEMMA FileLeftOpen ==
  ASSUME NEW line \in Seq(Chars), NEW tok, NEW quoted \in Unclosed,
         Reaches(line, <<From>> \o quoted, tok)
  PROVE  Tokens(line) = Malformed
<1> DEFINE from == <<From>>
<1>1. from \in Seq(Chars) /\ Len(from) = 1
  BY CharSeqs
<1>2. quoted \in Seq(Chars)
  <2>1. PICK q \in Quotes, word \in Words : quoted = <<q>> \o word
    BY DEF Unclosed
  <2>2. <<q>> \in Seq(Chars) /\ word \in Seq(Chars)
    BY CharSeqs
  <2> QED
    BY <2>1, <2>2
<1> HIDE DEF from
<1>3. PICK b \in Nat :
        /\ Part(line, b, from) /\ Part(line, b + Len(from), quoted)
        /\ Len(line) + 1 = b + Len(from) + Len(quoted) /\ Came(line, Going(b, tok))
  <2>1. Reaches(line, from \o quoted, tok)
    BY DEF from
  <2> QED
    BY <1>1, <1>2, <2>1, ReachesTwo
<1>4. IF (IF From = From THEN tok.infile ELSE tok.outfile) # <<>>
      THEN Came(line, Leaves(line, Malformed))
      ELSE Came(line, Going(b + 1, [tok EXCEPT !.state = @ \cup {From}]))
  <2>1. Part(line, b, <<From>>)
    BY <1>3 DEF from
  <2> QED
    BY <1>3, <2>1, RedirectTurn
<1>5. CASE Came(line, Going(b + 1, [tok EXCEPT !.state = @ \cup {From}]))
  <2> DEFINE waiting == [tok EXCEPT !.state = @ \cup {From}]
  <2> HIDE DEF waiting
  <2>1. Came(line, Going(b + 1, waiting))
    BY <1>5 DEF waiting
  <2>2. Reaches(line, quoted, waiting)
    BY <1>1, <1>3, <2>1 DEF Reaches
  <2> QED
    BY <2>2, QuoteLeftOpen
<1> QED
  BY <1>4, <1>5, LeftWith

(* What parseline makes of the tokens.                                     *)
LEMMA Refused ==
  ASSUME NEW cmdline,
         \/ Tokens(cmdline) = Malformed
         \/ \E argv, infile, outfile, c : Tokens(cmdline) = Token(argv, infile, outfile, Awaits(c))
  PROVE  parseline(cmdline) = Malformed
<1>1. CASE Tokens(cmdline) = Malformed
  BY <1>1 DEF parseline
<1>2. CASE Tokens(cmdline) # Malformed
  <2>1. Tokens(cmdline).state # {}
    BY <1>2 DEF Token, Awaits
  <2> QED
    BY <2>1 DEF parseline
<1> QED
  BY <1>1, <1>2

LEMMA Accepted ==
  ASSUME NEW cmdline, NEW argv, NEW infile, NEW outfile,
         Tokens(cmdline) = Token(argv, infile, outfile, Normal)
  PROVE  parseline(cmdline) =
           [argv |-> IF Ampersand(argv) THEN Front(argv) ELSE argv,
            infile |-> infile, outfile |-> outfile, bg |-> argv = <<>> \/ Ampersand(argv)]
<1> DEFINE tok == Token(argv, infile, outfile, Normal)
<1>1. /\ tok.argv = argv /\ tok.infile = infile /\ tok.outfile = outfile /\ tok.state = {}
  BY DEF Token, Normal
<1>2. tok # Malformed
  <2>1. "wrong" \in DOMAIN Malformed /\ "wrong" \notin DOMAIN tok
    BY DEF Malformed, Token
  <2> QED
    BY <2>1
<1> HIDE DEF tok
<1> QED
  BY <1>1, <1>2 DEF parseline, tok

LEMMA UnfinishedIsText == Unfinished \subseteq Seq(Chars)
<1>1. Unclosed \subseteq Seq(Chars)
  <2> SUFFICES ASSUME NEW s \in Unclosed PROVE s \in Seq(Chars)
    OBVIOUS
  <2>1. PICK q \in Quotes, word \in Words : s = <<q>> \o word
    BY DEF Unclosed
  <2>2. <<q>> \in Seq(Chars) /\ word \in Seq(Chars)
    BY CharSeqs
  <2> QED
    BY <2>1, <2>2
<1>2. ASSUME NEW s \in Unclosed PROVE <<From>> \o s \in Seq(Chars)
  <2>1. <<From>> \in Seq(Chars) /\ s \in Seq(Chars)
    BY <1>1, CharSeqs
  <2> QED
    BY <2>1
<1>3. <<From>> \in Seq(Chars) /\ <<Into, Blank>> \in Seq(Chars)
  BY CharSeqs
<1> QED
  BY <1>1, <1>2, <1>3 DEF Unfinished

(* A command written in full, with "&" behind it or without.               *)
LEMMA WithoutAmpersand ==
  ASSUME NEW argv \in Seq(Words)
  PROVE  ~ Ampersand(argv)
<1>1. SUFFICES ASSUME argv # <<>>, Last(argv) # <<>>
               PROVE  Last(argv)[1] # Amp
  BY DEF Ampersand
<1>2. Len(argv) \in 1 .. Len(argv)
  BY <1>1
<1>3. Last(argv) \in Words
  BY <1>2 DEF Last
<1> QED
  BY <1>1, <1>3, CommandAssumption

LEMMA WithAmpersand ==
  ASSUME NEW argv \in Seq(Words)
  PROVE  LET more == Append(argv, <<Amp>>)
         IN  Ampersand(more) /\ Front(more) = argv /\ more # <<>>
<1> DEFINE word == <<Amp>>
           more == Append(argv, word)
<1>1. word # <<>> /\ word[1] = Amp
  OBVIOUS
<1> HIDE DEF word
<1>2. /\ more # <<>> /\ Len(more) = Len(argv) + 1 /\ more[Len(more)] = word
      /\ SubSeq(more, 1, Len(more) - 1) = argv
  OBVIOUS
<1>3. Last(more) = word /\ Front(more) = argv
  BY <1>2 DEF Last, Front
<1> QED
  BY <1>1, <1>2, <1>3 DEF Ampersand, word

(* The inductive invariant of typing.                                      *)
LineTyped == typed \in Seq(Items) /\ Len(typed) <= MaxItems

LEMMA CommandsRead ==
  ASSUME LineTyped, NEW amp \in {<<>>, <<Amp>>}
  PROVE  parseline(Written(typed) \o amp) = Meant(amp)
<1> DEFINE line == Written(typed) \o amp
           argv == TypedAs(<<>>)
           infile == TypedAs(<<From>>)
           outfile == TypedAs(<<Into, Blank>>)
           read(b) == [argv |-> argv, infile |-> infile, outfile |-> outfile, bg |-> b]
<1>1. amp \in Seq(Chars)
  BY CharSeqs
<1>2. /\ line \in Seq(Chars) /\ argv \in Seq(Words)
      /\ IF Len(infile) > 1 \/ Len(outfile) > 1
         THEN Tokens(line) = Malformed
         ELSE Reaches(line, amp, Token(argv, infile, outfile, Normal))
  BY <1>1, ReadSoFar DEF LineTyped, TypedAs
<1>3. Meant(amp) = IF Len(infile) > 1 \/ Len(outfile) > 1 THEN Malformed
                   ELSE read(amp # <<>> \/ argv = <<>>)
  BY DEF Meant
<1> HIDE DEF line, argv, infile, outfile
<1>4. CASE Len(infile) > 1 \/ Len(outfile) > 1
  BY <1>2, <1>3, <1>4, Refused DEF line
<1>5. CASE ~ (Len(infile) > 1 \/ Len(outfile) > 1)
  <2>1. CASE amp = <<>>
    <3>1. Tokens(line) = Token(argv, infile, outfile, Normal)
      BY <1>2, <1>5, <2>1, NothingMore
    <3>2. parseline(line) = read(argv = <<>>)
      BY <1>2, <3>1, Accepted, WithoutAmpersand
    <3> QED
      BY <1>3, <1>5, <2>1, <3>2 DEF line
  <2>2. CASE amp = <<Amp>>
    <3> DEFINE more == Append(argv, <<Amp>>)
    <3>1. Tokens(line) = Token(more, infile, outfile, Normal)
      BY <1>2, <1>5, <2>2, AmpersandLast
    <3>2. Ampersand(more) /\ Front(more) = argv
      BY <1>2, WithAmpersand
    <3> HIDE DEF more
    <3>3. parseline(line) = read(TRUE)
      BY <3>1, <3>2, Accepted
    <3>4. amp # <<>>
      BY <2>2
    <3> QED
      BY <1>3, <1>5, <3>3, <3>4 DEF line
  <2> QED
    BY <2>1, <2>2
<1> QED
  BY <1>4, <1>5

(* A line that breaks off is an error.                                     *)
LEMMA UnfinishedRefused ==
  ASSUME LineTyped, NEW end \in Unfinished
  PROVE  parseline(Written(typed) \o end) = Malformed
<1> DEFINE line == Written(typed) \o end
           argv == TypedAs(<<>>)
           infile == TypedAs(<<From>>)
           outfile == TypedAs(<<Into, Blank>>)
<1>1. end \in Seq(Chars)
  BY UnfinishedIsText
<1>2. /\ line \in Seq(Chars) /\ argv \in Seq(Words)
      /\ IF Len(infile) > 1 \/ Len(outfile) > 1
         THEN Tokens(line) = Malformed
         ELSE Reaches(line, end, Token(argv, infile, outfile, Normal))
  BY <1>1, ReadSoFar DEF LineTyped, TypedAs
<1> HIDE DEF line, argv, infile, outfile
<1>3. \/ Tokens(line) = Malformed
      \/ \E c \in {From, Into} : Tokens(line) = Token(argv, infile, outfile, Awaits(c))
  <2>1. CASE Tokens(line) # Malformed
    <3> DEFINE tok == Token(argv, infile, outfile, Normal)
    <3> HIDE DEF tok
    <3>1. Reaches(line, end, tok)
      BY <1>2, <2>1 DEF tok
    <3>2. CASE end \in {<<From>>, <<Into, Blank>>}
      BY <1>2, <3>1, <3>2, FileMissing DEF tok
    <3>3. CASE end \in Unclosed
      BY <1>2, <3>1, <3>3, QuoteLeftOpen
    <3>4. CASE \E q \in Unclosed : end = <<From>> \o q
      BY <1>2, <3>1, <3>4, FileLeftOpen
    <3> QED
      BY <3>2, <3>3, <3>4 DEF Unfinished
  <2> QED
    BY <2>1
<1>4. parseline(line) = Malformed
  BY <1>3, Refused
<1> QED
  BY <1>4 DEF line

(* A command consists of items, and of so few that the loop never leaves   *)
(* because argv[] is full (tsh.c:493) before it has come to the last one.  *)
THEOREM LineInvariance == LineSpec => []LineTyped
<1>1. LineInit => LineTyped
  BY CommandAssumption DEF LineInit, LineTyped
<1>2. LineTyped /\ [Type]_typed => LineTyped'
  <2> SUFFICES ASSUME LineTyped, [Type]_typed PROVE LineTyped'
    OBVIOUS
  <2>1. CASE Type
    <3>1. PICK i \in Items : typed' = Append(typed, i)
      BY <2>1 DEF Type
    <3> DEFINE more == Append(typed, i)
    <3>2. more \in Seq(Items) /\ Len(more) = Len(typed) + 1 /\ Len(typed) \in Nat
      <4> DEFINE S == Items
      <4>1. typed \in Seq(S) /\ i \in S
        BY DEF LineTyped
      <4> HIDE DEF S
      <4>2. Append(typed, i) \in Seq(S) /\ Len(Append(typed, i)) = Len(typed) + 1
            /\ Len(typed) \in Nat
        BY <4>1
      <4> QED
        BY <4>2 DEF S
    <3>3. Len(typed) < MaxItems /\ MaxItems \in Nat
      BY <2>1, CommandAssumption DEF Type
    <3> HIDE DEF more
    <3>4. Len(more) <= MaxItems
      BY <3>2, <3>3
    <3> QED
      BY <3>1, <3>2, <3>4 DEF LineTyped, more
  <2>2. CASE UNCHANGED typed
    BY <2>2 DEF LineTyped
  <2> QED
    BY <2>1, <2>2
<1> QED
  BY <1>1, <1>2, PTL DEF LineSpec

(* parseline reads a command as it is meant, for every set of words and    *)
(* every mixture of bare and quoted words and file names (tsh.c:434-496),  *)
(* and rejects one that breaks off in a redirection or a quote (tsh.c:470, *)
(* 498).                                                                   *)
THEOREM CommandsAreRead == LineSpec => []ReadsCommands
<1>1. LineTyped => ReadsCommands
  BY CommandsRead, UnfinishedRefused DEF ReadsCommands
<1> QED
  BY <1>1, LineInvariance, PTL
=============================================================================
