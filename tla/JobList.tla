------------------------------ MODULE JobList ------------------------------
(***************************************************************************)
(* The job list of the tiny shell: the array job_list[MAXJOBS], the        *)
(* counter nextjid and the helper routines of src/tshlab/tsh.c that read   *)
(* and change them.  The command line kept in an entry is left out: no     *)
(* routine decides anything by it.                                         *)
(*                                                                         *)
(* TinyShell extends this module.  The specification at the end drives     *)
(* the table alone, by any sequence of launches and reaps.                 *)
(***************************************************************************)
EXTENDS Integers, FiniteSetsExt

CONSTANTS MAXJOBS,   \* entries of job_list
          Pids,      \* process IDs fork may return
          MaxJid     \* bound: no job is launched once nextjid exceeds it

ASSUME JobListAssumption ==
          /\ MAXJOBS \in Nat \ {0}
          /\ 0 \notin Pids
          /\ MaxJid \in Nat

VARIABLES job_list, nextjid

jobVars == <<job_list, nextjid>>

Slots == 1 .. MAXJOBS

-----------------------------------------------------------------------------
(* Job states.                                                             *)
UNDEF == "UNDEF"
FG == "FG"
BG == "BG"
ST == "ST"

Job == [pid : Pids \cup {0}, jid : Nat, state : {UNDEF, FG, BG, ST}]

(* An unused entry, and the table before the first command.                *)
clearjob == [pid |-> 0, jid |-> 0, state |-> UNDEF]

initjobs == [i \in Slots |-> clearjob]

(* The index of the first entry a scan of the array stops at; 0 is NULL.   *)
First(S) == IF S = {} THEN 0 ELSE Min(S)

-----------------------------------------------------------------------------
(* The routines that only read a table jl.                                 *)
maxjid(jl) == Max({0} \cup {jl[i].jid : i \in Slots})

getjobpid(jl, p) == First({i \in Slots : p # 0 /\ jl[i].pid = p})

getjobjid(jl, j) == First({i \in Slots : j >= 1 /\ jl[i].jid = j})

(* A wrong fgpid, for the mutants PROJECT.json lists: it takes a           *)
(* background job for the foreground.                                      *)
fgpid_AnyRunning(jl) ==
  LET i == First({k \in Slots : jl[k].state \in {FG, BG}})
  IN  IF i = 0 THEN 0 ELSE jl[i].pid

fgpid(jl) == LET i == First({k \in Slots : jl[k].state = FG})
             IN  IF i = 0 THEN 0 ELSE jl[i].pid

Listed(p) == \E i \in Slots : job_list[i].pid = p

Full == \A i \in Slots : job_list[i].pid # 0

-----------------------------------------------------------------------------
(* The routines that change the table.  addjob is the successful call; a   *)
(* caller handles the refusal, which happens exactly when the table is     *)
(* Full.  Each is preceded by wrong forms of it.                           *)
addjob_Overwrites(p, s) ==
  /\ LET i == IF Full THEN 1 ELSE First({k \in Slots : job_list[k].pid = 0})
     IN  job_list' = [job_list EXCEPT ![i] =
                        [pid |-> p, jid |-> nextjid, state |-> s]]
  /\ nextjid' = IF nextjid + 1 > MAXJOBS THEN 1 ELSE nextjid + 1

addjob(p, s) ==
  /\ ~Full
  /\ LET i == First({k \in Slots : job_list[k].pid = 0})
     IN  job_list' = [job_list EXCEPT ![i] =
                        [pid |-> p, jid |-> nextjid, state |-> s]]
  /\ nextjid' = IF nextjid + 1 > MAXJOBS THEN 1 ELSE nextjid + 1

deletejob_NoIncrement(p) ==
  LET i == getjobpid(job_list, p)
      cleared == [job_list EXCEPT ![i] = clearjob]
  IN  IF i = 0
      THEN UNCHANGED jobVars
      ELSE job_list' = cleared /\ nextjid' = maxjid(cleared)

deletejob_MaxBeforeClear(p) ==
  LET i == getjobpid(job_list, p)
      cleared == [job_list EXCEPT ![i] = clearjob]
  IN  IF i = 0
      THEN UNCHANGED jobVars
      ELSE job_list' = cleared /\ nextjid' = maxjid(job_list) + 1

deletejob(p) ==
  LET i == getjobpid(job_list, p)
      cleared == [job_list EXCEPT ![i] = clearjob]
  IN  IF i = 0
      THEN UNCHANGED jobVars
      ELSE job_list' = cleared /\ nextjid' = maxjid(cleared) + 1

-----------------------------------------------------------------------------
(* The table alone.                                                        *)
TableInit == job_list = initjobs /\ nextjid = 1

Launch(p, s) == nextjid <= MaxJid /\ ~Listed(p) /\ addjob(p, s)

Reap(p) == Listed(p) /\ deletejob(p)

TableNext == \E p \in Pids : Reap(p) \/ \E s \in {FG, BG} : Launch(p, s)

TableSpec == TableInit /\ [][TableNext]_jobVars

-----------------------------------------------------------------------------
(* The table and the counter have their types; a job ID is never 0, the    *)
(* mark of an unused entry that getjobjid refuses to look up.              *)
TableTypeOK == job_list \in [Slots -> Job] /\ nextjid \in Nat \ {0}

(* Numbering starts again at 1 when the last job has been deleted, however *)
(* often addjob has wrapped nextjid before.                                *)
EmptyRestarts == (\A i \in Slots : job_list[i] = clearjob) => nextjid = 1

(* A claim of the code that it does not keep for ever: a job ID names one  *)
(* job, "getjobjid - Find a job (by JID)" returns the only entry with it.  *)
(* While the first job runs on, launches and ends of others can lead the   *)
(* numbers up to MAXJOBS, after which addjob starts again at 1, with most  *)
(* of the table free.                                                      *)
JidsDistinct == \A i, j \in Slots : /\ job_list[i].jid = job_list[j].jid
                                    /\ job_list[i].jid # 0
                                    => i = j

=============================================================================
