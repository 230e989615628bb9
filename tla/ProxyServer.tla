----------------------------- MODULE ProxyServer -----------------------------
(***************************************************************************)
(* The acceptor of src/proxylab/proxy.c and the life of its threads: main  *)
(* hands every connection to a new thread through the one cell *connfd,    *)
(* guarded by the semaphore mutex.  Of a request only the descriptors it   *)
(* opens and closes are kept.  A new descriptor is always the lowest free  *)
(* one, so that a number means another connection after it was closed.     *)
(*                                                                         *)
(* Name_Variant is a wrong form of Name that no action uses.               *)
(***************************************************************************)
EXTENDS Integers, FiniteSetsExt

CONSTANTS Threads,     \* threads that may exist at a time
          MaxFd,       \* descriptors main and the threads may open
          MaxConns     \* bound on the connections that are accepted

ASSUME ProxyServerAssumption == MaxFd \in Nat /\ MaxConns \in Nat

VARIABLES
  main,      \* where main is: before Accept, P or Pthread_create
  connfd,    \* the cell *connfd
  mutex,     \* the semaphore
  open,      \* what a descriptor stands for
  job,       \* program counter, descriptor read from *connfd
  accepted,  \* history: the connections accepted, numbered from 1
  served     \* history: those whose request a thread has taken up

serverVars == <<main, connfd, mutex, open, job, accepted, served>>

-----------------------------------------------------------------------------
Fds == 1 .. MaxFd

(* What a descriptor stands for: a client's connection, a connection to a  *)
(* server, or nothing.                                                     *)
Server == -1

Closed == 0

NoThread == [pc |-> "none", fd |-> 0, for |-> 0]

ServerInit == /\ main = "accept"
              /\ connfd = 0
              /\ mutex = 1
              /\ open = [fd \in Fds |-> Closed]
              /\ job = [t \in Threads |-> NoThread]
              /\ accepted = 0
              /\ served = {}

FreeFds == {fd \in Fds : open[fd] = Closed}

Opened(what) == [open EXCEPT ![Min(FreeFds)] = what]

-----------------------------------------------------------------------------
(* main                                                                    *)
Accept_IfEmpty ==
  /\ main = "accept"
  /\ accepted < MaxConns
  /\ FreeFds # {}
  /\ accepted' = accepted + 1
  /\ connfd' = IF connfd = 0 THEN Min(FreeFds) ELSE connfd
  /\ open' = Opened(accepted')
  /\ main' = "wait"
  /\ UNCHANGED <<mutex, job, served>>

Accept ==
  /\ main = "accept"
  /\ accepted < MaxConns
  /\ FreeFds # {}
  /\ accepted' = accepted + 1
  /\ connfd' = Min(FreeFds)
  /\ open' = Opened(accepted')
  /\ main' = "wait"
  /\ UNCHANGED <<mutex, job, served>>

(* Every wrapper of csapp.c ends the process when its call fails: accept   *)
(* without a free descriptor does.                                         *)
AcceptFails ==
  /\ main = "accept"
  /\ accepted < MaxConns
  /\ FreeFds = {}
  /\ main' = "exited"
  /\ UNCHANGED <<connfd, mutex, open, job, accepted, served>>

Wait_NoDecrement ==
  /\ main = "wait"
  /\ mutex > 0
  /\ main' = "create"
  /\ UNCHANGED <<connfd, mutex, open, job, accepted, served>>

Wait ==
  /\ main = "wait"
  /\ mutex > 0
  /\ mutex' = mutex - 1
  /\ main' = "create"
  /\ UNCHANGED <<connfd, open, job, accepted, served>>

Create(t) ==
  /\ main = "create"
  /\ job[t].pc = "none"
  /\ job' = [job EXCEPT ![t] = [pc |-> "started", fd |-> 0, for |-> accepted]]
  /\ main' = "accept"
  /\ UNCHANGED <<connfd, mutex, open, accepted, served>>

-----------------------------------------------------------------------------
(* execute_job                                                             *)
JobAt(t, label) == main # "exited" /\ job[t].pc = label

Release(t) ==
  /\ JobAt(t, "started")
  /\ mutex' = mutex + 1
  /\ job' = [job EXCEPT ![t].pc = "released"]
  /\ UNCHANGED <<main, connfd, open, accepted, served>>

ReadArg(t) ==
  /\ JobAt(t, "released")
  /\ job' = [job EXCEPT ![t].pc = "serve", ![t].fd = connfd]
  /\ UNCHANGED <<main, connfd, mutex, open, accepted, served>>

(* A request that is answered from the cache, or whose server cannot be    *)
(* reached.                                                                *)
Serve(t) ==
  LET c == open[job[t].fd]
  IN  /\ JobAt(t, "serve")
      /\ c > 0
      /\ served' = served \cup {c}
      /\ job' = [job EXCEPT ![t].pc = "close"]
      /\ UNCHANGED <<main, connfd, mutex, open, accepted>>

(* One that is forwarded, or whose host has no address: send_request never *)
(* closes server_fd, nor open_clientfd_r the socket it gives up.           *)
Forward(t) ==
  LET c == open[job[t].fd]
  IN  /\ JobAt(t, "serve")
      /\ c > 0
      /\ FreeFds # {}
      /\ open' = Opened(Server)
      /\ served' = served \cup {c}
      /\ job' = [job EXCEPT ![t].pc = "close"]
      /\ UNCHANGED <<main, connfd, mutex, accepted>>

(* The descriptor now belongs to a connection that another thread has      *)
(* opened to a server: its response is taken for a request.                *)
Misread(t) ==
  /\ JobAt(t, "serve")
  /\ open[job[t].fd] = Server
  /\ job' = [job EXCEPT ![t].pc = "close"]
  /\ UNCHANGED <<main, connfd, mutex, open, accepted, served>>

(* Rio_readlineb fails on a descriptor that another thread has closed, and *)
(* Rio_writen when the client has gone: either ends the process.           *)
RioFails(t) ==
  /\ JobAt(t, "serve")
  /\ main' = "exited"
  /\ UNCHANGED <<connfd, mutex, open, job, accepted, served>>

Close(t) ==
  /\ JobAt(t, "close")
  /\ open' = [open EXCEPT ![job[t].fd] = Closed]
  /\ job' = [job EXCEPT ![t] = NoThread]
  /\ UNCHANGED <<main, connfd, mutex, accepted, served>>

-----------------------------------------------------------------------------
MainStep == Wait \/ \E t \in Threads : Create(t)

ThreadStep_ReleasesLast(t) ==
  \/ /\ JobAt(t, "started")
     /\ job' = [job EXCEPT ![t].pc = "released"]
     /\ UNCHANGED <<main, connfd, mutex, open, accepted, served>>
  \/ ReadArg(t) \/ Serve(t) \/ Forward(t) \/ Misread(t) \/ RioFails(t)
  \/ /\ JobAt(t, "close")
     /\ mutex' = mutex + 1
     /\ open' = [open EXCEPT ![job[t].fd] = Closed]
     /\ job' = [job EXCEPT ![t] = NoThread]
     /\ UNCHANGED <<main, connfd, accepted, served>>

ThreadStep(t) == \/ Release(t) \/ ReadArg(t) \/ Serve(t) \/ Forward(t)
                 \/ Misread(t) \/ RioFails(t) \/ Close(t)

ServerNext == \/ Accept
              \/ AcceptFails
              \/ MainStep
              \/ \E t \in Threads : ThreadStep(t)

ServerSpec == ServerInit /\ [][ServerNext]_serverVars

(* main runs between two accepts, and a new thread takes its first step.   *)
(* No more is promised: what comes after may wait for a client or a server *)
(* for ever, and clients need not connect.                                 *)
Fairness ==
  /\ WF_serverVars(MainStep)
  /\ \A t \in Threads : WF_serverVars(JobAt(t, "started") /\ ThreadStep(t))

-----------------------------------------------------------------------------
(* Every variable has its type.                                            *)
ServerTypeOK ==
  /\ main \in {"accept", "wait", "create", "exited"}
  /\ connfd \in Fds \cup {0}
  /\ mutex \in {0, 1}
  /\ open \in [Fds -> Int]
  /\ job \in [Threads -> [pc : {"none", "started", "released", "serve", "close"},
                          fd : Fds \cup {0}, for : Nat]]
  /\ accepted \in Nat
  /\ served \in SUBSET Nat

(* The semaphore lets one hand-over begin at a time: from P until the new  *)
(* thread's V nobody else is between the two.                              *)
HandingOver == {t \in Threads : job[t].pc = "started"}

OneHandOver == main # "exited" =>
  mutex + Cardinality(HandingOver) + (IF main = "create" THEN 1 ELSE 0) = 1

(* The cell may have been overwritten when a thread reads it, but only by  *)
(* a newer connection: a thread never serves one that is older than the    *)
(* one it was created for, although descriptor numbers are used again.     *)
NeverOlder ==
  \A t \in Threads :
     LET c == open[job[t].fd]
     IN  job[t].pc = "serve" /\ c > 0 => c >= job[t].for

(* main always comes back from P, although threads may wait for their      *)
(* clients for ever: none of them has the semaphore then.                  *)
MainAdvances == (main = "wait") ~> (main # "wait")

(* A claim of the code that it does not keep.  "Make the server concurrent *)
(* using threads": every connection that was accepted is served.           *)
EveryConnectionServed ==
  \A c \in 1 .. MaxConns : (accepted = c) ~> (c \in served \/ main = "exited")
=============================================================================
