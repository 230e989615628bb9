-------------------------- MODULE ProxyServerProofs --------------------------
(***************************************************************************)
(* The hand-over of connections from main to the threads, for any number   *)
(* of threads, descriptors and connections.                                *)
(***************************************************************************)
EXTENDS ProxyServer, NatFacts, FiniteSetTheorems

-----------------------------------------------------------------------------
(* The inductive invariant.                                                *)

(* The semaphore, main between P and Pthread_create, and the threads that  *)
(* have not called V are the places of one token.                          *)
TokenKept == IsFiniteSet(HandingOver) /\ OneHandOver

(* There is a descriptor in *connfd for whoever is about to use it.        *)
CellFilled ==
  /\ main \in {"wait", "create"} => connfd \in Fds
  /\ \A t \in Threads :
        /\ job[t].pc # "none" => connfd \in Fds
        /\ job[t].pc \in {"serve", "close"} => job[t].fd \in Fds

(* If *connfd still stands for a connection, that is the newest one.       *)
CellIsNewest ==
  /\ connfd \in Fds /\ open[connfd] > 0 => open[connfd] = accepted
  /\ \A t \in Threads : job[t].for <= accepted

Inv == ServerTypeOK /\ TokenKept /\ CellFilled /\ CellIsNewest /\ NeverOlder

-----------------------------------------------------------------------------
LEMMA LowestFree ==
  ASSUME FreeFds # {}
  PROVE  Min(FreeFds) \in Fds /\ open[Min(FreeFds)] = Closed
<1>1. FreeFds \in SUBSET Nat
  BY ProxyServerAssumption DEF FreeFds, Fds
<1>2. \E fd \in FreeFds : \A other \in FreeFds : fd <= other
  BY <1>1, LeastNat
<1>3. Min(FreeFds) \in FreeFds
  BY <1>2 DEF Min
<1> QED
  BY <1>3 DEF FreeFds

LEMMA InitInv == ServerInit => Inv
<1> SUFFICES ASSUME ServerInit PROVE Inv
  OBVIOUS
<1> USE DEF ServerInit, NoThread
<1>1. ServerTypeOK
  BY DEF ServerTypeOK, Closed
<1>2. HandingOver = {}
  BY DEF HandingOver
<1>3. TokenKept
  BY <1>2, FS_EmptySet DEF TokenKept, OneHandOver
<1>4. CellFilled /\ CellIsNewest /\ NeverOlder
  BY DEF CellFilled, CellIsNewest, NeverOlder, Fds
<1> QED
  BY <1>1, <1>3, <1>4 DEF Inv

-----------------------------------------------------------------------------
(* The token.                                                              *)
LEMMA TokenPreserved ==
  ASSUME Inv, [ServerNext]_serverVars
  PROVE  TokenKept' /\ mutex' \in {0, 1}
<1> USE DEF Inv
<1>1. /\ IsFiniteSet(HandingOver) /\ Cardinality(HandingOver) \in Nat
      /\ mutex \in {0, 1}
  BY FS_CardinalityType DEF TokenKept, ServerTypeOK
<1>2. ASSUME HandingOver' = HandingOver, mutex' = mutex,
             main' = "exited" \/ (main' = "create" <=> main = "create"),
             main' # "exited" => main # "exited"
      PROVE  TokenKept' /\ mutex' \in {0, 1}
  BY <1>1, <1>2 DEF TokenKept, OneHandOver
<1>3. CASE Accept
  BY <1>2, <1>3 DEF Accept, HandingOver
<1>4. CASE AcceptFails
  BY <1>2, <1>4 DEF AcceptFails, HandingOver
<1>5. CASE Wait
  <2>1. HandingOver' = HandingOver /\ mutex = 1 /\ mutex' = 0
    BY <1>1, <1>5 DEF Wait, HandingOver
  <2> QED
    BY <1>1, <1>5, <2>1 DEF Wait, TokenKept, OneHandOver
<1>6. CASE \E t \in Threads : Create(t)
  <2>1. PICK t \in Threads : Create(t)
    BY <1>6
  <2>2. HandingOver' = HandingOver \cup {t} /\ t \notin HandingOver
    BY <2>1 DEF Create, HandingOver, ServerTypeOK
  <2>3. /\ IsFiniteSet(HandingOver \cup {t})
        /\ Cardinality(HandingOver \cup {t}) = Cardinality(HandingOver) + 1
    BY <1>1, <2>2, FS_AddElement
  <2> QED
    BY <1>1, <2>1, <2>2, <2>3 DEF Create, TokenKept, OneHandOver
<1>7. CASE \E t \in Threads : Release(t)
  <2>1. PICK t \in Threads : Release(t)
    BY <1>7
  <2>2. HandingOver' = HandingOver \ {t} /\ t \in HandingOver
    BY <2>1 DEF Release, JobAt, HandingOver, ServerTypeOK
  <2>3. /\ IsFiniteSet(HandingOver \ {t})
        /\ Cardinality(HandingOver \ {t}) = Cardinality(HandingOver) - 1
        /\ Cardinality(HandingOver \ {t}) \in Nat
    BY <1>1, <2>2, FS_RemoveElement, FS_CardinalityType
  <2>4. mutex = 0 /\ mutex' = 1 /\ main # "create" /\ main' = main
    BY <1>1, <2>1, <2>3 DEF Release, JobAt, TokenKept, OneHandOver
  <2> QED
    BY <1>1, <2>1, <2>2, <2>3, <2>4 DEF TokenKept, OneHandOver
<1>8. CASE \E t \in Threads : \/ ReadArg(t) \/ Serve(t) \/ Forward(t)
                              \/ Misread(t) \/ RioFails(t) \/ Close(t)
  <2>1. PICK t \in Threads : \/ ReadArg(t) \/ Serve(t) \/ Forward(t)
                             \/ Misread(t) \/ RioFails(t) \/ Close(t)
    BY <1>8
  <2>2. HandingOver' = HandingOver
    BY <2>1 DEF ReadArg, Serve, Forward, Misread, RioFails, Close, JobAt,
                HandingOver, ServerTypeOK, NoThread
  <2> QED
    BY <1>2, <2>1, <2>2 DEF ReadArg, Serve, Forward, Misread, RioFails, Close, JobAt
<1>9. CASE UNCHANGED serverVars
  BY <1>2, <1>9 DEF serverVars, HandingOver
<1> QED
  BY <1>3, <1>4, <1>5, <1>6, <1>7, <1>8, <1>9 DEF ServerNext, MainStep, ThreadStep

-----------------------------------------------------------------------------
(* The descriptors.                                                        *)
LEMMA ConnectionsPreserved ==
  ASSUME Inv, [ServerNext]_serverVars, mutex' \in {0, 1}
  PROVE  (ServerTypeOK /\ CellFilled /\ CellIsNewest /\ NeverOlder)'
<1> USE DEF Inv, ServerTypeOK, CellFilled, CellIsNewest, NeverOlder
<1>1. CASE Accept
  <2> DEFINE f == Min(FreeFds)
  <2>1. f \in Fds /\ connfd' = f
    BY <1>1, LowestFree DEF Accept
  <2>2. accepted' = accepted + 1 /\ open' = [open EXCEPT ![f] = accepted + 1]
    BY <1>1 DEF Accept, Opened
  <2> QED
    BY <1>1, <2>1, <2>2 DEF Accept
<1>2. CASE AcceptFails
  BY <1>2 DEF AcceptFails
<1>3. CASE Wait
  BY <1>3 DEF Wait
<1>4. CASE \E t \in Threads : Create(t)
  BY <1>4 DEF Create
<1>5. ASSUME NEW t \in Threads, Release(t)
      PROVE  (ServerTypeOK /\ CellFilled /\ CellIsNewest /\ NeverOlder)'
  BY <1>5 DEF Release, JobAt
<1>6. ASSUME NEW t \in Threads, ReadArg(t)
      PROVE  (ServerTypeOK /\ CellFilled /\ CellIsNewest /\ NeverOlder)'
  BY <1>6 DEF ReadArg, JobAt
<1>7. ASSUME NEW t \in Threads, Serve(t) \/ Misread(t) \/ RioFails(t)
      PROVE  (ServerTypeOK /\ CellFilled /\ CellIsNewest /\ NeverOlder)'
  BY <1>7 DEF Serve, Misread, RioFails, JobAt
<1>8. ASSUME NEW t \in Threads, Forward(t)
      PROVE  (ServerTypeOK /\ CellFilled /\ CellIsNewest /\ NeverOlder)'
  <2>1. Min(FreeFds) \in Fds /\ open' = [open EXCEPT ![Min(FreeFds)] = -1]
    BY <1>8, LowestFree DEF Forward, Opened, Server
  <2> QED
    BY <1>8, <2>1 DEF Forward, JobAt
<1>9. ASSUME NEW t \in Threads, Close(t)
      PROVE  (ServerTypeOK /\ CellFilled /\ CellIsNewest /\ NeverOlder)'
  BY <1>9 DEF Close, JobAt, Closed, NoThread
<1>10. CASE UNCHANGED serverVars
  BY <1>10 DEF serverVars
<1> QED
  BY <1>1, <1>2, <1>3, <1>4, <1>5, <1>6, <1>7, <1>8, <1>9, <1>10
     DEF ServerNext, MainStep, ThreadStep

-----------------------------------------------------------------------------
(* The invariant holds in every reachable state.                           *)
THEOREM Invariance == ServerSpec => []Inv
<1>1. Inv /\ [ServerNext]_serverVars => Inv'
  BY TokenPreserved, ConnectionsPreserved DEF Inv
<1> QED
  BY <1>1, InitInv, PTL DEF ServerSpec

(* The semaphore never counts past 1, and one hand-over is under way at a  *)
(* time: main does not come back from P before the thread it created last  *)
(* has called V.                                                           *)
THEOREM HandOversExclude == ServerSpec => []OneHandOver
<1>1. Inv => OneHandOver
  BY DEF Inv, TokenKept
<1> QED
  BY <1>1, Invariance, PTL

(* A thread is never left with a connection that is older than the one it  *)
(* was created for, however descriptors are closed and used again.         *)
THEOREM ThreadsServeForward == ServerSpec => []NeverOlder
<1>1. Inv => NeverOlder
  BY DEF Inv
<1> QED
  BY <1>1, Invariance, PTL

(* The cell, the semaphore, the descriptors and the threads keep their     *)
(* types.                                                                  *)
THEOREM Typed == ServerSpec => []ServerTypeOK
<1>1. Inv => ServerTypeOK
  BY DEF Inv
<1> QED
  BY <1>1, Invariance, PTL
=============================================================================
