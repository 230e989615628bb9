---------------------------- MODULE ProxyShared ----------------------------
(***************************************************************************)
(* What the threads of src/proxylab share, side by side: with main the     *)
(* cell *connfd, the semaphore and the descriptors (ProxyServer), with one *)
(* another the object cache (ProxyThreads).  The two have no variable in   *)
(* common, and a behaviour is one of one part.                             *)
(***************************************************************************)
EXTENDS ProxyServer, ProxyThreads

VARIABLE part

SharedInit == ServerInit /\ Init /\ part \in {"acceptor", "cache"}

Accepting == part = "acceptor" /\ ServerNext /\ UNCHANGED vars

Caching == part = "cache" /\ OrderlyNext /\ UNCHANGED serverVars

SharedNext == (Accepting \/ Caching) /\ UNCHANGED part

SharedSpec == /\ SharedInit
              /\ [][SharedNext]_<<serverVars, vars, part>>
              /\ Fairness
=============================================================================
