---------------------------- MODULE ProxyThreads ----------------------------
(***************************************************************************)
(* Threads that share the object cache of src/proxylab/cache.c, and what   *)
(* its code asks of them and of malloc although it does nothing to get it: *)
(* that a thread has the list for itself from the hit or the store it      *)
(* changes it for until it is through, that two threads do not fetch the   *)
(* same object, and that malloc does not return a node that is in the      *)
(* list.  Where one of these fails the list may break (finding_proxy_list  *)
(* is the last one); here they hold, and threads scan at the same time,    *)
(* wait for the lock or talk to their servers while another one works.     *)
(***************************************************************************)
EXTENDS ProxyCache

(* What a thread does from the end of its scan to the end of its request:  *)
(* it waits for its server, or changes the list and uses the node it has   *)
(* linked in.                                                              *)
Changing(w) == thread[w].pc \in {"room", "delete", "lock_delete", "unlink",
                                 "lock_insert", "link", "reply"}

Beyond(w) == thread[w].pc = "fetch" \/ Changing(w)

Orderly ==
  \A v, w \in Workers : v # w =>
    /\ Changing(v) => thread[w].pc \in {"idle", "rdlock", "fetch"}
    /\ Beyond(v) /\ Beyond(w) => thread[v].uri # thread[w].uri

Spares ==
  \A w \in Workers, n \in Nodes, length \in Lengths :
     Put(w, n, length) => n \notin Range(Chain)

OrderlyNext == Next /\ Orderly' /\ Spares

OrderlySpec == Init /\ [][OrderlyNext]_vars

-----------------------------------------------------------------------------
(* Which threads and which URIs there are does not matter.                 *)
Symmetry == Permutations(Workers) \cup Permutations(Uris)
=============================================================================
