----------------------------- MODULE ProxyCache -----------------------------
(***************************************************************************)
(* The object cache of src/proxylab/cache.c and the calls the proxy's      *)
(* threads make of it: a doubly linked list in the order of the last use,  *)
(* the reader/writer lock that guards parts of it, and the memory of its   *)
(* nodes.                                                                  *)
(*                                                                         *)
(* A thread advances one step per lock operation, per node of a scan and   *)
(* per test of the shared variables it makes without the lock.  A critical *)
(* section and the unlock that ends it are one step.                       *)
(*                                                                         *)
(* free overwrites the first two words of a node, next and prev; the node  *)
(* keeps the others until malloc returns it again.  Name_Variant is a      *)
(* wrong form of Name that no action uses.                                 *)
(***************************************************************************)
EXTENDS Integers, SequencesExt

CONSTANTS Workers,          \* threads of the proxy
          Uris,
          Lengths,          \* lengths of the objects servers return
          MaxNodes,         \* nodes there is memory for
          MAX_CACHE_SIZE,
          MAX_OBJECT_SIZE,
          Reuse,            \* whether malloc returns memory that was freed
          NoUri

ASSUME ProxyCacheAssumption ==
          /\ IsFiniteSet(Workers) /\ Workers # {}
          /\ Lengths \subseteq Nat /\ MaxNodes \in Nat
          /\ MAX_CACHE_SIZE \in Nat /\ MAX_OBJECT_SIZE <= MAX_CACHE_SIZE
          /\ Reuse \in BOOLEAN
          /\ NoUri \notin Uris

VARIABLES
  head, tail, free_cache_size,
  lock,      \* what pthread_rwlock_t counts: readers, and a writer
  mem,       \* the nodes
  thread,    \* program counter and local variables of each worker
  crashed    \* has a null or a junk pointer been dereferenced?

listVars == <<head, tail, free_cache_size>>
vars == <<listVars, lock, mem, thread, crashed>>

-----------------------------------------------------------------------------
Nodes == 1 .. MaxNodes

NULL == 0

Junk == -1

Pointer == Nodes \cup {NULL, Junk}

Unlocked == [readers |-> 0, writer |-> FALSE]

Unused == [next |-> Junk, prev |-> Junk, uri |-> NoUri, length |-> 0,
           state |-> "unused"]

Idle == [pc |-> "idle", uri |-> NoUri, node |-> NULL, victim |-> NULL,
         hit |-> FALSE]

(* main does not call initialize_cache: head, tail, the lock and the size  *)
(* are the zeros of static storage.                                        *)
Init == /\ head = NULL
        /\ tail = NULL
        /\ free_cache_size = 0
        /\ lock = Unlocked
        /\ mem = [n \in Nodes |-> Unused]
        /\ thread = [w \in Workers |-> Idle]
        /\ crashed = FALSE

-----------------------------------------------------------------------------
At(w, label) == ~crashed /\ thread[w].pc = label

Goto(w, label) == thread' = [thread EXCEPT ![w].pc = label]

Crash == crashed' = TRUE /\ UNCHANGED <<listVars, lock, mem, thread>>

(* pthread_rwlock_unlock takes the caller for the writer if there is one,  *)
(* and for a reader otherwise, also after another thread has initialized   *)
(* the lock.                                                               *)
Unlock == lock' = IF lock.writer THEN [lock EXCEPT !.writer = FALSE]
                                 ELSE [lock EXCEPT !.readers = @ - 1]

Freed(m, n) == [m EXCEPT ![n] = [@ EXCEPT !.next = Junk, !.prev = Junk,
                                          !.state = "freed"]]

(* malloc: the next unused address, or one that has been freed.            *)
Malloc == {n \in Nodes : \/ Reuse /\ mem[n].state = "freed"
                         \/ /\ mem[n].state = "unused"
                            /\ \A k \in 1 .. n - 1 : mem[k].state # "unused"}

-----------------------------------------------------------------------------
(* get_cache_item                                                          *)
Request(w, u) ==
  /\ At(w, "idle")
  /\ thread' = [thread EXCEPT ![w] = [Idle EXCEPT !.pc = "rdlock", !.uri = u]]
  /\ UNCHANGED <<listVars, lock, mem, crashed>>

ReadLock(w) ==
  /\ At(w, "rdlock")
  /\ ~lock.writer
  /\ lock' = [lock EXCEPT !.readers = @ + 1]
  /\ thread' = [thread EXCEPT ![w].pc = "scan", ![w].node = head]
  /\ UNCHANGED <<listVars, mem, crashed>>

Scan(w) ==
  LET n == thread[w].node
  IN  /\ At(w, "scan")
      /\ \/ n = Junk /\ Crash
         \/ /\ n \in Nodes
            /\ mem[n].uri # thread[w].uri
            /\ thread' = [thread EXCEPT ![w].node = mem[n].next]
            /\ UNCHANGED <<listVars, lock, mem, crashed>>

Found_AnyUri(w) ==
  /\ At(w, "scan")
  /\ thread[w].node \in Nodes
  /\ Unlock
  /\ thread' = [thread EXCEPT ![w] = [@ EXCEPT !.pc = "delete",
                                               !.victim = thread[w].node,
                                               !.hit = TRUE]]
  /\ UNCHANGED <<listVars, mem, crashed>>

Found(w) ==
  LET n == thread[w].node
  IN  /\ At(w, "scan")
      /\ n \in Nodes
      /\ mem[n].uri = thread[w].uri
      /\ Unlock
      /\ thread' = [thread EXCEPT ![w] = [@ EXCEPT !.pc = "delete",
                                                   !.victim = n,
                                                   !.hit = TRUE]]
      /\ UNCHANGED <<listVars, mem, crashed>>

NotFound(w) ==
  /\ At(w, "scan")
  /\ thread[w].node = NULL
  /\ Unlock
  /\ Goto(w, "fetch")
  /\ UNCHANGED <<listVars, mem, crashed>>

(* send_request: the response goes to the client, and to the cache if it   *)
(* is small enough.  put_cache_item fills the node before it links it.     *)
NoStore(w) ==
  /\ At(w, "fetch")
  /\ thread' = [thread EXCEPT ![w] = Idle]
  /\ UNCHANGED <<listVars, lock, mem, crashed>>

Put(w, n, length) ==
  /\ At(w, "fetch")
  /\ length < MAX_OBJECT_SIZE
  /\ n \in Malloc
  /\ mem' = [mem EXCEPT ![n] = [@ EXCEPT !.uri = thread[w].uri,
                                         !.length = length,
                                         !.state = "live"]]
  /\ thread' = [thread EXCEPT ![w].pc = "room", ![w].node = n]
  /\ UNCHANGED <<listVars, lock, crashed>>

Room(w) ==
  /\ At(w, "room")
  /\ thread' = [thread EXCEPT ![w] =
       IF mem[@.node].length > free_cache_size
       THEN [@ EXCEPT !.pc = "delete", !.victim = tail]
       ELSE [@ EXCEPT !.pc = "lock_insert"]]
  /\ UNCHANGED <<listVars, lock, mem, crashed>>

-----------------------------------------------------------------------------
(* delete(victim), for get_cache_item and for put_cache_item.  Without the *)
(* lock, it initializes cache and lock if victim is the only node.         *)
Deleted_Once(w) == Goto(w, "lock_insert")

Deleted(w) ==
  Goto(w, IF thread[w].hit THEN "lock_insert" ELSE "room")

DeleteOnly_KeepsSize(w) ==
  LET v == thread[w].victim
  IN  /\ At(w, "delete")
      /\ v = head /\ v = tail
      /\ head' = NULL /\ tail' = NULL
      /\ lock' = Unlocked
      /\ mem' = IF v = NULL THEN mem ELSE Freed(mem, v)
      /\ Deleted(w)
      /\ UNCHANGED <<free_cache_size, crashed>>

DeleteOnly(w) ==
  LET v == thread[w].victim
  IN  /\ At(w, "delete")
      /\ v = head /\ v = tail
      /\ \/ v = Junk /\ Crash
         \/ /\ v # Junk
            /\ head' = NULL /\ tail' = NULL
            /\ free_cache_size' = MAX_CACHE_SIZE
            /\ lock' = Unlocked
            /\ mem' = IF v = NULL THEN mem ELSE Freed(mem, v)
            /\ Deleted(w)
            /\ UNCHANGED crashed

DeleteLocks(w) ==
  /\ At(w, "delete")
  /\ thread[w].victim # head \/ thread[w].victim # tail
  /\ Goto(w, "lock_delete")
  /\ UNCHANGED <<listVars, lock, mem, crashed>>

WriteLock(w) ==
  /\ \/ At(w, "lock_delete") /\ Goto(w, "unlink")
     \/ At(w, "lock_insert") /\ Goto(w, "link")
  /\ lock = Unlocked
  /\ lock' = [lock EXCEPT !.writer = TRUE]
  /\ UNCHANGED <<listVars, mem, crashed>>

(* The pointers delete follows: the victim's own fields, those of its      *)
(* predecessor unless it is the head, of its successor unless the tail.    *)
CanUnlink(v) == /\ v \in Nodes
                /\ v # head => mem[v].prev \in Nodes
                /\ v # tail => mem[v].next \in Nodes

Unlink_KeepsTail(w) ==
  LET v == thread[w].victim
      front == [mem EXCEPT ![mem[v].prev].next = mem[v].next]
      ahead == IF v = head THEN mem ELSE front
      back  == [ahead EXCEPT ![ahead[v].next].prev = ahead[v].prev]
      both  == IF v = tail THEN ahead ELSE back
  IN  /\ At(w, "unlink")
      /\ CanUnlink(v)
      /\ head' = IF v = head THEN mem[v].next ELSE head
      /\ free_cache_size' = free_cache_size + mem[v].length
      /\ mem' = Freed(both, v)
      /\ Unlock
      /\ Deleted(w)
      /\ UNCHANGED <<tail, crashed>>

Unlink(w) ==
  LET v == thread[w].victim
      front == [mem EXCEPT ![mem[v].prev].next = mem[v].next]
      ahead == IF v = head THEN mem ELSE front
      back  == [ahead EXCEPT ![ahead[v].next].prev = ahead[v].prev]
      both  == IF v = tail THEN ahead ELSE back
  IN  /\ At(w, "unlink")
      /\ \/ ~CanUnlink(v) /\ Crash
         \/ /\ CanUnlink(v)
            /\ head' = IF v = head THEN mem[v].next ELSE head
            /\ tail' = IF v = tail THEN ahead[v].prev ELSE tail
            /\ free_cache_size' = free_cache_size + mem[v].length
            /\ mem' = Freed(both, v)
            /\ Unlock
            /\ Deleted(w)
            /\ UNCHANGED crashed

-----------------------------------------------------------------------------
(* insert(node).  A node found is inserted although delete has freed it.   *)
Inserted(w) ==
  IF thread[w].hit THEN Goto(w, "reply")
                   ELSE thread' = [thread EXCEPT ![w] = Idle]

Link_AtTail(w) ==
  LET n == thread[w].node
      first == [mem EXCEPT ![n].next = NULL, ![n].prev = tail]
  IN  /\ At(w, "link")
      /\ mem' = IF head = NULL THEN first ELSE [first EXCEPT ![tail].next = n]
      /\ head' = IF head = NULL THEN n ELSE head
      /\ tail' = n
      /\ free_cache_size' = free_cache_size - mem[n].length
      /\ Unlock
      /\ Inserted(w)
      /\ UNCHANGED crashed

Link(w) ==
  LET n == thread[w].node
      first == [mem EXCEPT ![n].next = head, ![n].prev = NULL]
  IN  /\ At(w, "link")
      /\ \/ head = Junk /\ Crash
         \/ /\ head # Junk
            /\ mem' = IF head = NULL THEN first ELSE [first EXCEPT ![head].prev = n]
            /\ head' = n
            /\ tail' = IF head = NULL THEN n ELSE tail
            /\ free_cache_size' = free_cache_size - mem[n].length
            /\ Unlock
            /\ Inserted(w)
            /\ UNCHANGED crashed

(* send_request writes the object it got to the client.                    *)
Reply(w) ==
  /\ At(w, "reply")
  /\ thread' = [thread EXCEPT ![w] = Idle]
  /\ UNCHANGED <<listVars, lock, mem, crashed>>

-----------------------------------------------------------------------------
Get(w) == ReadLock(w) \/ Scan(w) \/ Found(w) \/ NotFound(w) \/ Reply(w)

Store(w) == \/ NoStore(w)
            \/ \E n \in Nodes, length \in Lengths : Put(w, n, length)
            \/ Room(w)

Delete(w) == DeleteOnly(w) \/ DeleteLocks(w) \/ Unlink(w)

Work(w) == Get(w) \/ Store(w) \/ Delete(w) \/ WriteLock(w) \/ Link(w)

Next == \E w \in Workers : Work(w) \/ \E u \in Uris : Request(w, u)

Spec == Init /\ [][Next]_vars

-----------------------------------------------------------------------------
(* The list as a scan from head sees it: the pointer after k nodes, and    *)
(* the nodes before the first pointer that is none.                        *)
Walk ==
  LET at[k \in 0 .. MaxNodes] ==
        IF k = 0 THEN head
        ELSE IF at[k - 1] \in Nodes THEN mem[at[k - 1]].next ELSE at[k - 1]
  IN  at

Chain == [i \in 1 .. Cardinality({k \in DOMAIN Walk : Walk[k] \in Nodes})
            |-> Walk[i - 1]]

Stored ==
  LET sum[k \in 0 .. Len(Chain)] ==
        IF k = 0 THEN 0 ELSE sum[k - 1] + mem[Chain[k]].length
  IN  sum[Len(Chain)]

(* Every variable has its type, and no more readers than threads hold the  *)
(* lock.                                                                   *)
PC == {"idle", "rdlock", "scan", "fetch", "room", "delete", "lock_delete",
       "unlink", "lock_insert", "link", "reply"}

TypeOK ==
  /\ {head, tail} \subseteq Pointer
  /\ free_cache_size \in Int
  /\ lock \in [readers : 0 .. Cardinality(Workers), writer : BOOLEAN]
  /\ mem \in [Nodes -> [next : Pointer, prev : Pointer, length : Nat,
                        uri : Uris \cup {NoUri},
                        state : {"unused", "live", "freed"}]]
  /\ thread \in [Workers -> [pc : PC, uri : Uris \cup {NoUri}, hit : BOOLEAN,
                             node : Pointer, victim : Pointer]]
  /\ crashed \in BOOLEAN

(* "Cache is a doubly linked list with nodes as cache objects": from head  *)
(* the next pointers lead to tail and end there, prev leads back, and no   *)
(* URI is listed twice.                                                    *)
ListSound ==
  /\ Walk[MaxNodes] = NULL
  /\ tail = IF Chain = <<>> THEN NULL ELSE Last(Chain)
  /\ \A i \in DOMAIN Chain :
        mem[Chain[i]].prev = IF i = 1 THEN NULL ELSE Chain[i - 1]
  /\ \A i, j \in DOMAIN Chain : mem[Chain[i]].uri = mem[Chain[j]].uri => i = j

(* free_cache_size is what the objects in the list leave of the capacity,  *)
(* from the first call of initialize_cache on, and never negative.         *)
SpaceAccounted ==
  /\ free_cache_size >= 0
  /\ \/ free_cache_size + Stored = MAX_CACHE_SIZE
     \/ free_cache_size + Stored = 0

(* Every request ends: no scan runs in a circle, no lock stays taken, no   *)
(* eviction goes on for ever.                                              *)
RequestsEnd == \A w \in Workers : (thread[w].pc # "idle") ~> (thread[w].pc = "idle")

(* The list is the object cache its comment describes: a client gets the   *)
(* object it asked for, which becomes the first of the list, and the last  *)
(* ones make room.  Between delete and insert the object that was found is *)
(* only in the thread's hands.                                             *)
InHands(w) == thread[w].hit /\ thread[w].pc \in {"lock_insert", "link"}

Asked == [w \in Workers |-> thread[w].uri]

Objects ==
  LET held  == {w \in Workers : InHands(w)}
      nodes == {<<thread[w].node>> \o Chain : w \in held}
      shown == IF held = {} THEN Chain ELSE CHOOSE c \in nodes : TRUE
  IN  [i \in DOMAIN shown |-> [uri |-> mem[shown[i]].uri,
                               length |-> mem[shown[i]].length]]

LRU == INSTANCE ObjectCache WITH
         Clients <- Workers, objects <- Objects, asked <- Asked,
         Capacity <- MAX_CACHE_SIZE

ImplementsLRU == LRU!CacheSpec

(* A client gets the object it asked for, although the node is read after  *)
(* the lock has been given up, delete has freed it and insert has linked   *)
(* it in again.                                                            *)
RightObject ==
  \A w \in Workers : thread[w].pc = "reply"
                      => mem[thread[w].node].uri = thread[w].uri
=============================================================================
