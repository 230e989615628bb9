---------------------------- MODULE ObjectCache ----------------------------
(***************************************************************************)
(* What the comment at the top of src/proxylab/cache.c promises of the     *)
(* proxy's cache to the clients that ask it, each for one object at a      *)
(* time: objects in the order of their last use; a request for one of them *)
(* is answered with it and makes it the most recent one; what another      *)
(* request fetches may be stored in front, after the least recent objects  *)
(* have made room for it.  Objects without a byte may go although there is *)
(* room, as long as the cache holds no others.                             *)
(***************************************************************************)
EXTENDS Integers, SequencesExt

CONSTANTS Clients, Uris, Lengths, Capacity, NoUri

VARIABLES objects,   \* the most recently used object first
          asked      \* the URI each client has asked for, or NoUri

Object == [uri : Uris, length : Lengths]

Used ==
  LET sum[k \in 0 .. Len(objects)] ==
        IF k = 0 THEN 0 ELSE sum[k - 1] + objects[k].length
  IN  sum[Len(objects)]

Has(u) == \E i \in DOMAIN objects : objects[i].uri = u

CacheInit == objects = <<>> /\ asked = [k \in Clients |-> NoUri]

Asks(k, u) == asked' = [asked EXCEPT ![k] = u]

Ask(k, u) == asked[k] = NoUri /\ Asks(k, u) /\ UNCHANGED objects

Hit(k, i) ==
  /\ objects[i].uri = asked[k]
  /\ objects' = <<objects[i]>> \o RemoveAt(objects, i)
  /\ UNCHANGED asked

Answer(k) ==
  /\ objects # <<>>
  /\ objects[1].uri = asked[k]
  /\ Asks(k, NoUri)
  /\ UNCHANGED objects

Evict(k, length) ==
  /\ asked[k] # NoUri /\ ~Has(asked[k])
  /\ objects # <<>>
  /\ Used # 0 => Used + length > Capacity
  /\ objects' = Front(objects)
  /\ UNCHANGED asked

Store(k, length) ==
  /\ asked[k] # NoUri /\ ~Has(asked[k])
  /\ Used + length <= Capacity
  /\ objects' = <<[uri |-> asked[k], length |-> length]>> \o objects
  /\ Asks(k, NoUri)

NotStored(k) == ~Has(asked[k]) /\ Asks(k, NoUri) /\ UNCHANGED objects

CacheNext == \E k \in Clients :
               \/ \E u \in Uris : Ask(k, u)
               \/ \E i \in DOMAIN objects : Hit(k, i)
               \/ Answer(k)
               \/ \E length \in Lengths : Evict(k, length) \/ Store(k, length)
               \/ NotStored(k)

CacheSpec == CacheInit /\ [][CacheNext]_<<objects, asked>>
=============================================================================
