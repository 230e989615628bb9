---------------------------- MODULE ProxyRequest ----------------------------
(***************************************************************************)
(* A request to src/proxylab/proxy.c from its first byte to its last: the  *)
(* line of the client, the object cache, and the response that goes from   *)
(* the server through response[] to the client and, piece by piece, into   *)
(* cache_content.  The cache is ProxyCache, the streams are Rio's; this    *)
(* module adds the bytes.                                                  *)
(*                                                                         *)
(* Byte i of a response is the number i, or Nul; which server it came from *)
(* is the matter of ProxyCache's URIs.  Unknown is a byte of memory that   *)
(* nobody has written.                                                     *)
(***************************************************************************)
EXTENDS ProxyCache, Rio

CONSTANTS MAXLINE, MAXBUF, RespLengths,
          NulAt,          \* where a response may have a zero byte; 0: nowhere
          Nul, Unknown, Header

ASSUME RequestAssumption == MAXBUF \in Nat \ {0} /\ RespLengths \subseteq Nat

VARIABLES
  conn,      \* the relay in send_request of each worker
  content,   \* of each node of the cache
  answered   \* history: the response each node's object was taken from

requestVars == <<vars, conn, content, answered>>

-----------------------------------------------------------------------------
(* process_request: host, port and path, when s follows "http://" (nothing *)
(* does in a URI that begins otherwise) and host[] and path[] hold hostWas *)
(* and pathWas before.  sscanf writes host[] if there is something to copy *)
(* and path[] is written if there is a "/".  Both searches are made before *)
(* either cut.                                                             *)
First(s, c) == Min({i \in 1 .. Len(s) : s[i] = c} \cup {Len(s) + 1})

Scanned(s, hostWas) == IF s = <<>> THEN hostWas ELSE s

PathOf(t, pathWas) ==
  LET h == First(t, "/") IN IF h > Len(t) THEN pathWas ELSE SubSeq(t, h, Len(t))

Parsed_SearchesHostOnly(s, hostWas, pathWas) ==
  LET t == Scanned(s, hostWas)
      p == First(t, ":")
  IN  [host |-> SubSeq(t, 1, p - 1),
       path |-> PathOf(t, pathWas),
       port |-> IF p > Len(t) THEN <<"80">> ELSE SubSeq(t, p + 1, First(t, "/") - 1)]

Parsed(s, hostWas, pathWas) ==
  LET t == Scanned(s, hostWas)
      h == First(t, "/")
      p == First(t, ":")
      end == IF p < h THEN h - 1 ELSE Len(t)
  IN  [host |-> SubSeq(t, 1, Shorter(h, p) - 1),
       path |-> PathOf(t, pathWas),
       port |-> IF p > Len(t) THEN <<"80">> ELSE SubSeq(t, p + 1, end)]

(* The requests of a client: with more lines, with one, or cut short.      *)
Requests(u) == {<<u, Newline, Header>>, <<u, Newline>>, <<u>>, <<>>}

(* The URI in buf, which is not written when the client sends nothing.     *)
UriIn(line) == IF line = <<>> THEN Uris ELSE {line[1]} \cap Uris

-----------------------------------------------------------------------------
(* send_request                                                            *)
NoRelay == [on |-> FALSE, server |-> rio_readinitb(<<>>), response |-> <<>>,
            cache_content |-> <<>>, total |-> 0, sent |-> <<>>, whole |-> <<>>]

Responses == {[i \in 1 .. n |-> IF i = z THEN Nul ELSE i] :
                 n \in RespLengths, z \in NulAt}

RequestInit == /\ Init
               /\ conn = [w \in Workers |-> NoRelay]
               /\ content = [n \in Nodes |-> <<>>]
               /\ answered = [n \in Nodes |-> <<>>]

Receive(w) ==
  /\ \E u \in Uris : \E r \in Requests(u) :
       \E o \in rio_readlineb(rio_readinitb(r), MAXLINE) :
         \E uri \in UriIn(o.got) : Request(w, uri)
  /\ UNCHANGED <<conn, content, answered>>

Fetching(w, relay) == At(w, "fetch") /\ conn[w].on = relay

Unreachable(w) ==
  /\ Fetching(w, FALSE)
  /\ NoStore(w)
  /\ UNCHANGED <<conn, content, answered>>

Dial(w) ==
  /\ Fetching(w, FALSE)
  /\ \E whole \in Responses :
        conn' = [conn EXCEPT ![w] =
                   [NoRelay EXCEPT !.on = TRUE, !.whole = whole,
                                   !.server = rio_readinitb(whole),
                                   !.response = [i \in 1 .. MAXBUF |-> Unknown]]]
  /\ UNCHANGED <<vars, content, answered>>

(* Rio_readnb writes no terminator: strcat goes on through what response[] *)
(* holds behind the bytes read, then through the memory behind it.         *)
Overlay(bytes, array) == bytes \o Behind(array, Len(bytes))

CString(array) ==
  LET end == First(array, Nul)
  IN  IF end <= Len(array) THEN {SubSeq(array, 1, end - 1)}
                           ELSE {array, Append(array, Unknown)}

Text_ClearedLate(c, got) == CString(Overlay(<<Nul>>, Overlay(got, c.response)))

Text(c, got) == CString(Overlay(got, Overlay(<<Nul>>, c.response)))

Written_Whole(c, got) == rio_writen(Overlay(got, c.response))

Written(c, got) == rio_writen(got)

Relay(w) ==
  LET c == conn[w]
  IN  /\ Fetching(w, TRUE)
      /\ \E o \in rio_readnb(c.server, MAXBUF) :
         \E text \in Text(c, o.got), bytes \in Written(c, o.got) :
           /\ o.got # <<>>
           /\ conn' = [conn EXCEPT ![w] =
                [c EXCEPT !.server = o.reader,
                          !.response = Overlay(o.got, Overlay(<<Nul>>, @)),
                          !.total = @ + Len(o.got),
                          !.cache_content =
                             IF c.total + Len(o.got) < MAX_OBJECT_SIZE
                             THEN @ \o text ELSE @,
                          !.sent = @ \o bytes]]
      /\ UNCHANGED <<vars, content, answered>>

(* put_cache_item copies total bytes of cache_content, however many of     *)
(* them strcat has written.  Past MaxNodes objects nothing is stored.      *)
Copied(c) ==
  [i \in 1 .. c.total |->
     IF i <= Len(c.cache_content) THEN c.cache_content[i]
     ELSE IF i = Len(c.cache_content) + 1 THEN Nul ELSE Unknown]

Finish(w) ==
  /\ Fetching(w, TRUE)
  /\ \E o \in rio_readnb(conn[w].server, MAXBUF) : o.got = <<>>
  /\ \/ /\ conn[w].total >= MAX_OBJECT_SIZE \/ Malloc = {}
        /\ NoStore(w)
        /\ UNCHANGED <<content, answered>>
     \/ \E n \in Malloc :
          /\ Put(w, n, conn[w].total)
          /\ content' = [content EXCEPT ![n] = Copied(conn[w])]
          /\ answered' = [answered EXCEPT ![n] = conn[w].whole]
  /\ conn' = [conn EXCEPT ![w] = NoRelay]

InCache(w) ==
  /\ \/ Get(w) \/ Room(w) \/ Delete(w) \/ WriteLock(w) \/ Link(w)
  /\ UNCHANGED <<conn, content, answered>>

-----------------------------------------------------------------------------
WorkOn(w) == Unreachable(w) \/ Dial(w) \/ Relay(w) \/ Finish(w) \/ InCache(w)

RequestNext == \E w \in Workers : Receive(w) \/ WorkOn(w)

RequestSpec == RequestInit /\ [][RequestNext]_requestVars

-----------------------------------------------------------------------------
(* A client gets the response of its server byte for byte, in whatever     *)
(* pieces it comes and whether or not it is cached.                        *)
RelaysAll ==
  [][\A w \in Workers : conn[w].on /\ ~conn'[w].on
                          => conn[w].sent = conn[w].whole]_conn

(* What a hit is answered with is what the server had answered, if that    *)
(* has no zero byte and fits into response[].                              *)
TextIsCached ==
  \A n \in Nodes :
    Nul \notin Range(answered[n]) /\ Len(answered[n]) <= MAXBUF
      => content[n] = answered[n]

(* A claim of the code that it does not keep.  "If the object is cached,   *)
(* then gets the content from the cache": what is cached for a URI is the  *)
(* response of its server.                                                 *)
CachedIsResponse == \A n \in Nodes : content[n] = answered[n]
=============================================================================
