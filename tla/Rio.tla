-------------------------------- MODULE Rio --------------------------------
(***************************************************************************)
(* The buffered readers and the writer of src/proxylab/csapp.c.  read and  *)
(* write may transfer fewer bytes than they are asked for, so that a call  *)
(* has a set of outcomes: what it returns, and the reader it leaves.       *)
(*                                                                         *)
(* A reader is the unread part of rio_buf and what the peer sends before   *)
(* it closes.  A read that a signal interrupts is made again at once; one  *)
(* that fails ends the process (the capitalised wrappers), and is left to  *)
(* RioFails of ProxyServer.                                                *)
(***************************************************************************)
EXTENDS Integers, SequencesExt

CONSTANTS RIO_BUFSIZE, Newline

ASSUME RioAssumption == RIO_BUFSIZE \in Nat \ {0}

-----------------------------------------------------------------------------
Shorter(m, n) == IF m < n THEN m ELSE n

Ahead(s, n) == SubSeq(s, 1, Shorter(n, Len(s)))

Behind(s, n) == SubSeq(s, n + 1, Len(s))

rio_readinitb(stream) == [buf |-> <<>>, rest |-> stream]

Left(reader) == reader.buf \o reader.rest

(* The refill: the kernel returns one byte at least unless the peer has    *)
(* closed, and no more than rio_buf holds.                                 *)
Refill(reader) ==
  IF reader.buf # <<>> \/ reader.rest = <<>> THEN {reader}
  ELSE {[buf |-> Ahead(reader.rest, k), rest |-> Behind(reader.rest, k)] :
           k \in 1 .. Shorter(RIO_BUFSIZE, Len(reader.rest))}

rio_read(reader, n) ==
  {[got |-> Ahead(r.buf, n), reader |-> [r EXCEPT !.buf = Behind(@, n)]] :
      r \in Refill(reader)}

(* What a loop may have come to after n turns.  The turns it does not make *)
(* because it has left are turns that change nothing: at the end of the    *)
(* stream rio_read goes on returning no byte.                              *)
Turns(turn(_), start, n) ==
  LET after[k \in 0 .. n] == IF k = 0 THEN {start}
                             ELSE UNION {turn(o) : o \in after[k - 1]}
  IN  after[n]

Nothing(reader) == [got |-> <<>>, reader |-> reader]

More(o, n) == {[got |-> o.got \o p.got, reader |-> p.reader] :
                 p \in rio_read(o.reader, n)}

(* A short count alone is no end of file.                                  *)
rio_readnb_Once(reader, n) ==
  IF n = 0 THEN {Nothing(reader)} ELSE rio_read(reader, n)

rio_readnb(reader, n) ==
  LET turn(o) == IF Len(o.got) = n THEN {o} ELSE More(o, n - Len(o.got))
  IN  Turns(turn, Nothing(reader), n)

(* At most maxlen - 1 bytes, through the first newline.                    *)
rio_readlineb(reader, maxlen) ==
  LET turn(o) == IF Newline \in Range(o.got) THEN {o} ELSE More(o, 1)
  IN  Turns(turn, Nothing(reader), maxlen - 1)

rio_writen(bytes) ==
  LET turn(sent) == IF sent = bytes THEN {sent}
                    ELSE {Ahead(bytes, k) : k \in Len(sent) + 1 .. Len(bytes)}
  IN  Turns(turn, <<>>, Len(bytes))
=============================================================================
