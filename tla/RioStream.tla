----------------------------- MODULE RioStream -----------------------------
(***************************************************************************)
(* One reader of src/proxylab/csapp.c over the life of its descriptor:     *)
(* lines and blocks are asked for in any order, and the reader keeps what  *)
(* the kernel has handed over too early.                                   *)
(*                                                                         *)
(* Byte i of the stream is the number i, or Newline.                       *)
(***************************************************************************)
EXTENDS Rio

CONSTANT MaxStream

ASSUME StreamAssumption == MaxStream \in Nat

VARIABLES reader, got,     \* the reader, and the bytes it has returned
          asked            \* the last call

streamVars == <<reader, got, asked>>

NoCall == [op |-> "none", n |-> 0]

Streams == UNION {{s \in [1 .. n -> (1 .. n) \cup {Newline}] :
                     \A i \in 1 .. n : s[i] \in {i, Newline}} : n \in 0 .. MaxStream}

StreamInit == /\ reader \in {rio_readinitb(s) : s \in Streams}
              /\ got = <<>> /\ asked = NoCall

Call(op, n, outcomes) ==
  /\ \E o \in outcomes : got' = got \o o.got /\ reader' = o.reader
  /\ asked' = [op |-> op, n |-> n]

StreamNext == \E n \in 1 .. MaxStream + 1 :
                \/ Call("line", n, rio_readlineb(reader, n))
                \/ Call("block", n, rio_readnb(reader, n))

-----------------------------------------------------------------------------
(* Whatever the sizes in which the kernel hands over the bytes: a line is  *)
(* the bytes through the first newline (or as many as fit), a block the    *)
(* bytes asked for or all there are, and each call goes on where the last  *)
(* one ended, part of what follows already in rio_buf.                     *)
Line(s, maxlen) ==
  LET end == Min({i \in DOMAIN s : s[i] = Newline} \cup {Len(s)})
  IN  Ahead(s, Shorter(end, maxlen - 1))

Expected == IF asked'.op = "line" THEN Line(Left(reader), asked'.n)
                                  ELSE Ahead(Left(reader), asked'.n)

StreamsIntact ==
  [][/\ got' = got \o Expected
     /\ Left(reader') = Behind(Left(reader), Len(Expected))]_streamVars
=============================================================================
