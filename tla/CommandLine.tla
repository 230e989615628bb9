---------------------------- MODULE CommandLine ----------------------------
(***************************************************************************)
(* parseline of src/tshlab/tsh.c: a line of characters becomes arguments,  *)
(* file names and the decision between foreground and background.          *)
(***************************************************************************)
EXTENDS Integers, SequencesExt

(* The characters that have a meaning; Blank stands for all white-space.   *)
Blank == " "
From  == "<"
Into  == ">"
Amp   == "&"

Quotes == {"'", "\""}

CONSTANTS MAXARGS, MaxItems, Words

(* A command fits into argv[] with "&" and the NULL that ends it.  A last  *)
(* word that begins with "&" is no argument (see Ampersand).               *)
ASSUME CommandAssumption ==
  /\ MAXARGS \in Nat /\ MaxItems \in Nat /\ MaxItems + 2 <= MAXARGS
  /\ Words \subseteq Seq(STRING)
  /\ \A word \in Words : word # <<>> => word[1] # Amp

VARIABLE typed      \* the command on the line, item by item

-----------------------------------------------------------------------------
Malformed == [wrong |-> TRUE]       \* -1 is returned

NoToken == [argv |-> <<>>, infile |-> <<>>, outfile |-> <<>>, state |-> {}]

IndexOf(line, start, chars) ==
  Min({i \in start .. Len(line) : line[i] \in chars} \cup {Len(line) + 1})

(* File names are sequences of one word, or empty; state holds the         *)
(* redirections that wait for theirs.                                      *)
Recorded(tok, word) ==
  [argv    |-> IF tok.state = {} THEN Append(tok.argv, word) ELSE tok.argv,
   infile  |-> IF tok.state = {From} THEN <<word>> ELSE tok.infile,
   outfile |-> IF tok.state = {Into} THEN <<word>> ELSE tok.outfile,
   state   |-> {}]

(* The loop of parseline is at position buf of the line with the tokens    *)
(* tok; it is left when buf is behind the line.                            *)
Going(buf, tok) == [buf |-> buf, tok |-> tok]

Leaves(line, tok) == Going(Len(line) + 1, tok)

Redirects(line, at) ==
  LET c == line[at.buf]
  IN  IF (IF c = From THEN at.tok.infile ELSE at.tok.outfile) # <<>>
      THEN Leaves(line, Malformed)
      ELSE Going(at.buf + 1, [at.tok EXCEPT !.state = @ \cup {c}])

Records(line, at) ==
  LET c     == line[at.buf]
      start == IF c \in Quotes THEN at.buf + 1 ELSE at.buf
      next  == IndexOf(line, start, IF c \in Quotes THEN {c} ELSE {Blank})
      more  == Recorded(at.tok, SubSeq(line, start, next - 1))
  IN  IF \/ c \in Quotes /\ next > Len(line)
         \/ at.tok.state = {From, Into}
      THEN Leaves(line, Malformed)
      ELSE IF Len(more.argv) >= MAXARGS - 1 THEN Leaves(line, more)
      ELSE Going(next + 1, more)

Turn(line, at) ==
  IF at.buf > Len(line) THEN at
  ELSE CASE line[at.buf] = Blank          -> Going(at.buf + 1, at.tok)
         [] line[at.buf] \in {From, Into} -> Redirects(line, at)
         [] OTHER                         -> Records(line, at)

(* Each turn moves buf on, so as many turns as there are characters do.    *)
Loop(line) ==
  LET after[k \in 0 .. Len(line)] ==
        IF k = 0 THEN Going(1, NoToken) ELSE Turn(line, after[k - 1])
  IN  after

Tokens(line) == Loop(line)[Len(line)].tok

(* A last argument that begins with "&" is taken for the one that asks for *)
(* the background, quoted or not.                                          *)
Ampersand(argv) == argv # <<>> /\ Last(argv) # <<>> /\ Last(argv)[1] = Amp

parseline_Unchecked(cmdline) ==
  LET tok == Tokens(cmdline)
  IN  IF tok = Malformed THEN Malformed
      ELSE [argv |-> IF Ampersand(tok.argv) THEN Front(tok.argv) ELSE tok.argv,
            infile |-> tok.infile, outfile |-> tok.outfile,
            bg |-> tok.argv = <<>> \/ Ampersand(tok.argv)]

parseline(cmdline) ==
  LET tok == Tokens(cmdline)
  IN  IF tok = Malformed \/ tok.state # {} THEN Malformed
      ELSE [argv |-> IF Ampersand(tok.argv) THEN Front(tok.argv) ELSE tok.argv,
            infile |-> tok.infile, outfile |-> tok.outfile,
            bg |-> tok.argv = <<>> \/ Ampersand(tok.argv)]

-----------------------------------------------------------------------------
(* A command as it is meant, "command [arguments...] [< infile] [> oufile] *)
(* [&]", and the ways to write it: file names anywhere between the         *)
(* arguments, each word quoted or, if it can stand so, bare.               *)
Bare(word) == /\ word # <<>> /\ word[1] \notin Quotes \cup {From, Into}
              /\ Blank \notin Range(word)

Items == {i \in [as : {<<>>, <<From>>, <<Into, Blank>>}, word : Words,
                 quote : {<<>>} \cup {<<q>> : q \in Quotes}] :
            IF i.quote = <<>> THEN Bare(i.word) ELSE i.quote[1] \notin Range(i.word)}

Type == /\ Len(typed) < MaxItems
        /\ \E i \in Items : typed' = Append(typed, i)

LineInit == typed = <<>>

LineSpec == LineInit /\ [][Type]_typed

Spelt(item) == item.as \o item.quote \o item.word \o item.quote \o <<Blank>>

Spelling(items) ==
  LET text[k \in 0 .. Len(items)] ==
        IF k = 0 THEN <<>> ELSE text[k - 1] \o Spelt(items[k])
  IN  text

Written(items) == Spelling(items)[Len(items)]

-----------------------------------------------------------------------------
(* The words among the first items that are written in this way.           *)
Selected(items, as) ==
  LET those[k \in 0 .. Len(items)] ==
        IF k = 0 THEN <<>>
        ELSE IF items[k].as = as THEN Append(those[k - 1], items[k].word)
        ELSE those[k - 1]
  IN  those

TypedAs(as) == Selected(typed, as)[Len(typed)]

Meant(amp) ==
  LET infile  == TypedAs(<<From>>)
      outfile == TypedAs(<<Into, Blank>>)
      args    == TypedAs(<<>>)
  IN  IF Len(infile) > 1 \/ Len(outfile) > 1 THEN Malformed
      ELSE [argv |-> args, infile |-> infile, outfile |-> outfile,
            bg |-> amp # <<>> \/ args = <<>>]

Unclosed == UNION {{<<quote>> \o word : word \in {w \in Words : quote \notin Range(w)}}
                      : quote \in Quotes}

Unfinished == {<<From>>, <<Into, Blank>>} \cup Unclosed \cup {<<From>> \o q : q \in Unclosed}

(* "Characters enclosed in single or double quotes are treated as a single *)
(* argument": a command is read as it is meant, however it is written.     *)
(* "-1: if cmdline is incorrectly formatted": a second file for the same   *)
(* stream, and, behind whatever comes before, a redirection without a file *)
(* name and a quote that is not closed.                                    *)
ReadsCommands ==
  /\ \A amp \in {<<>>, <<Amp>>} : parseline(Written(typed) \o amp) = Meant(amp)
  /\ \A end \in Unfinished : parseline(Written(typed) \o end) = Malformed
=============================================================================
