------------------------------ MODULE Streams ------------------------------
(***************************************************************************)
(* The redirections of src/tshlab/tsh.c: the table of descriptors of the   *)
(* shell, the system calls change_IO and eval make on it, and the tables   *)
(* of the children, over any sequence of commands.                         *)
(***************************************************************************)
EXTENDS Integers

CONSTANTS MaxFd,      \* descriptors 0 .. MaxFd, as many as the limit allows
          Files,      \* what a descriptor may stand for
          Shut        \* or that it stands for nothing

VARIABLES
  fds,        \* the descriptors of the shell
  child       \* the command last started: its files and its descriptors

streamVars == <<fds, child>>

ASSUME StreamsAssumption == MaxFd \in Nat \ {0} /\ Shut \notin Files

-----------------------------------------------------------------------------
Fds == 0 .. MaxFd

None == -1                  \* what a call that fails returns

Tables == [Fds -> Files \cup {Shut}]

FreeFds(t) == {fd \in Fds : t[fd] = Shut}

(* The descriptor a successful open or dup returns: the lowest free one.   *)
Lowest(t) == IF FreeFds(t) = {} THEN None
             ELSE CHOOSE fd \in FreeFds(t) : \A other \in FreeFds(t) : fd <= other

Opened(t, file) == IF Lowest(t) = None THEN t ELSE [t EXCEPT ![Lowest(t)] = file]

dup2(t, from, to) ==
  IF from = None THEN t ELSE [t EXCEPT ![to] = t[from]]

close(t, fd) == IF fd = None THEN t ELSE [t EXCEPT ![fd] = Shut]

(* One half of change_IO; file is Shut if none is named, or the one named  *)
(* cannot be opened: dup2 and close then fail for descriptor None.         *)
Redirect_NotClosed(t, file, to) ==
  IF file = Shut THEN t ELSE dup2(Opened(t, file), Lowest(t), to)

Redirect(t, file, to) ==
  IF file = Shut THEN t
  ELSE close(dup2(Opened(t, file), Lowest(t), to), Lowest(t))

change_IO(t, infile, outfile) == Redirect(Redirect(t, infile, 0), outfile, 1)

(* eval, for a builtin command: temp_out and temp_in are never closed.     *)
Builtin_InputFirst(t, infile, outfile) ==
  LET temp_out == Lowest(t)
      t1 == Opened(t, t[1])
      temp_in == Lowest(t1)
      t2 == Opened(t1, t1[0])
      t3 == change_IO(t2, infile, outfile)
  IN  dup2(dup2(t3, temp_in, 1), temp_out, 0)

Builtin(t, infile, outfile) ==
  LET temp_out == Lowest(t)
      t1 == Opened(t, t[1])
      temp_in == Lowest(t1)
      t2 == Opened(t1, t1[0])
      t3 == change_IO(t2, infile, outfile)
  IN  dup2(dup2(t3, temp_out, 1), temp_in, 0)

-----------------------------------------------------------------------------
NoChild == [on |-> FALSE]

(* The shell may be started with any descriptors open.                     *)
StreamsInit == /\ fds \in Tables /\ fds[0] # Shut /\ fds[1] # Shut
               /\ child = NoChild

BuiltinCommand(infile, outfile) ==
  /\ fds' = Builtin(fds, infile, outfile)
  /\ child' = NoChild

(* The child works on a copy of the table.                                 *)
OtherCommand(infile, outfile) ==
  /\ child' = [on |-> TRUE, infile |-> infile, outfile |-> outfile,
               fds |-> change_IO(fds, infile, outfile)]
  /\ UNCHANGED fds

StreamsNext == \E infile, outfile \in Files \cup {Shut} :
                 BuiltinCommand(infile, outfile) \/ OtherCommand(infile, outfile)

StreamsSpec == StreamsInit /\ [][StreamsNext]_streamVars

-----------------------------------------------------------------------------
(* "Restore the file descriptors for the next command": whatever was run   *)
(* and redirected before, the streams of the shell, and every descriptor   *)
(* it has open, go on standing for what they did, also when there are none *)
(* left for dup or open.                                                   *)
StreamsRestored == [][\A fd \in Fds : fds[fd] # Shut => fds'[fd] = fds[fd]]_fds

(* "Redirect I/O if needed": a command finds its files as its standard     *)
(* input and output if a descriptor is free, the shell's where it names    *)
(* none, and no other descriptor than the shell has.                       *)
Wanted(file, to) == IF file = Shut THEN fds[to] ELSE file

ChildRedirected ==
  child.on /\ FreeFds(fds) # {} =>
    child.fds = [fds EXCEPT ![0] = Wanted(child.infile, 0),
                            ![1] = Wanted(child.outfile, 1)]
=============================================================================
