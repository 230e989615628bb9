---------------------------- MODULE MCShellInput ----------------------------
(***************************************************************************)
(* The shell with what eval does with the characters of a line and with    *)
(* the descriptors.  The three share no variable, and a behaviour is one   *)
(* of one part.                                                            *)
(***************************************************************************)
EXTENDS MCTinyShell, CommandLine, Streams

(* Words that need quotes, words that do not, and the empty one.           *)
SomeWords == {<<>>, <<"a">>, <<"a", " ", "a">>, <<"a", "&">>, <<"<", "a">>, <<"'">>}

VARIABLE part

inputVars == <<typed, fds, child>>

InputInit ==
  /\ Init /\ LineInit
  /\ \/ part \in {"jobs", "line"} /\ fds = [fd \in Fds |-> Shut] /\ child = NoChild
     \/ part = "streams" /\ StreamsInit

Shell == part = "jobs" /\ Next /\ UNCHANGED inputVars

Line == part = "line" /\ Type /\ UNCHANGED <<vars, fds, child>>

Redirections == part = "streams" /\ StreamsNext /\ UNCHANGED <<vars, typed>>

InputNext == (Shell \/ Line \/ Redirections) /\ UNCHANGED part

InputSpec == InputInit /\ [][InputNext]_<<vars, inputVars, part>>
=============================================================================
