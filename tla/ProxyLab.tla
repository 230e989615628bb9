------------------------------ MODULE ProxyLab ------------------------------
(***************************************************************************)
(* The parts of a request to src/proxylab/proxy.c side by side: requests   *)
(* as a whole, one reader, and the URI of one request.  They share no      *)
(* variable here, and a behaviour is one of one part.                      *)
(***************************************************************************)
EXTENDS ProxyRequest, RioStream

CONSTANTS MaxUri,
          Stack     \* the strings a thread's stack may hold where host[] and
                    \* path[] come to lie

VARIABLES part,
          uri       \* what follows "http://", "c" any character but : and /

LabInit == /\ RequestInit /\ StreamInit /\ uri = <<>>
           /\ \/ part \in {"requests", "uris"} /\ Left(reader) = <<>>
              \/ part = "streams"

Requesting == part = "requests" /\ RequestNext /\ UNCHANGED <<streamVars, uri>>

Reading == part = "streams" /\ StreamNext /\ UNCHANGED <<requestVars, uri>>

Spelling == /\ part = "uris" /\ Len(uri) < MaxUri
            /\ \E c \in {"c", ":", "/"} : uri' = Append(uri, c)
            /\ UNCHANGED <<requestVars, streamVars>>

LabNext == (Requesting \/ Reading \/ Spelling) /\ UNCHANGED part

(* A thread that can go on does, and a server ends its response; clients   *)
(* need not come back.                                                     *)
LabSpec == /\ LabInit /\ [][LabNext]_<<requestVars, streamVars, uri, part>>
           /\ \A w \in Workers : WF_requestVars(WorkOn(w))

-----------------------------------------------------------------------------
(* The server is asked for what stands in the URI, whatever was on the     *)
(* stack: the host ends before the first ":" or "/", the path begins at    *)
(* the first "/", if there is one, and the port is what lies between.      *)
(* With a ":" in the path only the host and the path are right.            *)
UriParts ==
  uri # <<>> => \A hostWas, pathWas \in Stack :
    LET parts == Parsed(uri, hostWas, pathWas)
        authority == SubSeq(uri, 1, First(uri, "/") - 1)
        slash == "/" \in Range(uri)
    IN  /\ Range(parts.host) \subseteq {"c"}
        /\ slash => uri = authority \o parts.path
        /\ \/ authority = parts.host /\ parts.port = <<"80">>
           \/ authority = parts.host \o <<":">> \o parts.port
           \/ slash /\ authority = parts.host /\ ":" \in Range(parts.path)

(* A claim of the code that it does not keep.  "This function parses the   *)
(* URI": what is asked for does not depend on what was on the stack.       *)
UriAlone ==
  uri # <<>> => \A hostWas, pathWas, hostIs, pathIs \in Stack :
    Parsed(uri, hostWas, pathWas) = Parsed(uri, hostIs, pathIs)
=============================================================================
