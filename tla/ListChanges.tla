---------------------------- MODULE ListChanges ----------------------------
(***************************************************************************)
(* The list of sessions and activeClients are changed without a lock, by   *)
(* the host in add_client_to_session and by handlers in                    *)
(* remove_client_from_session.  To say what this leads to, and what it     *)
(* does not, a history variable notes whether two threads have ever been   *)
(* at once in the middle of such a change.                                 *)
(***************************************************************************)
EXTENDS Sessions

VARIABLE met    \* history: two changes have met

HostChanging == hpc \in {"tail", "link", "load", "store"}
Changing == {c \in Clients : spc[c] \in {"find", "unlink", "load", "store"}}

\* The host and all the handlers: one thread at most is changing the list.
OneChanges ==
    /\ HostChanging => Changing = {}
    /\ \A c, d \in Changing : c = d

Note == met' = (met \/ ~OneChanges')
MetInit == Init /\ met = FALSE
MetSpec == MetInit /\ [][Next /\ Note]_<<vars, met>>

-----------------------------------------------------------------------------
(* Properties                                                              *)

\* As long as no two changes have met: with nobody in the middle of changing it,
\* the list holds exactly the sessions there are, and activeClients counts them,
\* whatever else goes on between host and handlers.  Once two have met a node or a
\* count may be lost.
ListRight ==
    ~met /\ ~HostChanging /\ Changing = {}
    => /\ active = Cardinality(Listed)
       /\ Listed = {c \in Clients : Occupying(c)}
            \cup (IF hpc \in {"resp", "greet", "req", "start"} THEN {hcl} ELSE {})

\* As long as no two changes have met, no client is turned away by a full session:
\* the semaphore lets the host in only when a handler has left list and count.
\* The check of activeClients itself may come in the middle of a change.
NobodyRefused == met \/ NeverRefused
=============================================================================
