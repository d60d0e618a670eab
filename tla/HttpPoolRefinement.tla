------------------------- MODULE HttpPoolRefinement -------------------------
(***************************************************************************)
(* HttpPool implements ConnectionService.  An answer is owed to the        *)
(* connection whose bytes form the request being serviced, while the code  *)
(* writes the answer to whatever socket the handler holds: the mapping     *)
(* makes the two agree.                                                    *)
(***************************************************************************)
EXTENDS HttpPool

Owed == [c \in Connections |->
           \E h \in Handlers : pc[h] = "service" /\ c \in req[h]]

Service == INSTANCE ConnectionService WITH up <- Up, owed <- Owed

\* Every behaviour of the pool is one the clients may rely on: answers go to
\* the connection that asked, none is lost while the client stays, and the
\* server hangs up only when nothing is owed or unsent.
ImplementsService == Service!Spec
=============================================================================
