------------------------------- MODULE MCAio --------------------------------
(***************************************************************************)
(* Model checking of Aio.  A cancel or a close before anything was         *)
(* submitted finds no queue, so the first call is First's submission.  It  *)
(* decides what the run goes on with: two reads at most and every call, or *)
(* up to three requests that wait for each other and one call to end them. *)
(***************************************************************************)
EXTENDS Aio

CONSTANT First

Calls == {"submit", "cancel", "cancelone", "close", "any", "all"}

\* User u makes no call but those of cs.
Only(u, cs) == \A c \in Calls \ cs : ~(call[u] = "none" /\ call'[u] = c)

Submits == call[First] = "none" /\ call'[First] = "submit"

Sent == {r \in Reqs : op'[r] # "none"}

\* Everyone submits; the other calls are shared out.
Reads ==
    /\ Cardinality(Sent) < 3 /\ \A r \in Sent : op'[r] = "read"
    /\ Only(First, {"submit", "cancel", "any"})
    /\ \A u \in Users \ {First} : Only(u, {"submit", "cancelone", "close", "all"})
    /\ \A q \in Queues : append'[q] # "appends"

\* First submits: a write, perhaps another one while that is in the queue, and
\* last, behind them, anything (a read behind one write only).  Another user cancels
\* a request or closes the descriptor, once.
Writes ==
    /\ Submits => \A r \in Reqs : op[r] # "none" =>
                    op[r] = "write" /\ queue[r] = slot /\ pc[r] \notin {"new", "start", "gone"}
    /\ Cardinality(Sent) = 3 => \A r \in Sent : op'[r] # "read"
    /\ Only(First, {"submit"}) /\ pc'[First] # "unref"
    /\ \A u \in Users \ {First} : Only(u, {"cancelone", "close"})
    /\ calls' <= Cardinality(Sent) + 1

MCNext ==
    /\ Next
    /\ calls = 0 => Submits /\ \A r \in Sent : op'[r] # "sync"
    /\ IF \E r \in Reqs : op'[r] = "write" THEN Writes ELSE Reads

MCSpec == Init /\ [][MCNext]_vars /\ WF_vars(Step)
=============================================================================
