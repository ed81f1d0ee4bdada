------------------------ MODULE MCAsyncSocketStream -------------------------
(***************************************************************************)
(* AsyncSocketStream for TLC: one request over a connection that is lost   *)
(* and made again and that may be closed, or all of them over a connection *)
(* that may be lost, where they meet in the send queue.                    *)
(***************************************************************************)
EXTENDS AsyncSocketStream

VARIABLE made       \* the requests that are made

MCInit ==
    /\ Init
    /\ \/ connects = 0 /\ made = {CHOOSE r \in Reqs : TRUE}
       \/ connects = MaxConnects /\ made = Reqs

\* Nobody need make a request or call close(), and no connection need be lost: no fairness is
\* cut off.
MCNext ==
    /\ Next
    /\ UNCHANGED made
    /\ \A r \in Reqs \ made : pc'[r] = "idle"
    /\ made = Reqs => m_autoConnect' /\ (sock' = "lost" /\ sock = "open" => Len(m_queue) > 1)

MCSpec == MCInit /\ [][MCNext]_<<vars, made>> /\ Fairness
=============================================================================
