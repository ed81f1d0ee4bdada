--------------------------- MODULE MCTimerManager ---------------------------
(***************************************************************************)
(* TimerManager for TLC: one timer and two workers.                        *)
(***************************************************************************)
EXTENDS TimerManager

\* A clock that is set back meets timers of the shortest period that do not recur.  Users
\* and the clock are under no fairness, so none is cut off.
MCNext == Next /\ (backs' > 0 => \A t \in Timers : m_ms'[t] <= 1 /\ ~m_recurring'[t])

MCSpec == Init /\ [][MCNext]_vars /\ Fairness
=============================================================================
