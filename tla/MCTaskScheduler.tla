-------------------------- MODULE MCTaskScheduler --------------------------
(* Instances of TaskScheduler for TLC. *)
EXTENDS TaskScheduler, TLC

\* /reset and /delete differ only in what becomes of the DLQ: the tools of a run
\* include one of the two.
WithReplay == {"pause", "resume", "cancel", "replay", "reset"}

\* Two processes: the tool that sets a held task active again, and one that takes its
\* row away.
TwoTools == {"resume", "delete"}
=============================================================================
