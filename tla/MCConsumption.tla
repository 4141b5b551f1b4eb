--------------------------- MODULE MCConsumption ---------------------------
EXTENDS Consumption

\* The warm release has halted the consumer and not yet resumed it.
WarmHalted ==
    warm \in {"confirm", "inbox", "stop", "begin", "checkpoint", "idle", "release",
              "revert", "forget", "held", "finish"}

\* Once a halt succeeded nothing is applied: no pass runs between a warm
\* release's halt and its resume (so nothing is claimed behind its re-read of
\* the inbox), nor ever again after a drain's halt, however warm releases of
\* the same session come and go (workstates.go Resume, haltForDrain).
HaltHolds ==
    (drain.quiet \/ (WarmHalted /\ ~consumer.stopped)) => consumer.at # "pass"

\* A halt is never left behind: a halted consumer is resumed, or the drain has
\* latched the halt, or the session's work is stopped (warm.go release, every
\* abort path resumes).
HaltEnds ==
    consumer.halted ~> (~consumer.halted \/ Latched \/ consumer.stopped)

\* A session left alone is let go: samples on a cadence shorter than the
\* countdown do not put it off for ever, aborted attempts are tried again,
\* and the watch ends (warm.go Observe, "A REPEATED IDLE LEAVES A RUNNING
\* COUNTDOWN ALONE").
IdleIsReleased == <>(~watch.held \/ drain.at = "done")

\* A release that checkpoints while the other is not under way covers every
\* turn begun so far: a checkpoint taken by an earlier attempt that was taken
\* back or held never stands for later work (session.go forgetReleaseProgress).
WarmResting == warm \in {"watch", "taken", "done"}
CheckpointAfterAttempt ==
    [][/\ drain.at = "idle" => (drain'.at = "release" /\ mishaps' = mishaps
                                       /\ WarmResting /\ ~runtime.over
                                       => covered')
       /\ warm = "checkpoint" => (warm' = "idle" /\ mishaps' = mishaps /\ drain.at = "off"
                                       => covered')]_vars

============================================================================
