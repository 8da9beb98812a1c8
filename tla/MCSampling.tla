------------------------------ MODULE MCSampling ------------------------------
(* SamplingService with windows of 1, 2 and 2 seconds in place of 1, 10 and 60. *)
EXTENDS SamplingService

\* The histories of DetectionEngine that nothing here reads.
MCView == <<state, resume, lastCandidate, streak, clearStreak, cooldown, lastAnomalous, recent,
            samples, idle, paused, series, judgement, source, prints, due, ahead, last, scans, log>>

MCWindows == <<2, 4, 4>>

===============================================================================
