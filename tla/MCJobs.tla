------------------------------- MODULE MCJobs -------------------------------
EXTENDS Jobs, TLC

CONSTANTS j1, j2, d1, poll, told, other, w1, w2

\* Two extractions of one document, as the route asks for them (one attempt) and
\* as enqueue_job may (two); a worker with its two loops, and the consumer of
\* another worker.
MCDoc == [j \in Jobs |-> d1]
MCMaxAttempts == (j1 :> 2) @@ (j2 :> 1)
MCProcess == (poll :> w1) @@ (told :> w1) @@ (other :> w2)
=============================================================================
