------------------------------- MODULE Leases -------------------------------
(***************************************************************************)
(* Artifact leases: artifactLeases.ts, statement by statement under READ   *)
(* COMMITTED.  A lease keeps its row when it expires, and the unique index *)
(* on the artifact does not look at the time; so a claim first deletes the *)
(* expired lease, and the row it is about to insert may still meet one.    *)
(* now() is the time of BEGIN: what a claim takes for expired is what had  *)
(* expired by then.  renewArtifact reads another clock, that of the server *)
(* process, which may lag.                                                 *)
(***************************************************************************)
EXTENDS Naturals, FiniteSets

CONSTANTS
    Agents,
    Artifacts,
    Calls,       \* claims that may be under way at a time, ...
    Agent,       \* ... and who makes them, [Calls -> Agents]
    MaxActive,   \* MAX_ACTIVE_LEASES_PER_AGENT
    MaxRetries,  \* MAX_INTERNAL_RACE_RETRIES
    MaxLeases,   \* bound on the leases inserted
    None

Ids == 1..MaxLeases

ASSUME LeasesAssumption ==
    /\ MaxActive \in Nat \ {0} /\ MaxRetries \in Nat /\ MaxLeases \in Nat
    /\ Agent \in [Calls -> Agents]
    /\ IsFiniteSet(Calls) /\ IsFiniteSet(Artifacts)
    /\ None \notin Ids \cup Artifacts

VARIABLES
    lease,    \* the committed artifact_leases rows: the lease on each artifact
    owner,    \* agent_id of each lease
    expired,  \* leases whose expires_at has passed
    revived,  \* leases that were renewed after that (history)
    used,     \* lease ids drawn so far
    txn       \* each claim: what it does next, its artifact, the leases it takes
              \* for expired, its own uncommitted row and deletion, its retries

vars == <<lease, owner, expired, revived, used, txn>>

Idle == [pc |-> "idle", art |-> None, dead |-> {}, new |-> None, cleared |-> FALSE, tries |-> 0]

TypeOK ==
    /\ lease \in [Artifacts -> Ids \cup {None}]
    /\ owner \in [Ids -> Agents \cup {None}]
    /\ expired \subseteq Ids /\ revived \subseteq Ids
    /\ used \in 0..MaxLeases
    /\ txn \in [Calls -> [pc : {"idle", "begin", "count", "look", "insert", "commit", "reread"},
                          art : Artifacts \cup {None}, dead : SUBSET Ids,
                          new : Ids \cup {None}, cleared : BOOLEAN, tries : 0..MaxRetries]]

Init ==
    /\ lease = [a \in Artifacts |-> None]
    /\ owner = [i \in Ids |-> None]
    /\ expired = {}
    /\ revived = {}
    /\ used = 0
    /\ txn = [c \in Calls |-> Idle]

-----------------------------------------------------------------------------
(* What the statements of a claim see of the table. *)

\* The row of an artifact as call c sees it, its own changes included.
Row(c, a) == IF txn[c].art = a /\ txn[c].cleared THEN None ELSE lease[a]
\* Another claim has changed the row of the artifact, and not committed yet.
Busy(c, a) ==
    \E d \in Calls \ {c} : txn[d].art = a /\ (txn[d].cleared \/ txn[d].new # None)
Counted(c) ==
    {a \in Artifacts :
        Row(c, a) # None /\ owner[Row(c, a)] = Agent[c] /\ Row(c, a) \notin txn[c].dead}
Active(g) == {a \in Artifacts : lease[a] # None /\ owner[lease[a]] = g
                                /\ lease[a] \notin expired}

Goes(c, pc) == txn' = [txn EXCEPT ![c].pc = pc]
Reply(c) == txn' = [txn EXCEPT ![c] = Idle]
Reads == UNCHANGED <<lease, owner, expired, revived, used>>

-----------------------------------------------------------------------------
(* claimArtifact. *)

Begin(c, a) ==
    /\ txn[c].pc = "idle"
    /\ used + Cardinality({d \in Calls : txn[d].pc # "idle"}) < MaxLeases
    /\ txn' = [txn EXCEPT ![c] = [Idle EXCEPT !.pc = "begin", !.art = a, !.dead = expired]]
    /\ Reads

\* Faulty variant: deletes the row of the artifact, expired or not.
DeleteLease(c) ==
    LET a == txn[c].art
    IN  /\ txn[c].pc = "begin"
        /\ ~Busy(c, a)
        /\ txn' = [txn EXCEPT ![c].pc = "count", ![c].cleared = lease[a] # None]
        /\ Reads
\* Step 1, DELETE ... expires_at <= now().  It waits for a claim that has
\* changed the row, and then looks at it again.
DeleteExpired(c) ==
    LET a == txn[c].art
    IN  /\ txn[c].pc = "begin"
        /\ lease[a] \in txn[c].dead => ~Busy(c, a)
        /\ txn' = [txn EXCEPT ![c].pc = "count", ![c].cleared = lease[a] \in txn[c].dead]
        /\ Reads

\* Faulty variant: off by one.
CountLoosely(c) ==
    /\ txn[c].pc = "count"
    /\ IF Cardinality(Counted(c)) > MaxActive THEN Reply(c) ELSE Goes(c, "look")
    /\ Reads
\* Step 2, COUNT(*): it locks nothing.
Count(c) ==
    /\ txn[c].pc = "count"
    /\ IF Cardinality(Counted(c)) >= MaxActive THEN Reply(c) ELSE Goes(c, "look")
    /\ Reads

\* Step 3: a lease that had not expired at BEGIN is a conflict.
Look(c) ==
    LET row == Row(c, txn[c].art)
    IN  /\ txn[c].pc = "look"
        /\ IF row # None /\ row \notin txn[c].dead THEN Reply(c) ELSE Goes(c, "insert")
        /\ Reads

\* Step 4.  The INSERT waits for another one of the artifact to commit or roll
\* back; on a unique violation the claim is rolled back.
Insert(c) ==
    LET a == txn[c].art
    IN  /\ txn[c].pc = "insert"
        /\ ~Busy(c, a)
        /\ IF Row(c, a) = None
           THEN /\ used' = used + 1
                /\ owner' = [owner EXCEPT ![used + 1] = Agent[c]]
                /\ txn' = [txn EXCEPT ![c].pc = "commit", ![c].new = used + 1]
           ELSE /\ txn' = [txn EXCEPT ![c].pc = "reread", ![c].cleared = FALSE]
                /\ UNCHANGED <<owner, used>>
        /\ UNCHANGED <<lease, expired, revived>>

Commit(c) ==
    /\ txn[c].pc = "commit"
    /\ lease' = [lease EXCEPT ![txn[c].art] = txn[c].new]
    /\ Reply(c)
    /\ UNCHANGED <<owner, expired, revived, used>>

\* fetchConflictResultOrRetry, by the clock of now: the winner's lease, or a new
\* try if it has gone, or race_exhausted.
Reread(c) ==
    LET a == txn[c].art
    IN  /\ txn[c].pc = "reread"
        /\ IF (lease[a] # None /\ lease[a] \notin expired) \/ txn[c].tries = MaxRetries
           THEN Reply(c)
           ELSE txn' = [txn EXCEPT ![c] =
                    [Idle EXCEPT !.pc = "begin", !.art = a, !.dead = expired,
                                 !.tries = txn[c].tries + 1]]
        /\ Reads

-----------------------------------------------------------------------------
(* The other operations, each on one lease.  They wait for a claim that    *)
(* has deleted the row, and find it gone if that claim commits.            *)

Unlocked(a) == \A c \in Calls : ~(txn[c].art = a /\ txn[c].cleared)

\* renewArtifact.  Renewed in time, a lease stays as it is here; renewed by a
\* clock that lags it is alive again, for the claims under way as well, which
\* compare the new expires_at.
Renew(a) ==
    /\ lease[a] \in expired
    /\ Unlocked(a)
    /\ expired' = expired \ {lease[a]}
    /\ revived' = revived \cup {lease[a]}
    /\ txn' = [c \in Calls |-> [txn[c] EXCEPT !.dead = @ \ {lease[a]}]]
    /\ UNCHANGED <<lease, owner, used>>

\* Time passes the end of a lease.
Expire(a) ==
    /\ lease[a] # None
    /\ lease[a] \notin expired
    /\ expired' = expired \cup {lease[a]}
    /\ UNCHANGED <<lease, owner, revived, used, txn>>

\* releaseArtifact and forceReleaseArtifact: DELETE by lease_id, which no other
\* lease ever has.
Release(a) ==
    /\ lease[a] # None
    /\ Unlocked(a)
    /\ lease' = [lease EXCEPT ![a] = None]
    /\ UNCHANGED <<owner, expired, revived, used, txn>>

\* sweepExpiredLeases.
Sweep ==
    /\ \E a \in Artifacts : lease[a] \in expired
    /\ \A a \in Artifacts : lease[a] \in expired => Unlocked(a)
    /\ lease' = [a \in Artifacts |-> IF lease[a] \in expired THEN None ELSE lease[a]]
    /\ UNCHANGED <<owner, expired, revived, used, txn>>

\* The server goes on with a claim it has begun.
Advance(c) ==
    DeleteExpired(c) \/ Count(c) \/ Look(c) \/ Insert(c) \/ Commit(c) \/ Reread(c)

Next ==
    \/ \E c \in Calls, a \in Artifacts : Begin(c, a)
    \/ \E c \in Calls : Advance(c)
    \/ \E a \in Artifacts : Renew(a) \/ Expire(a) \/ Release(a)
    \/ Sweep

Spec == Init /\ [][Next]_vars

-----------------------------------------------------------------------------
(* Properties. *)

\* The limit on the active leases of an agent, as far as it goes: the COUNT and
\* the INSERT of a claim are not one step, so every other claim the agent has
\* under way may add one; and a lease that was renewed when it had expired comes
\* on top.
LimitPerAgent ==
    \A g \in Agents :
        Cardinality({a \in Active(g) : lease[a] \notin revived})
            < MaxActive + Cardinality({c \in Calls : Agent[c] = g})

\* A lease that has not expired, or was renewed, is never replaced by another
\* claim, however old the time by which that claim found it expired.
NoLeaseIsStolen ==
    [][\A a \in Artifacts :
          lease[a] # None /\ lease'[a] \notin {lease[a], None} => lease[a] \in expired]_vars
=============================================================================
