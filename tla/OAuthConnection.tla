---------------------------- MODULE OAuthConnection ----------------------------
(***************************************************************************)
(* One OAuth connection (integrations/oauth.py) under concurrent requests: *)
(* the callback that exchanges the code, refreshes under the lease of      *)
(* integrations/workers.py, and revocation. The backend runs several       *)
(* worker processes over one database; the leases are a dictionary of each *)
(* process. An action is the code from one await to the next.              *)
(***************************************************************************)
EXTENDS Naturals, FiniteSets

CONSTANTS Request,      \* API requests, each served once
          Process,      \* the worker processes of the backend
          ProcessOf,    \* the process that serves a request
          None,         \* no holder, no kind yet
          MaxExpiries,  \* bound: leases that expire while they are held
          MaxCrashes    \* bound: crashes of a process

ASSUME OAuthAssumption ==
    /\ ProcessOf \in [Request -> Process]
    /\ None \notin Request \cup {"callback", "refresh", "revoke"}
    /\ MaxExpiries \in Nat /\ MaxCrashes \in Nat

VARIABLES row,      \* the committed row of the connection; token 0 is none
          kind,     \* what a request was asked to do
          pc,       \* where it stands
          session,  \* the row as its session read it, and has changed it
          lease,    \* per process: who holds the refresh lease, is it live
          provider, \* the refresh token and the code the provider accepts
          lost,     \* history: a grant never reached the database
          expiries, crashes

vars == <<row, kind, pc, session, lease, provider, lost, expiries, crashes>>

Row == [status : {"PENDING", "ACTIVE", "REVOKED"},
        access : Nat, refresh : Nat]
\* A status no operation knows.
EmptyRowBug == [status |-> "CREATED", access |-> 0, refresh |-> 0]
EmptyRow == [status |-> "PENDING", access |-> 0, refresh |-> 0]
NoSession == [before |-> EmptyRow, after |-> EmptyRow]
NoLease  == [holder |-> None, live |-> FALSE]
Ended    == {"done", "joined", "refused", "failed"}

TypeOK ==
    /\ row \in Row
    /\ kind \in [Request -> {"callback", "refresh", "revoke", None}]
    /\ pc \in [Request -> {"idle", "loaded", "posting", "changed", "flushed",
                           "released"} \cup Ended]
    /\ session \in [Request -> [before : Row, after : Row]]
    /\ lease \in [Process -> [holder : Request \cup {None}, live : BOOLEAN]]
    /\ provider \in [refresh : Nat, issued : Nat, codeUsed : BOOLEAN]
    /\ lost \in BOOLEAN
    /\ expiries \in 0 .. MaxExpiries /\ crashes \in 0 .. MaxCrashes

\* start_oauth has created the row; it may be connected (token 1) already.
Init ==
    /\ \E token \in {0, 1} :
         /\ row = [status |-> IF token = 0 THEN "PENDING" ELSE "ACTIVE",
                   access |-> token, refresh |-> token]
         /\ provider = [refresh |-> token, issued |-> token, codeUsed |-> token = 1]
    /\ kind = [r \in Request |-> None]
    /\ pc = [r \in Request |-> "idle"]
    /\ session = [r \in Request |-> NoSession]
    /\ lease = [p \in Process |-> NoLease]
    /\ lost = FALSE
    /\ expiries = 0 /\ crashes = 0

-----------------------------------------------------------------------------
\* The whole row is written back.
MergeBug(old, before, after) == after

\* The session writes only the columns whose value differs from the loaded one.
Merge(old, before, after) ==
    [c \in DOMAIN old |-> IF after[c] # before[c] THEN after[c] ELSE old[c]]

\* Nothing keeps two transactions from overlapping in their writes.
RowUnlockedBug == FALSE

\* The row is locked from the provider's answer on.
RowLockedBug == \E r \in Request : pc[r] \in {"changed", "flushed", "released"}

\* An UPDATE keeps the row locked until its transaction ends.
RowLocked == \E r \in Request : pc[r] \in {"flushed", "released"}

Goto(r, l) == pc' = [pc EXCEPT ![r] = l] /\ session' = session
End(r, l)  == pc' = [pc EXCEPT ![r] = l] /\ session' = [session EXCEPT ![r] = NoSession]

\* The lease of another holder is not looked at.
LeaseFreeBug(p) == TRUE
LeaseFree(p) == lease[p].holder = None \/ ~lease[p].live

\* lease store of p after r has released: only the holder's entry is removed.
Released(p, r) == IF lease[p].holder = r THEN [lease EXCEPT ![p] = NoLease] ELSE lease

-----------------------------------------------------------------------------
\* The SELECT at the start of each operation, and its refusals.
Load(r, k) ==
    /\ pc[r] = "idle"
    /\ k = "callback" => row.status = "PENDING"
    /\ k = "refresh" => row.status # "REVOKED"
    /\ kind' = [kind EXCEPT ![r] = k]
    /\ session' = [session EXCEPT ![r] =
          [before |-> row,
           after |-> IF k = "revoke" THEN [EmptyRow EXCEPT !.status = "REVOKED"] ELSE row]]
    /\ pc' = [pc EXCEPT ![r] = CASE k = "callback" -> "posting" [] k = "refresh" -> "loaded"
                                  [] k = "revoke" -> "changed"]
    /\ UNCHANGED <<row, lease, provider, lost, expiries, crashes>>

\* acquire_lease succeeds; a session that loaded no refresh token gives up at once.
Acquire(r) ==
    LET p == ProcessOf[r] IN
    /\ pc[r] = "loaded" /\ LeaseFree(p)
    /\ \/ /\ session[r].before.refresh # 0
          /\ lease' = [lease EXCEPT ![p] = [holder |-> r, live |-> TRUE]]
          /\ Goto(r, "posting")
       \/ /\ session[r].before.refresh = 0
          /\ lease' = [lease EXCEPT ![p] = NoLease]
          /\ End(r, "failed")
    /\ UNCHANGED <<row, kind, provider, lost, expiries, crashes>>

\* Another refresh of this process holds the lease: answer with its row.
Join(r) ==
    /\ pc[r] = "loaded" /\ ~LeaseFree(ProcessOf[r])
    /\ End(r, "joined")
    /\ UNCHANGED <<row, kind, lease, provider, lost, expiries, crashes>>

\* The provider accepts a code once and its current refresh token only.
Accepts(r) ==
    IF kind[r] = "callback" THEN ~provider.codeUsed
    ELSE session[r].before.refresh = provider.refresh

\* What refresh_oauth stores of the answer: the new refresh token, if there is one.
StoredBug(r, refresh) == session[r].before.refresh
Stored(r, refresh) == refresh

\* The provider grants an access token and, if it rotates, a refresh token.
Grant(r, rotate) ==
    LET n == provider.issued + 1
        refresh == IF rotate THEN n ELSE session[r].before.refresh
    IN /\ pc[r] = "posting" /\ Accepts(r)
       /\ provider' = [refresh |-> refresh, issued |-> n, codeUsed |-> TRUE]
       /\ session' = [session EXCEPT ![r].after =
                          [status |-> "ACTIVE", access |-> n, refresh |-> Stored(r, refresh)]]
       /\ pc' = [pc EXCEPT ![r] = "changed"]
       /\ UNCHANGED <<row, kind, lease, lost, expiries, crashes>>

\* http >= 400: NEEDS_REAUTH is flushed, then the raised error rolls it back.
Refuse(r) ==
    /\ pc[r] = "posting" /\ ~Accepts(r) /\ ~RowLocked
    /\ lease' = Released(ProcessOf[r], r)
    /\ End(r, "refused")
    /\ UNCHANGED <<row, kind, provider, lost, expiries, crashes>>

\* The call or its answer is lost, or the answer is unusable: the request raises.
Raise(r) ==
    /\ pc[r] \in {"posting", "changed"} /\ kind[r] # "revoke"
    /\ lease' = Released(ProcessOf[r], r)
    /\ lost' = (lost \/ pc[r] = "changed")
    /\ End(r, "failed")
    /\ UNCHANGED <<row, kind, provider, expiries, crashes>>

Flush(r) ==
    /\ pc[r] = "changed" /\ ~RowLocked
    /\ Goto(r, "flushed")
    /\ UNCHANGED <<row, kind, lease, provider, lost, expiries, crashes>>

\* finally: the lease goes before the caller has committed.
Release(r) ==
    /\ pc[r] = "flushed" /\ kind[r] = "refresh"
    /\ lease' = Released(ProcessOf[r], r)
    /\ Goto(r, "released")
    /\ UNCHANGED <<row, kind, provider, lost, expiries, crashes>>

Commit(r) ==
    /\ pc[r] = IF kind[r] = "refresh" THEN "released" ELSE "flushed"
    /\ row' = Merge(row, session[r].before, session[r].after)
    /\ End(r, "done")
    /\ UNCHANGED <<kind, lease, provider, lost, expiries, crashes>>

LeaseExpires(p) ==
    /\ lease[p].live /\ expiries < MaxExpiries
    /\ lease' = [lease EXCEPT ![p].live = FALSE]
    /\ expiries' = expiries + 1
    /\ UNCHANGED <<row, kind, pc, session, provider, lost, crashes>>

\* The process restarts: its sessions roll back, its leases are forgotten.
Crash(p) ==
    LET victims == {r \in Request : ProcessOf[r] = p /\ pc[r] \notin {"idle"} \cup Ended}
    IN /\ crashes < MaxCrashes /\ victims # {}
       /\ pc' = [r \in Request |-> IF r \in victims THEN "failed" ELSE pc[r]]
       /\ session' = [r \in Request |-> IF r \in victims THEN NoSession ELSE session[r]]
       /\ lease' = [lease EXCEPT ![p] = NoLease]
       /\ lost' = (lost \/ \E r \in victims : pc[r] \in {"changed", "flushed", "released"}
                                              /\ kind[r] # "revoke")
       /\ crashes' = crashes + 1
       /\ UNCHANGED <<row, kind, provider, expiries>>

Advance(r) ==
    \/ Acquire(r) \/ Join(r) \/ Refuse(r) \/ Flush(r) \/ Release(r) \/ Commit(r)
    \/ \E rotate \in BOOLEAN : Grant(r, rotate)

Next ==
    \/ \E r \in Request :
         \/ \E k \in {"callback", "refresh", "revoke"} : Load(r, k)
         \/ Advance(r) \/ Raise(r)
    \/ \E p \in Process : LeaseExpires(p) \/ Crash(p)

Spec == Init /\ [][Next]_vars

\* A request that was started goes on: the outbound client has a time limit.
FairSpec == Spec /\ \A r \in Request : WF_vars(Advance(r))

-----------------------------------------------------------------------------
AtProvider(r) == kind[r] = "refresh" /\ pc[r] \in {"posting", "changed", "flushed"}

\* In one process two refreshes are at work together only if a lease expired
\* while its holder was still waiting for the provider (workers.acquire_lease).
LeaseExcludes ==
    \A p \in Process :
        Cardinality({r \in Request : ProcessOf[r] = p /\ AtProvider(r)}) <= 1 + expiries

\* r has exchanged the refresh token for a new one and has not committed it.
Carries(r) ==
    /\ pc[r] \in {"changed", "flushed", "released"} /\ kind[r] # "revoke"
    /\ session[r].after.refresh # session[r].before.refresh

Revoked == \E r \in Request : kind[r] = "revoke" /\ pc[r] = "done"

\* The refresh token the provider accepts is never stranded: it is in the row or
\* in the hands of a request that will still commit it. Only a lost answer, a
\* crash or a revocation may lose it, however refreshes of several processes
\* overlap.
TokenNeverStranded ==
    \/ lost \/ Revoked \/ row.refresh = provider.refresh
    \/ \E r \in Request : Carries(r) /\ session[r].after.refresh = provider.refresh

\* The rotating token passes from the row to one request and back, never to two
\* at once: OAuthConnection implements TokenCustody.
Void == lost \/ Revoked
CustodyToken  == IF Void THEN 0 ELSE provider.refresh
CustodyKeeper == IF Void THEN "void"
                 ELSE IF \E r \in Request : Carries(r) THEN CHOOSE r \in Request : Carries(r)
                 ELSE "row"
Custody == INSTANCE TokenCustody WITH
    Keeper <- Request, token <- CustodyToken, keeper <- CustodyKeeper

ImplementsCustody == Custody!Spec

\* A refresh that overlaps a revocation never makes the connection ACTIVE again:
\* its session does not write the status it has not changed. (The callback does.)
RefreshNeverUnrevokes ==
    [][\A r \in Request : Commit(r) /\ kind[r] = "refresh" /\ row.status = "REVOKED"
                          => row'.status = "REVOKED"]_vars

\* In one process, with no expired lease, an older access token never replaces a
\* newer one, although the lease is released before the commit.
NewestAccessKept ==
    [][ \/ expiries > 0
        \/ Cardinality({ProcessOf[r] : r \in {q \in Request : kind[q] = "refresh"}}) > 1
        \/ row'.access = 0
        \/ row'.access >= row.access ]_vars

\* Every request that was started ends: no cycle of lease and row lock.
RequestsEnd == \A r \in Request : pc[r] # "idle" ~> pc[r] \in Ended

\* "Concurrent refreshes collapse onto the winner": none is refused for having
\* presented the token that another one had just exchanged.
RefreshesCollapse ==
    ~lost => \A r \in Request : kind[r] = "refresh" => pc[r] # "refused"

=============================================================================
