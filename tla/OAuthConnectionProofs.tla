------------------------ MODULE OAuthConnectionProofs ------------------------
(***************************************************************************)
(* Safety of OAuthConnection, and that it implements TokenCustody, for any *)
(* number of requests, processes, expired leases and crashes.              *)
(*                                                                         *)
(* Argument. A request carries a token from the provider's answer to its   *)
(* commit. The provider accepts a refresh token only if it is the current  *)
(* one, and while somebody carries the current one no session has read it, *)
(* so nobody else can exchange it: there is one carrier at a time, leases  *)
(* or not. A merge writes the refresh token only for the carrier, hence    *)
(* the row gets the current token back.                                    *)
(*   The refreshes at the provider are the lease holder and those whose    *)
(* lease expired. If none did, in one process, a grant finds the others    *)
(* past their lease, hence flushed: the row lock makes them commit first.  *)
(***************************************************************************)
EXTENDS OAuthConnection, FiniteSetTheorems, TLAPS

\* What makes these inductive: every token is one the provider has issued; a carried
\* token is the provider's and nobody else has read it; a session that may write the
\* status of a connected row has read a connected row.
TokensIssued ==
    /\ provider.refresh <= provider.issued /\ row.refresh <= provider.issued
    /\ \A r \in Request : /\ session[r].before.refresh <= provider.issued
                          /\ session[r].after.refresh <= provider.issued
    /\ ~provider.codeUsed => provider.issued = 0
CarriedIsNew ==
    \A r \in Request : Carries(r) =>
        /\ session[r].after.refresh = provider.refresh /\ provider.refresh # 0
        /\ row.refresh # provider.refresh
        /\ \A q \in Request : /\ session[q].before.refresh # provider.refresh
                              /\ Carries(q) => q = r
StatusOf(r) ==
    /\ pc[r] = "posting" => kind[r] # "revoke"
    /\ kind[r] = "revoke" => session[r].after.refresh = 0
    /\ session[r].before.status # "PENDING" => row.status # "PENDING"
    /\ session[r].before.status = "PENDING" => session[r].before.refresh = 0
    /\ pc[r] = "loaded" => kind[r] = "refresh" /\ session[r].before.status # "REVOKED"
    /\ pc[r] \in {"changed", "flushed", "released"} => session[r].after.status # "PENDING"
    /\ kind[r] = "callback" /\ pc[r] \in {"posting", "changed", "flushed", "released"}
         => session[r].before.status = "PENDING"
    /\ kind[r] = "refresh" /\ pc[r] \in {"posting", "changed", "flushed", "released"}
         => session[r].before.status = "ACTIVE"
    /\ kind[r] = "refresh" /\ pc[r] \in {"changed", "flushed", "released"}
         => session[r].after.status = "ACTIVE"
StatusRead ==
    /\ row.status = "PENDING" => row.refresh = 0
    /\ \A r \in Request : StatusOf(r)
Inv == TypeOK /\ TokensIssued /\ CarriedIsNew /\ StatusRead /\ TokenNeverStranded
-----------------------------------------------------------------------------
(* Rows *)

\* Merging two rows of a session into a third gives a row.
LEMMA MergeIsRow ==
  ASSUME NEW old \in Row, NEW before \in Row, NEW after \in Row
  PROVE  /\ Merge(old, before, after) \in Row
         /\ Merge(old, before, after).status =
              IF after.status # before.status THEN after.status ELSE old.status
         /\ Merge(old, before, after).access =
              IF after.access # before.access THEN after.access ELSE old.access
         /\ Merge(old, before, after).refresh =
              IF after.refresh # before.refresh THEN after.refresh ELSE old.refresh
  <1>1. old = [status |-> old.status, access |-> old.access, refresh |-> old.refresh]
    BY DEF Row
  <1>2. DOMAIN old = {"status", "access", "refresh"}
    BY <1>1
  <1> DEFINE Pick3(c) == IF after[c] # before[c] THEN after[c] ELSE old[c]
  <1>3. Merge(old, before, after) = [c \in {"status", "access", "refresh"} |-> Pick3(c)]
    BY <1>2 DEF Merge
  <1>4. Merge(old, before, after) = [status |-> Pick3("status"), access |-> Pick3("access"),
                                     refresh |-> Pick3("refresh")]
    BY <1>3
  <1>5. /\ Pick3("status") \in {"PENDING", "ACTIVE", "REVOKED"}
        /\ Pick3("access") \in Nat /\ Pick3("refresh") \in Nat
    BY DEF Row
  <1>6. [status |-> Pick3("status"), access |-> Pick3("access"), refresh |-> Pick3("refresh")]
          \in Row
    BY <1>5 DEF Row
  <1> QED BY <1>4, <1>6

\* The constant records have the types of the variables.
LEMMA ConstantRows ==
  /\ EmptyRow \in Row /\ NoSession \in [before : Row, after : Row]
  /\ EmptyRow.status = "PENDING" /\ EmptyRow.refresh = 0 /\ EmptyRow.access = 0
  /\ NoSession.before = EmptyRow /\ NoSession.after = EmptyRow
  /\ NoLease \in [holder : Request \cup {None}, live : BOOLEAN]
  BY DEF EmptyRow, NoSession, NoLease, Row

-----------------------------------------------------------------------------
(* Types *)

LEMMA TypeInit == Init => TypeOK
<1> SUFFICES ASSUME Init PROVE TypeOK
  OBVIOUS
<1>1. PICK token \in {0, 1} :
        /\ row = [status |-> IF token = 0 THEN "PENDING" ELSE "ACTIVE",
                  access |-> token, refresh |-> token]
        /\ provider = [refresh |-> token, issued |-> token, codeUsed |-> token = 1]
  BY DEF Init
<1>2. row \in Row
  BY <1>1 DEF Row
<1>3. provider \in [refresh : Nat, issued : Nat, codeUsed : BOOLEAN]
  <2> DEFINE spent == token = 1
  <2>1. spent \in BOOLEAN
    BY Zenon DEF spent
  <2>3. token \in Nat
    OBVIOUS
  <2>2. provider = [refresh |-> token, issued |-> token, codeUsed |-> spent]
    BY <1>1
  <2> HIDE DEF spent
  <2> QED BY <2>1, <2>2, <2>3, Zenon
<1>4. lease \in [Process -> [holder : Request \cup {None}, live : BOOLEAN]]
  BY ConstantRows, Zenon DEF Init
<1>5. session \in [Request -> [before : Row, after : Row]]
  BY ConstantRows, Zenon DEF Init
<1>6. kind \in [Request -> {"callback", "refresh", "revoke", None}]
  BY DEF Init
<1>7. pc \in [Request -> {"idle", "loaded", "posting", "changed", "flushed", "released"}
                          \cup Ended]
  BY DEF Init
<1>8. lost \in BOOLEAN
  BY DEF Init
<1>9. expiries \in 0 .. MaxExpiries /\ crashes \in 0 .. MaxCrashes
  BY OAuthAssumption DEF Init
<1> QED BY <1>2, <1>3, <1>4, <1>5, <1>6, <1>7, <1>8, <1>9, Zenon DEF TypeOK

\* One step per action: what each writes is of its type.
LEMMA TypeStep == TypeOK /\ [Next]_vars => TypeOK'
<1> SUFFICES ASSUME TypeOK, [Next]_vars PROVE TypeOK'
  OBVIOUS
<1> USE ConstantRows, OAuthAssumption
<1>1. ASSUME NEW r \in Request, NEW k \in {"callback", "refresh", "revoke"}, Load(r, k)
      PROVE  TypeOK'
  <2>1. [EmptyRow EXCEPT !.status = "REVOKED"] \in Row
    BY DEF Row
  <2> QED BY <1>1, <2>1 DEF TypeOK, Load, Ended
<1>2. ASSUME NEW r \in Request, Acquire(r) PROVE TypeOK'
  <2>1. [holder |-> r, live |-> TRUE] \in [holder : Request \cup {None}, live : BOOLEAN]
    BY Zenon
  <2>2. PICK l \in [holder : Request \cup {None}, live : BOOLEAN] :
          lease' = [lease EXCEPT ![ProcessOf[r]] = l]
    BY <1>2, <2>1, Zenon DEF Acquire
  <2> HIDE ConstantRows
  <2>4. lease' \in [Process -> [holder : Request \cup {None}, live : BOOLEAN]]
    BY <2>2, Zenon DEF TypeOK
  <2> USE ConstantRows
  <2>3. /\ UNCHANGED <<row, kind, provider, lost, expiries, crashes>>
        /\ \/ pc' = [pc EXCEPT ![r] = "posting"] /\ session' = session
           \/ pc' = [pc EXCEPT ![r] = "failed"] /\ session' = [session EXCEPT ![r] = NoSession]
    BY <1>2, Zenon DEF Acquire, Goto, End
  <2>5. session' \in [Request -> [before : Row, after : Row]]
    BY <2>3, Zenon DEF TypeOK
  <2>6. pc' \in [Request -> {"idle", "loaded", "posting", "changed", "flushed", "released"}
                             \cup Ended]
    BY <2>3 DEF TypeOK, Ended
  <2> QED BY <2>3, <2>4, <2>5, <2>6, Zenon DEF TypeOK
<1>3. ASSUME NEW r \in Request, Join(r) PROVE TypeOK'
  BY <1>3 DEF TypeOK, Join, End, Ended
<1>4. ASSUME NEW r \in Request, NEW rotate \in BOOLEAN, Grant(r, rotate) PROVE TypeOK'
  <2> DEFINE n == provider.issued + 1
             refresh == IF rotate THEN n ELSE session[r].before.refresh
  <2>1. n \in Nat /\ refresh \in Nat
    BY DEF TypeOK, Row
  <2>2. [refresh |-> refresh, issued |-> n, codeUsed |-> TRUE]
          \in [refresh : Nat, issued : Nat, codeUsed : BOOLEAN]
    BY <2>1
  <2>3. [status |-> "ACTIVE", access |-> n, refresh |-> refresh] \in Row
    BY <2>1 DEF Row
  <2> HIDE DEF n, refresh
  <2> QED BY <1>4, <2>2, <2>3 DEF TypeOK, Grant, Stored, Ended, n, refresh
<1>5. ASSUME NEW r \in Request, Refuse(r) PROVE TypeOK'
  BY <1>5 DEF TypeOK, Refuse, Released, End, Ended
<1>6. ASSUME NEW r \in Request, Raise(r) PROVE TypeOK'
  BY <1>6 DEF TypeOK, Raise, Released, End, Ended
<1>7. ASSUME NEW r \in Request, Flush(r) PROVE TypeOK'
  BY <1>7 DEF TypeOK, Flush, Goto, Ended
<1>8. ASSUME NEW r \in Request, Release(r) PROVE TypeOK'
  BY <1>8 DEF TypeOK, Release, Released, Goto, Ended
<1>9. ASSUME NEW r \in Request, Commit(r) PROVE TypeOK'
  BY <1>9, MergeIsRow DEF TypeOK, Commit, End, Ended
<1>10. ASSUME NEW p \in Process, LeaseExpires(p) PROVE TypeOK'
  <2>1. [lease[p] EXCEPT !.live = FALSE] \in [holder : Request \cup {None}, live : BOOLEAN]
    BY DEF TypeOK
  <2>2. lease' = [lease EXCEPT ![p] = [lease[p] EXCEPT !.live = FALSE]]
    BY <1>10 DEF LeaseExpires
  <2>3. lease' \in [Process -> [holder : Request \cup {None}, live : BOOLEAN]]
    BY <2>1, <2>2 DEF TypeOK
  <2>4. expiries' \in 0 .. MaxExpiries
    BY <1>10 DEF TypeOK, LeaseExpires
  <2> QED BY <1>10, <2>3, <2>4 DEF TypeOK, LeaseExpires
<1>11. ASSUME NEW p \in Process, Crash(p) PROVE TypeOK'
  BY <1>11 DEF TypeOK, Crash, Ended
<1>12. CASE UNCHANGED vars
  BY <1>12 DEF TypeOK, vars
<1> QED
  BY <1>1, <1>2, <1>3, <1>4, <1>5, <1>6, <1>7, <1>8, <1>9, <1>10, <1>11, <1>12 DEF Next, Advance

\* Every state of every behaviour has the types declared for it.
THEOREM TypeCorrect == Spec => []TypeOK
  BY TypeInit, TypeStep, PTL DEF Spec

-----------------------------------------------------------------------------
(* The rotating token *)

\* What a step that touches neither the row nor the provider does to a request: nothing,
\* its next stage, or its end, which may lose the token it carried.
Stays(q) ==
    \/ pc'[q] = pc[q] /\ session'[q] = session[q]
    \/ /\ session'[q] = session[q]
       /\ \/ pc[q] = "loaded" /\ pc'[q] = "posting" /\ session[q].before.refresh # 0
          \/ pc[q] = "changed" /\ pc'[q] = "flushed"
          \/ pc[q] = "flushed" /\ pc'[q] = "released"
    \/ /\ session'[q] = NoSession /\ pc'[q] \in {"joined", "refused", "failed"}
       /\ pc[q] \notin {"idle", "done"}
       /\ Carries(q) => lost'
Quiet ==
    /\ row' = row /\ provider' = provider /\ kind' = kind /\ (lost => lost')
    /\ \A q \in Request : Stays(q)

\* Every action but Load, Grant and Commit is quiet.
LEMMA QuietActions ==
  ASSUME TypeOK,
         \/ \E r \in Request : Acquire(r) \/ Join(r) \/ Refuse(r) \/ Raise(r) \/ Flush(r) \/ Release(r)
         \/ \E p \in Process : LeaseExpires(p) \/ Crash(p)
         \/ UNCHANGED vars
  PROVE  Quiet
<1>1. ASSUME NEW r \in Request, Acquire(r) PROVE Quiet
  BY <1>1 DEF Acquire, Goto, End, Quiet, Stays, TypeOK, Carries
<1>2. ASSUME NEW r \in Request, Join(r) PROVE Quiet
  BY <1>2 DEF Join, End, Quiet, Stays, TypeOK, Carries
<1>3. ASSUME NEW r \in Request, Refuse(r) PROVE Quiet
  BY <1>3 DEF Refuse, End, Quiet, Stays, TypeOK, Carries
<1>4. ASSUME NEW r \in Request, Raise(r) PROVE Quiet
  BY <1>4 DEF Raise, End, Quiet, Stays, TypeOK, Carries
<1>5. ASSUME NEW r \in Request, Flush(r) PROVE Quiet
  BY <1>5 DEF Flush, Goto, Quiet, Stays, TypeOK
<1>6. ASSUME NEW r \in Request, Release(r) PROVE Quiet
  BY <1>6 DEF Release, Goto, Quiet, Stays, TypeOK
<1>7. ASSUME NEW p \in Process, LeaseExpires(p) PROVE Quiet
  BY <1>7 DEF LeaseExpires, Quiet, Stays
<1>8. ASSUME NEW p \in Process, Crash(p) PROVE Quiet
  BY <1>8 DEF Crash, Quiet, Stays, Carries, Ended
<1>9. CASE UNCHANGED vars
  BY <1>9 DEF vars, Quiet, Stays
<1> QED BY <1>1, <1>2, <1>3, <1>4, <1>5, <1>6, <1>7, <1>8, <1>9

\* The steps of Next, by what they do to the token.
LEMMA StepKinds ==
  ASSUME TypeOK, [Next]_vars
  PROVE  \/ Quiet
         \/ \E r \in Request, k \in {"callback", "refresh", "revoke"} : Load(r, k)
         \/ \E r \in Request, rotate \in BOOLEAN : Grant(r, rotate)
         \/ \E r \in Request : Commit(r)
  BY QuietActions DEF Next, Advance

\* The invariant holds at the start: nothing is in flight.
LEMMA InvInit == Init => Inv
<1> SUFFICES ASSUME Init PROVE Inv
  OBVIOUS
<1>1. TypeOK
  BY TypeInit
<1>2. /\ provider.refresh = provider.issued /\ row.refresh = provider.refresh
      /\ ~provider.codeUsed => provider.issued = 0
      /\ row.status = "PENDING" => row.refresh = 0
  <2>1. PICK token \in {0, 1} :
          /\ row = [status |-> IF token = 0 THEN "PENDING" ELSE "ACTIVE",
                    access |-> token, refresh |-> token]
          /\ provider = [refresh |-> token, issued |-> token, codeUsed |-> token = 1]
    BY Zenon DEF Init
  <2>2. provider.codeUsed = (token = 1)
    BY <2>1
  <2>3. /\ provider.refresh = token /\ provider.issued = token /\ row.refresh = token
        /\ row.status = "PENDING" => token = 0
    BY <2>1
  <2>4. token = 0 \/ token = 1
    OBVIOUS
  <2>5. ~provider.codeUsed => token = 0
    BY <2>2, <2>4, Zenon
  <2> QED BY <2>3, <2>5, Zenon
<1>3. \A r \in Request : pc[r] = "idle" /\ session[r].before = EmptyRow /\ session[r].after = EmptyRow
  BY ConstantRows DEF Init
<1>4. TokensIssued
  BY <1>1, <1>2, <1>3, ConstantRows DEF TokensIssued, TypeOK, Row
<1>5. CarriedIsNew
  BY <1>3 DEF CarriedIsNew, Carries
<1>6. StatusRead
  BY <1>2, <1>3, ConstantRows DEF StatusRead, StatusOf
<1>7. TokenNeverStranded
  BY <1>2 DEF TokenNeverStranded
<1> QED BY <1>1, <1>4, <1>5, <1>6, <1>7 DEF Inv

\* The cases of Stays, as they are used below.
LEMMA StaysFacts ==
  ASSUME NEW q \in Request, Stays(q), kind' = kind
  PROVE  /\ Carries(q)' => Carries(q) /\ session'[q] = session[q]
         /\ Carries(q) /\ ~lost' => Carries(q)' /\ session'[q] = session[q]
         /\ session'[q] = session[q] \/ session'[q] = NoSession
         /\ pc[q] = "done" => pc'[q] = "done"
<1>1. CASE pc'[q] = pc[q] /\ session'[q] = session[q]
  BY <1>1 DEF Carries
<1>2. CASE /\ session'[q] = session[q]
           /\ \/ pc[q] = "loaded" /\ pc'[q] = "posting" /\ session[q].before.refresh # 0
              \/ pc[q] = "changed" /\ pc'[q] = "flushed"
              \/ pc[q] = "flushed" /\ pc'[q] = "released"
  BY <1>2 DEF Carries
<1>3. CASE /\ session'[q] = NoSession /\ pc'[q] \in {"joined", "refused", "failed"}
           /\ pc[q] \notin {"idle", "done"}
           /\ Carries(q) => lost'
  <2>1. ~Carries(q)'
    BY <1>3 DEF Carries
  <2> QED BY <1>3, <2>1
<1> QED BY <1>1, <1>2, <1>3 DEF Stays

\* A quiet step hands a token to nobody, and drops one only with lost set.
LEMMA QuietInv == ASSUME Inv, TypeOK', Quiet PROVE Inv'
<1>1. /\ row' = row /\ provider' = provider /\ kind' = kind /\ (lost => lost')
      /\ \A q \in Request : Stays(q)
  BY Zenon DEF Quiet
<1>2. \A q \in Request :
        /\ Carries(q)' => Carries(q) /\ session'[q] = session[q]
        /\ Carries(q) /\ ~lost' => Carries(q)' /\ session'[q] = session[q]
        /\ session'[q] = session[q] \/ session'[q] = NoSession
        /\ pc[q] = "done" => pc'[q] = "done"
  BY <1>1, StaysFacts
<1>3. TokensIssued'
  BY <1>1, <1>2, ConstantRows DEF Inv, TokensIssued, TypeOK, Row
<1>4. CarriedIsNew'
  <2>1. \A q \in Request : session'[q].before.refresh \in {session[q].before.refresh, 0}
    BY <1>2, ConstantRows
  <2> QED BY <1>1, <1>2, <2>1 DEF Inv, CarriedIsNew
<1>5. StatusRead'
  <2>0. row'.status = "PENDING" => row'.refresh = 0
    BY <1>1 DEF Inv, StatusRead
  <2> SUFFICES ASSUME NEW r \in Request
               PROVE  StatusOf(r)'
    BY <2>0, Zenon DEF StatusRead
  <2>1. StatusRead /\ Stays(r)
    BY <1>1, Zenon DEF Inv
  <2>2. CASE session'[r] = NoSession /\ pc'[r] \in {"joined", "refused", "failed"}
    BY <1>1, <2>1, <2>2, ConstantRows DEF StatusRead, StatusOf
  <2>3. CASE /\ session'[r] = session[r]
             /\ \/ pc'[r] = pc[r]
                \/ pc[r] = "loaded" /\ pc'[r] = "posting" /\ session[r].before.refresh # 0
                \/ pc[r] = "changed" /\ pc'[r] = "flushed"
                \/ pc[r] = "flushed" /\ pc'[r] = "released"
    <3>1. session[r].before.status \in {"PENDING", "ACTIVE", "REVOKED"}
      BY DEF Inv, TypeOK, Row
    <3> QED BY <1>1, <2>1, <2>3, <3>1 DEF StatusRead, StatusOf
  <2> QED BY <2>1, <2>2, <2>3 DEF Stays
<1>6. TokenNeverStranded'
  <2>1. Revoked => Revoked'
    BY <1>1, <1>2 DEF Revoked
  <2> QED BY <1>1, <1>2, <2>1 DEF Inv, TokenNeverStranded
<1> QED BY <1>3, <1>4, <1>5, <1>6 DEF Inv

\* A new session reads the row, which does not hold a carried token.
LEMMA LoadInv ==
  ASSUME Inv, TypeOK', NEW r \in Request, NEW k \in {"callback", "refresh", "revoke"}, Load(r, k)
  PROVE  Inv'
<1>1. /\ row' = row /\ provider' = provider /\ lost' = lost /\ pc[r] = "idle" /\ kind'[r] = k
      /\ session'[r].before = row
      /\ pc'[r] \in {"posting", "loaded", "changed"} /\ (pc'[r] = "changed" => k = "revoke")
      /\ \A q \in Request \ {r} : pc'[q] = pc[q] /\ session'[q] = session[q] /\ kind'[q] = kind[q]
  BY DEF Load, Inv, TypeOK
<1>2. /\ k = "callback" => row.status = "PENDING" /\ pc'[r] = "posting"
      /\ k = "refresh" => row.status # "REVOKED" /\ pc'[r] = "loaded"
      /\ k = "revoke" => session'[r].after.refresh = 0 /\ session'[r].after.status = "REVOKED"
      /\ k # "revoke" => session'[r].after = row
  BY ConstantRows DEF Load, Inv, TypeOK, EmptyRow
<1>3. ~Carries(r)' /\ ~Carries(r) /\ \A q \in Request \ {r} : Carries(q)' <=> Carries(q)
  BY <1>1 DEF Carries
<1>4. TokensIssued'
  <2>1. session'[r].after.refresh \in {0, row.refresh} /\ session'[r].before.refresh = row.refresh
    BY <1>1, <1>2
  <2>2. provider.issued \in Nat /\ TokensIssued
    BY DEF Inv, TypeOK
  <2>3. \A q \in Request : /\ session'[q].before.refresh <= provider.issued
                          /\ session'[q].after.refresh <= provider.issued
    BY <1>1, <2>1, <2>2 DEF TokensIssued
  <2> QED BY <1>1, <2>2, <2>3 DEF TokensIssued
<1>5. CarriedIsNew'
  BY <1>1, <1>3 DEF Inv, CarriedIsNew
<1>6. StatusRead'
  <2>1. StatusOf(r)'
    <3>1. row.status = "PENDING" => row.refresh = 0
      BY DEF Inv, StatusRead
    <3>2. row.status \in {"PENDING", "ACTIVE", "REVOKED"}
      BY DEF Inv, TypeOK, Row
    <3>3. /\ row' = row /\ session'[r].before = row /\ kind'[r] = k
          /\ pc'[r] = CASE k = "callback" -> "posting" [] k = "refresh" -> "loaded"
                         [] k = "revoke" -> "changed"
      BY DEF Load, Inv, TypeOK
    <3>4. CASE k = "callback"
      BY <1>2, <3>1, <3>3, <3>4 DEF StatusOf
    <3>5. CASE k = "refresh"
      BY <1>2, <3>1, <3>3, <3>5 DEF StatusOf
    <3>6. CASE k = "revoke"
      BY <1>2, <3>1, <3>3, <3>6 DEF StatusOf
    <3> QED BY <3>4, <3>5, <3>6
  <2>2. ASSUME NEW q \in Request \ {r} PROVE StatusOf(q)'
    BY <1>1, <2>2 DEF Inv, StatusRead, StatusOf
  <2> QED BY <1>1, <2>1, <2>2 DEF Inv, StatusRead
<1>7. TokenNeverStranded'
  <2>1. Revoked => Revoked'
    BY <1>1 DEF Revoked
  <2> QED BY <1>1, <1>3, <2>1 DEF Inv, TokenNeverStranded
<1> QED BY <1>4, <1>5, <1>6, <1>7 DEF Inv

\* The provider answers only a session that has read its current token (or the unused
\* code): nobody carries it then, and afterwards only this request can.
LEMMA GrantEffect ==
  ASSUME Inv, TypeOK', NEW r \in Request, NEW rotate \in BOOLEAN, Grant(r, rotate)
  PROVE  /\ \A q \in Request : ~Carries(q)
         /\ \A q \in Request \ {r} : ~Carries(q)'
         /\ rotate => /\ provider'.refresh = provider.issued + 1
                      /\ session'[r].after.refresh = provider'.refresh /\ Carries(r)'
         /\ ~rotate => /\ provider'.refresh = provider.refresh
                       /\ session'[r].after.refresh = session[r].before.refresh /\ ~Carries(r)'
         /\ session'[r].before = session[r].before /\ session'[r].after.status = "ACTIVE"
         /\ session'[r].after.access = provider.issued + 1
         /\ provider'.issued = provider.issued + 1 /\ provider'.codeUsed
<1> DEFINE n == provider.issued + 1
           refresh == IF rotate THEN n ELSE session[r].before.refresh
<1>1. /\ pc[r] = "posting" /\ Accepts(r) /\ kind' = kind /\ row' = row
      /\ provider' = [refresh |-> refresh, issued |-> n, codeUsed |-> TRUE]
      /\ session' = [session EXCEPT ![r].after =
                        [status |-> "ACTIVE", access |-> n, refresh |-> refresh]]
      /\ pc' = [pc EXCEPT ![r] = "changed"]
  BY Zenon DEF Grant, Stored
<1>2. /\ provider.refresh \in Nat /\ provider.issued \in Nat /\ provider.refresh <= provider.issued
      /\ \A q \in Request : /\ session[q].before.refresh \in Nat
                            /\ session[q].before.refresh <= provider.issued
  BY DEF Inv, TypeOK, TokensIssued, Row
<1>3. session[r].before.refresh = provider.refresh /\ \A q \in Request : ~Carries(q)
  <2>1. CASE kind[r] = "callback"
    <3>1. ~provider.codeUsed
      BY <1>1, <2>1, Zenon DEF Accepts
    <3>2. provider.issued = 0
      BY <3>1, Zenon DEF Inv, TokensIssued
    <3>3. provider.refresh = 0 /\ session[r].before.refresh = 0
      BY <1>2, <3>2
    <3> QED BY <3>3 DEF Inv, CarriedIsNew
  <2>2. CASE kind[r] # "callback"
    <3>1. session[r].before.refresh = provider.refresh
      BY <1>1, <2>2, Zenon DEF Accepts
    <3> QED BY <3>1, Zenon DEF Inv, CarriedIsNew
  <2> QED BY <2>1, <2>2
<1>4. kind[r] # "revoke"
  BY <1>1 DEF Inv, StatusRead, StatusOf
<1>5. /\ session'[r].before = session[r].before
      /\ session'[r].after = [status |-> "ACTIVE", access |-> n, refresh |-> refresh]
      /\ pc'[r] = "changed"
      /\ \A q \in Request \ {r} : session'[q] = session[q] /\ pc'[q] = pc[q]
  BY <1>1 DEF Inv, TypeOK
<1>6. \A q \in Request \ {r} : ~Carries(q)'
  BY <1>1, <1>3, <1>5 DEF Carries
<1>7. Carries(r)' <=> refresh # session[r].before.refresh
  BY <1>1, <1>4, <1>5 DEF Carries
<1>8. /\ provider'.refresh = refresh /\ provider'.issued = n /\ provider'.codeUsed
  BY <1>1
<1>9. CASE rotate
  BY <1>2, <1>3, <1>5, <1>6, <1>7, <1>8, <1>9
<1>10. CASE ~rotate
  BY <1>3, <1>5, <1>6, <1>7, <1>8, <1>10
<1> QED BY <1>9, <1>10

LEMMA GrantInv ==
  ASSUME Inv, TypeOK', NEW r \in Request, NEW rotate \in BOOLEAN, Grant(r, rotate)
  PROVE  Inv'
<1>1. /\ row' = row /\ kind' = kind /\ lost' = lost /\ pc[r] = "posting" /\ pc'[r] = "changed"
      /\ \A q \in Request \ {r} : session'[q] = session[q] /\ pc'[q] = pc[q]
  BY DEF Grant, Inv, TypeOK
<1>2. /\ provider.refresh \in Nat /\ provider.issued \in Nat /\ row.refresh <= provider.issued
      /\ provider.refresh <= provider.issued /\ row.refresh \in Nat
      /\ \A q \in Request : /\ session[q].before.refresh \in Nat /\ session[q].after.refresh \in Nat
                            /\ session[q].before.refresh <= provider.issued
                            /\ session[q].after.refresh <= provider.issued
  BY DEF Inv, TypeOK, TokensIssued, Row
<1>3. \A q \in Request : session'[q].before = session[q].before
  BY <1>1, GrantEffect
<1>4. TokensIssued'
  <2>1. /\ provider'.issued = provider.issued + 1
        /\ provider'.refresh \in {provider.refresh, provider.issued + 1}
        /\ session'[r].after.refresh \in {session[r].before.refresh, provider.issued + 1}
    BY GrantEffect
  <2>2. provider'.codeUsed
    BY GrantEffect
  <2>3. /\ provider'.refresh <= provider'.issued /\ row'.refresh <= provider'.issued
        /\ \A q \in Request : /\ session'[q].before.refresh <= provider'.issued
                              /\ session'[q].after.refresh <= provider'.issued
    BY <1>1, <1>2, <1>3, <2>1
  <2> QED BY <2>2, <2>3, Zenon DEF TokensIssued
<1>5. CarriedIsNew'
  <2>1. CASE rotate
    <3>1. /\ provider'.refresh = provider.issued + 1
          /\ session'[r].after.refresh = provider'.refresh
          /\ \A q \in Request \ {r} : ~Carries(q)'
      BY <2>1, GrantEffect
    <3>2. /\ provider'.refresh # 0 /\ row'.refresh # provider'.refresh
          /\ \A q \in Request : session'[q].before.refresh # provider'.refresh
      BY <1>1, <1>2, <1>3, <3>1
    <3> QED BY <3>1, <3>2, Zenon DEF CarriedIsNew
  <2>2. CASE ~rotate
    BY <2>2, GrantEffect DEF CarriedIsNew
  <2> QED BY <2>1, <2>2
<1>6. StatusRead'
  <2>1. ASSUME NEW q \in Request \ {r} PROVE StatusOf(q)'
    BY <1>1, <2>1 DEF Inv, StatusRead, StatusOf
  <2>2. StatusOf(r)'
    BY <1>1, GrantEffect DEF Inv, StatusRead, StatusOf
  <2>3. row'.status = "PENDING" => row'.refresh = 0
    BY <1>1 DEF Inv, StatusRead
  <2>4. \A q \in Request : StatusOf(q)'
    BY <2>1, <2>2
  <2> QED BY <2>3, <2>4, Zenon DEF StatusRead
<1>7. TokenNeverStranded'
  <2>1. CASE rotate
    BY <2>1, GrantEffect DEF TokenNeverStranded
  <2>2. CASE ~rotate
    <3>1. Revoked => Revoked'
      BY <1>1 DEF Revoked
    <3> QED BY <1>1, <2>2, <3>1, GrantEffect DEF Inv, TokenNeverStranded
  <2> QED BY <2>1, <2>2
<1> QED BY <1>4, <1>5, <1>6, <1>7 DEF Inv

\* A commit writes the refresh token of the carrier, or clears it, or leaves it.
LEMMA CommitEffect ==
  ASSUME Inv, TypeOK', NEW r \in Request, Commit(r)
  PROVE  /\ provider' = provider /\ kind' = kind /\ lost' = lost
         /\ pc[r] \in {"flushed", "released"} /\ pc'[r] = "done" /\ session'[r] = NoSession
         /\ \A q \in Request \ {r} : pc'[q] = pc[q] /\ session'[q] = session[q]
         /\ row'.status = IF session[r].after.status # session[r].before.status
                          THEN session[r].after.status ELSE row.status
         /\ row'.refresh = IF session[r].after.refresh # session[r].before.refresh
                           THEN session[r].after.refresh ELSE row.refresh
         /\ row'.access = IF session[r].after.access # session[r].before.access
                          THEN session[r].after.access ELSE row.access
<1>1. /\ row \in Row /\ session[r].before \in Row /\ session[r].after \in Row
  BY DEF Inv, TypeOK
<1>2. row' = Merge(row, session[r].before, session[r].after)
  BY DEF Commit
<1>3. /\ row'.status = IF session[r].after.status # session[r].before.status
                       THEN session[r].after.status ELSE row.status
      /\ row'.refresh = IF session[r].after.refresh # session[r].before.refresh
                        THEN session[r].after.refresh ELSE row.refresh
      /\ row'.access = IF session[r].after.access # session[r].before.access
                       THEN session[r].after.access ELSE row.access
  BY <1>1, <1>2, MergeIsRow
<1> QED BY <1>3 DEF Commit, End, Inv, TypeOK

LEMMA CommitInv == ASSUME Inv, TypeOK', NEW r \in Request, Commit(r) PROVE Inv'
<1>1. ~Carries(r)' /\ \A q \in Request \ {r} : Carries(q)' <=> Carries(q)
  BY CommitEffect DEF Carries
<1>2. TokensIssued'
  <2>1. row'.refresh \in {row.refresh, session[r].after.refresh}
    BY CommitEffect
  <2>a. provider.issued \in Nat /\ TokensIssued
    BY DEF Inv, TypeOK
  <2>b. session'[r].before.refresh = 0 /\ session'[r].after.refresh = 0
    BY CommitEffect, ConstantRows
  <2>c. provider' = provider /\ \A q \in Request \ {r} : session'[q] = session[q]
    BY CommitEffect
  <2>2. /\ row'.refresh <= provider'.issued
        /\ \A q \in Request : /\ session'[q].before.refresh <= provider'.issued
                              /\ session'[q].after.refresh <= provider'.issued
    BY <2>1, <2>a, <2>b, <2>c DEF TokensIssued
  <2> QED BY <2>2, CommitEffect, Zenon DEF Inv, TokensIssued
<1>3. CarriedIsNew'
  <2> SUFFICES ASSUME NEW q \in Request, Carries(q)'
               PROVE  /\ session'[q].after.refresh = provider'.refresh /\ provider'.refresh # 0
                      /\ row'.refresh # provider'.refresh
                      /\ \A x \in Request : /\ session'[x].before.refresh # provider'.refresh
                                            /\ Carries(x)' => x = q
    BY Zenon DEF CarriedIsNew
  <2>1. q # r /\ Carries(q) /\ ~Carries(r) /\ session'[q] = session[q]
    BY <1>1, CommitEffect DEF Inv, CarriedIsNew
  <2>2. row'.refresh \in {row.refresh, 0}
    BY <2>1, CommitEffect DEF Carries, Inv, StatusRead, StatusOf
  <2> QED BY <1>1, <2>1, <2>2, ConstantRows, CommitEffect DEF Inv, CarriedIsNew
<1>4. StatusRead'
  <2>1. row'.status # "PENDING"
    BY CommitEffect DEF Inv, StatusRead, StatusOf
  <2>2. ASSUME NEW q \in Request \ {r} PROVE StatusOf(q)'
    BY <2>1, CommitEffect DEF Inv, StatusRead, StatusOf
  <2>3. StatusOf(r)'
    BY <2>1, ConstantRows, CommitEffect DEF StatusOf
  <2>4. \A q \in Request : StatusOf(q)'
    BY <2>2, <2>3
  <2> QED BY <2>1, <2>4, Zenon DEF StatusRead
<1>5. TokenNeverStranded'
  <2>1. CASE Carries(r)
    <3>1. row'.refresh = provider'.refresh
      BY <2>1, CommitEffect DEF Carries, Inv, CarriedIsNew
    <3> QED BY <3>1 DEF TokenNeverStranded
  <2>2. CASE kind[r] = "revoke"
    BY <2>2, CommitEffect DEF TokenNeverStranded, Revoked
  <2>3. CASE ~Carries(r) /\ kind[r] # "revoke"
    <3>1. row'.refresh = row.refresh
      BY <2>3, CommitEffect DEF Carries
    <3>2. Revoked => Revoked'
      BY CommitEffect DEF Revoked
    <3> QED BY <1>1, <2>3, <3>1, <3>2, CommitEffect DEF Inv, TokenNeverStranded
  <2> QED BY <2>1, <2>2, <2>3
<1> QED BY <1>2, <1>3, <1>4, <1>5 DEF Inv

\* Every step preserves the invariant.
LEMMA InvStep == Inv /\ [Next]_vars => Inv'
<1> SUFFICES ASSUME Inv, [Next]_vars PROVE Inv'
  OBVIOUS
<1>1. TypeOK'
  BY TypeStep DEF Inv
<1> QED BY <1>1, StepKinds, QuietInv, LoadInv, GrantInv, CommitInv DEF Inv

LEMMA Safe == Spec => []Inv
  BY InvInit, InvStep, PTL DEF Spec

\* However refreshes of several processes overlap, only a lost answer, a crash or a
\* revocation can separate the row from the refresh token the provider accepts.
THEOREM TokenKept == Spec => []TokenNeverStranded
<1>1. Inv => TokenNeverStranded
  BY DEF Inv
<1> QED BY <1>1, Safe, PTL

\* A refresh that overlaps a revocation commits without writing the status.
THEOREM RevocationStays == Spec => RefreshNeverUnrevokes
<1>1. Inv /\ [Next]_vars =>
        [\A r \in Request : Commit(r) /\ kind[r] = "refresh" /\ row.status = "REVOKED"
                            => row'.status = "REVOKED"]_vars
  <2> SUFFICES ASSUME Inv, [Next]_vars, NEW r \in Request,
                      Commit(r), kind[r] = "refresh", row.status = "REVOKED"
               PROVE  row'.status = "REVOKED"
    OBVIOUS
  <2>1. TypeOK'
    BY TypeStep DEF Inv
  <2>2. session[r].before.status = "ACTIVE" /\ session[r].after.status = "ACTIVE"
    BY DEF Commit, Inv, StatusRead, StatusOf
  <2> QED BY <2>1, <2>2, CommitEffect
<1> QED BY <1>1, Safe, PTL DEF Spec, RefreshNeverUnrevokes

-----------------------------------------------------------------------------
(* TokenCustody *)

\* Who keeps the token, before and after a step.
LEMMA KeeperIs ==
  ASSUME CarriedIsNew, ~Void
  PROVE  /\ \A r \in Request : Carries(r) => CustodyKeeper = r
         /\ (\A r \in Request : ~Carries(r)) => CustodyKeeper = "row"
         /\ CustodyToken = provider.refresh
  BY DEF CarriedIsNew, CustodyKeeper, CustodyToken
LEMMA KeeperIsNext ==
  ASSUME CarriedIsNew', ~Void'
  PROVE  /\ \A r \in Request : Carries(r)' => CustodyKeeper' = r
         /\ (\A r \in Request : ~Carries(r)') => CustodyKeeper' = "row"
         /\ CustodyToken' = provider'.refresh
<1>1. CustodyToken' = provider'.refresh
  BY DEF CustodyToken
<1>2. ASSUME NEW r \in Request, Carries(r)' PROVE CustodyKeeper' = r
  <2>1. \A q \in Request : Carries(q)' => q = r
    BY <1>2, Zenon DEF CarriedIsNew
  <2> QED BY <1>2, <2>1 DEF CustodyKeeper
<1>3. ASSUME \A r \in Request : ~Carries(r)' PROVE CustodyKeeper' = "row"
  BY <1>3, Zenon DEF CustodyKeeper
<1> QED BY <1>1, <1>2, <1>3

\* If the same request carries the same token, nothing happens in TokenCustody.
LEMMA Stutters ==
  ASSUME CarriedIsNew, CarriedIsNew', ~Void, ~Void',
         provider'.refresh = provider.refresh, \A q \in Request : Carries(q)' <=> Carries(q)
  PROVE  UNCHANGED <<CustodyToken, CustodyKeeper>>
<1>1. CASE \E r \in Request : Carries(r)
  BY <1>1, KeeperIs, KeeperIsNext
<1>2. CASE \A r \in Request : ~Carries(r)
  BY <1>2, KeeperIs, KeeperIsNext
<1> QED BY <1>1, <1>2

\* A token given up stays given up.
LEMMA VoidStays == ASSUME Inv, [Next]_vars, Void PROVE Void'
<1>1. TypeOK /\ TypeOK'
  BY TypeStep DEF Inv
<1>2. CASE Quiet
  <2>1. \A q \in Request : pc[q] = "done" => pc'[q] = "done"
    BY <1>2, StaysFacts DEF Quiet
  <2> QED BY <1>2, <2>1 DEF Void, Revoked, Quiet
<1>3. ASSUME NEW r \in Request, NEW k \in {"callback", "refresh", "revoke"}, Load(r, k) PROVE Void'
  BY <1>1, <1>3 DEF Load, Void, Revoked, TypeOK
<1>4. ASSUME NEW r \in Request, NEW rotate \in BOOLEAN, Grant(r, rotate) PROVE Void'
  BY <1>1, <1>4 DEF Grant, Void, Revoked, TypeOK
<1>5. ASSUME NEW r \in Request, Commit(r) PROVE Void'
  BY <1>1, <1>5, CommitEffect DEF Void, Revoked
<1> QED BY <1>1, <1>2, <1>3, <1>4, <1>5, StepKinds

\* Every step moves the token as TokenCustody does, or leaves it where it is.
LEMMA CustodyStep ==
  ASSUME Inv, [Next]_vars
  PROVE  [Custody!Next]_<<CustodyToken, CustodyKeeper>>
<1>0. Inv' /\ TypeOK /\ TypeOK' /\ CarriedIsNew /\ CarriedIsNew'
  BY InvStep DEF Inv
<1>1. CASE Void'
  BY <1>1 DEF Custody!Next, Custody!GiveUp, CustodyToken, CustodyKeeper
<1>2. CASE ~Void'
  <2>0. ~Void
    BY <1>2, VoidStays
  <2>1. CASE Quiet
    <3>1. \A q \in Request : Carries(q)' <=> Carries(q)
      BY <1>2, <2>1, StaysFacts DEF Quiet, Void
    <3> QED BY <1>0, <1>2, <2>0, <2>1, <3>1, Stutters DEF Quiet
  <2>2. ASSUME NEW r \in Request, NEW k \in {"callback", "refresh", "revoke"}, Load(r, k)
        PROVE  UNCHANGED <<CustodyToken, CustodyKeeper>>
    <3>1. \A q \in Request : Carries(q)' <=> Carries(q)
      BY <1>0, <2>2 DEF Load, Carries, TypeOK
    <3>2. provider' = provider
      BY <2>2 DEF Load
    <3> QED BY <1>0, <1>2, <2>0, <3>1, <3>2, Stutters
  <2>3. ASSUME NEW r \in Request, NEW rotate \in BOOLEAN, Grant(r, rotate)
        PROVE  [Custody!Next]_<<CustodyToken, CustodyKeeper>>
    <3>1. CASE rotate
      <4>1. /\ \A q \in Request : ~Carries(q)
            /\ Carries(r)' /\ provider'.refresh = provider.issued + 1
        BY <1>0, <2>3, <3>1, GrantEffect
      <4>2. provider.refresh < provider'.refresh
        BY <4>1 DEF Inv, TokensIssued, TypeOK
      <4>3. CustodyKeeper = "row" /\ CustodyKeeper' = r /\ CustodyToken' > CustodyToken
        BY <1>0, <1>2, <2>0, <4>1, <4>2, KeeperIs, KeeperIsNext DEF Inv, TypeOK
      <4> QED BY <4>3 DEF Custody!Next, Custody!Exchange
    <3>2. CASE ~rotate
      <4>1. /\ \A q \in Request : ~Carries(q) /\ ~Carries(q)'
            /\ provider'.refresh = provider.refresh
        BY <1>0, <2>3, <3>2, GrantEffect
      <4> QED BY <1>0, <1>2, <2>0, <4>1, Stutters
    <3> QED BY <3>1, <3>2
  <2>4. ASSUME NEW r \in Request, Commit(r)
        PROVE  [Custody!Next]_<<CustodyToken, CustodyKeeper>>
    <3>1. provider' = provider /\ ~Carries(r)' /\ \A q \in Request \ {r} : Carries(q)' <=> Carries(q)
      BY <1>0, <2>4, CommitEffect DEF Carries
    <3>2. CASE Carries(r)
      <4>1. \A q \in Request : ~Carries(q)'
        BY <1>0, <3>1, <3>2, Zenon DEF CarriedIsNew
      <4>2. CustodyKeeper = r /\ CustodyKeeper' = "row" /\ CustodyToken' = CustodyToken
        BY <1>0, <1>2, <2>0, <3>1, <3>2, <4>1, KeeperIs, KeeperIsNext
      <4> QED BY <4>2 DEF Custody!Next, Custody!Store
    <3>3. CASE ~Carries(r)
      BY <1>0, <1>2, <2>0, <3>1, <3>3, Stutters
    <3> QED BY <3>2, <3>3
  <2> QED BY <1>0, <2>1, <2>2, <2>3, <2>4, StepKinds
<1> QED BY <1>1, <1>2

\* The rotating refresh token passes from the row to one request and back: refreshes,
\* callbacks, expired leases and crashes of any number implement TokenCustody.
THEOREM CustodyKept == Spec => ImplementsCustody
<1>1. Init => Custody!Init
  <2> SUFFICES ASSUME Init PROVE Custody!Init
    OBVIOUS
  <2>1. \A r \in Request : pc[r] = "idle"
    BY DEF Init
  <2>2. ~Void /\ \A r \in Request : ~Carries(r)
    BY <2>1 DEF Init, Void, Revoked, Carries
  <2>3. provider.refresh \in {0, 1}
    BY DEF Init
  <2> QED BY <2>2, <2>3, InvInit, KeeperIs DEF Inv, Custody!Init
<1>2. Inv /\ [Next]_vars => [Custody!Next]_<<CustodyToken, CustodyKeeper>>
  BY CustodyStep
<1> QED BY <1>1, <1>2, Safe, PTL DEF Spec, ImplementsCustody, Custody!Spec, Custody!vars

-----------------------------------------------------------------------------
(* The lease of a process *)

AtWork(p) == {r \in Request : ProcessOf[r] = p /\ AtProvider(r)}
Live(p)   == IF lease[p].live THEN 1 ELSE 0

\* A live lease is held by a refresh at work; all the others had theirs expired.
LeaseOf(p) ==
    /\ IsFiniteSet(AtWork(p))
    /\ lease[p].live => lease[p].holder \in AtWork(p)
    /\ Cardinality(AtWork(p)) <= expiries + Live(p)
LeaseInv == \A p \in Process : LeaseOf(p)

\* A step that leaves a process alone.
LEMMA ProcessKept ==
  ASSUME TypeOK, NEW p \in Process, LeaseOf(p), AtWork(p)' = AtWork(p), lease'[p] = lease[p],
         expiries' \in {expiries, expiries + 1}
  PROVE  LeaseOf(p)'
<1>1. expiries \in Nat /\ Cardinality(AtWork(p)) \in Nat
  BY OAuthAssumption, FS_CardinalityType DEF TypeOK, LeaseOf
<1> QED BY <1>1 DEF LeaseOf, Live

\* A step of one request: the processes of the others are left alone.
Only(r) == \A q \in Request \ {r} : pc'[q] = pc[q] /\ kind'[q] = kind[q]

LEMMA OtherProcess ==
  ASSUME TypeOK, NEW r \in Request, Only(r), NEW p \in Process, LeaseOf(p), p # ProcessOf[r],
         lease'[p] = lease[p], expiries' = expiries
  PROVE  LeaseOf(p)'
<1>1. \A q \in Request : q \in AtWork(p)' <=> q \in AtWork(p)
  BY DEF AtWork, AtProvider, Only
<1>2. AtWork(p)' = AtWork(p)
  BY <1>1 DEF AtWork
<1> QED BY <1>2, ProcessKept

\* r goes on within the lease's protection, or outside of it.
LEMMA WithinLease ==
  ASSUME TypeOK, LeaseInv, NEW r \in Request, Only(r), lease' = lease, expiries' = expiries,
         AtProvider(r)' <=> AtProvider(r)
  PROVE  LeaseInv'
<1> SUFFICES ASSUME NEW p \in Process PROVE LeaseOf(p)'
  BY DEF LeaseInv
<1>1. \A q \in Request : q \in AtWork(p)' <=> q \in AtWork(p)
  BY DEF AtWork, AtProvider, Only
<1>2. AtWork(p)' = AtWork(p)
  BY <1>1 DEF AtWork
<1> QED BY <1>2, ProcessKept DEF LeaseInv

\* r is no longer at the provider, and releases what it holds.
LEMMA LeavesLease ==
  ASSUME TypeOK, LeaseInv, NEW r \in Request, Only(r), lease' = Released(ProcessOf[r], r),
         expiries' = expiries, ~AtProvider(r)'
  PROVE  LeaseInv'
<1> DEFINE p == ProcessOf[r]
<1>0. p \in Process /\ LeaseOf(p) /\ expiries \in Nat
  BY OAuthAssumption DEF LeaseInv, TypeOK
<1>1. AtWork(p)' = AtWork(p) \ {r} /\ (AtProvider(r) <=> r \in AtWork(p))
  <2>1. \A q \in Request : q \in AtWork(p)' <=> q \in AtWork(p) /\ q # r
    BY DEF AtWork, AtProvider, Only
  <2> QED BY <2>1 DEF AtWork
<1>2. /\ IsFiniteSet(AtWork(p)') /\ Cardinality(AtWork(p)) \in Nat
      /\ Cardinality(AtWork(p)') = Cardinality(AtWork(p)) - IF r \in AtWork(p) THEN 1 ELSE 0
  BY <1>0, <1>1, FS_RemoveElement, FS_CardinalityType DEF LeaseOf
<1>3. LeaseOf(p)'
  <2>1. CASE lease[p].holder = r
    <3>1. lease'[p] = NoLease /\ ~lease'[p].live
      BY <1>0, <2>1, ConstantRows DEF Released, NoLease, TypeOK
    <3>2. Cardinality(AtWork(p)') <= expiries
      BY <1>0, <1>2, <2>1 DEF LeaseOf, Live
    <3> QED BY <1>0, <1>2, <3>1, <3>2 DEF LeaseOf, Live
  <2>2. CASE lease[p].holder # r
    <3>1. lease' = lease
      BY <2>2 DEF Released
    <3>2. lease[p].live => lease[p].holder \in AtWork(p)'
      BY <1>0, <1>1, <2>2 DEF LeaseOf
    <3>3. Cardinality(AtWork(p)') <= expiries + Live(p)
      BY <1>0, <1>2 DEF LeaseOf, Live
    <3> QED BY <1>2, <3>1, <3>2, <3>3 DEF LeaseOf, Live
  <2> QED BY <2>1, <2>2
<1>4. ASSUME NEW q \in Process, q # p PROVE LeaseOf(q)'
  <2>1. lease'[q] = lease[q]
    BY <1>4 DEF Released, TypeOK
  <2> QED BY <1>4, <2>1, OtherProcess DEF LeaseInv
<1> QED BY <1>3, <1>4 DEF LeaseInv

\* A free lease is not live: its holder would be somebody.
LEMMA FreeLease ==
  ASSUME LeaseInv, NEW p \in Process, LeaseFree(p) PROVE ~lease[p].live
  BY OAuthAssumption DEF LeaseInv, LeaseOf, LeaseFree, AtWork

LEMMA AcquireLease == ASSUME Inv, LeaseInv, NEW r \in Request, Acquire(r) PROVE LeaseInv'
<1> DEFINE p == ProcessOf[r]
<1>a. TypeOK /\ pc[r] = "loaded" /\ kind[r] = "refresh"
  BY DEF Acquire, Inv, StatusRead, StatusOf
<1>0. /\ p \in Process /\ LeaseOf(p) /\ expiries \in Nat /\ ~lease[p].live
      /\ kind' = kind /\ expiries' = expiries /\ ~AtProvider(r)
  BY <1>a, OAuthAssumption, FreeLease DEF LeaseInv, TypeOK, Acquire, AtProvider
<1>1. CASE lease' = [lease EXCEPT ![p] = [holder |-> r, live |-> TRUE]] /\ Goto(r, "posting")
  <2>1. Only(r) /\ pc'[r] = "posting" /\ lease'[p].holder = r /\ lease'[p].live
    BY <1>a, <1>0, <1>1 DEF Goto, Only, TypeOK
  <2>2. AtWork(p)' = AtWork(p) \cup {r} /\ r \notin AtWork(p)
    <3>1. \A q \in Request : q \in AtWork(p)' <=> q \in AtWork(p) \/ q = r
      BY <1>a, <1>0, <2>1 DEF AtWork, AtProvider, Only
    <3> QED BY <1>a, <1>0, <3>1 DEF AtWork
  <2>3. /\ IsFiniteSet(AtWork(p)') /\ Cardinality(AtWork(p)) \in Nat
        /\ Cardinality(AtWork(p)') = Cardinality(AtWork(p)) + 1
    BY <1>a, <1>0, <2>2, FS_AddElement, FS_CardinalityType DEF LeaseOf
  <2>4. LeaseOf(p)'
    BY <1>a, <1>0, <2>1, <2>2, <2>3 DEF LeaseOf, Live
  <2>5. ASSUME NEW q \in Process, q # p PROVE LeaseOf(q)'
    BY <1>a, <1>0, <1>1, <2>1, <2>5, OtherProcess DEF LeaseInv, TypeOK
  <2> QED BY <2>4, <2>5 DEF LeaseInv
<1>2. CASE lease' = [lease EXCEPT ![p] = NoLease] /\ End(r, "failed")
  <2>1. Only(r) /\ pc'[r] = "failed" /\ ~lease'[p].live
    BY <1>a, <1>0, <1>2, ConstantRows DEF End, Only, NoLease, TypeOK
  <2>2. AtWork(p)' = AtWork(p)
    <3>1. \A q \in Request : q \in AtWork(p)' <=> q \in AtWork(p)
      BY <1>a, <1>0, <2>1 DEF AtWork, AtProvider, Only
    <3> QED BY <3>1 DEF AtWork
  <2>3. LeaseOf(p)'
    BY <1>a, <1>0, <2>1, <2>2 DEF LeaseOf, Live
  <2>4. ASSUME NEW q \in Process, q # p PROVE LeaseOf(q)'
    BY <1>a, <1>0, <1>2, <2>1, <2>4, OtherProcess DEF LeaseInv, TypeOK
  <2> QED BY <2>3, <2>4 DEF LeaseInv
<1> QED BY <1>1, <1>2 DEF Acquire

LEMMA ExpireLease == ASSUME TypeOK, LeaseInv, NEW p \in Process, LeaseExpires(p) PROVE LeaseInv'
<1>1. \A q \in Process : AtWork(q)' = AtWork(q)
  BY DEF LeaseExpires, AtWork, AtProvider
<1>2. lease[p].live /\ ~lease'[p].live /\ expiries' = expiries + 1 /\ expiries \in Nat
  BY OAuthAssumption DEF LeaseExpires, TypeOK
<1>3. LeaseOf(p)'
  BY <1>1, <1>2 DEF LeaseInv, LeaseOf, Live
<1>4. ASSUME NEW q \in Process, q # p PROVE LeaseOf(q)'
  <2>1. lease'[q] = lease[q]
    BY <1>4 DEF LeaseExpires, TypeOK
  <2> QED BY <1>1, <1>2, <2>1, ProcessKept DEF LeaseInv
<1> QED BY <1>3, <1>4 DEF LeaseInv

LEMMA CrashLease == ASSUME TypeOK, LeaseInv, NEW p \in Process, Crash(p) PROVE LeaseInv'
<1>0. kind' = kind /\ expiries' = expiries /\ expiries \in Nat
  BY OAuthAssumption DEF Crash, TypeOK
<1>1. \A r \in Request :
        pc'[r] = IF ProcessOf[r] = p /\ pc[r] \notin {"idle"} \cup Ended THEN "failed" ELSE pc[r]
  BY DEF Crash
<1>2. LeaseOf(p)'
  <2>1. AtWork(p)' = {}
    BY <1>1 DEF AtWork, AtProvider, Ended
  <2>2. IsFiniteSet(AtWork(p)') /\ Cardinality(AtWork(p)') = 0
    BY <2>1, FS_EmptySet
  <2>3. ~lease'[p].live
    BY DEF Crash, NoLease, TypeOK
  <2> QED BY <1>0, <2>2, <2>3 DEF LeaseOf, Live
<1>3. ASSUME NEW q \in Process, q # p PROVE LeaseOf(q)'
  <2>1. \A r \in Request : r \in AtWork(q)' <=> r \in AtWork(q)
    BY <1>0, <1>1, <1>3 DEF AtWork, AtProvider
  <2>2. AtWork(q)' = AtWork(q) /\ lease'[q] = lease[q]
    BY <1>3, <2>1 DEF AtWork, Crash, TypeOK
  <2> QED BY <1>0, <2>2, ProcessKept DEF LeaseInv
<1> QED BY <1>2, <1>3 DEF LeaseInv

LEMMA LeaseInit == Init => LeaseInv
<1> SUFFICES ASSUME Init, NEW p \in Process PROVE LeaseOf(p)
  BY DEF LeaseInv
<1>1. AtWork(p) = {}
  BY DEF Init, AtWork, AtProvider
<1>2. IsFiniteSet(AtWork(p)) /\ Cardinality(AtWork(p)) = 0
  BY <1>1, FS_EmptySet
<1> QED BY <1>2 DEF Init, LeaseOf, NoLease, Live

LEMMA LeaseStep == Inv /\ LeaseInv /\ [Next]_vars => LeaseInv'
<1> SUFFICES ASSUME Inv, LeaseInv, [Next]_vars PROVE LeaseInv'
  OBVIOUS
<1>0. TypeOK
  BY DEF Inv
<1>1. ASSUME NEW r \in Request, NEW k \in {"callback", "refresh", "revoke"}, Load(r, k)
      PROVE  LeaseInv'
  <2>1. /\ Only(r) /\ lease' = lease /\ expiries' = expiries /\ pc[r] = "idle" /\ kind'[r] = k
        /\ pc'[r] = CASE k = "callback" -> "posting" [] k = "refresh" -> "loaded"
                       [] k = "revoke" -> "changed"
    BY <1>0, <1>1 DEF Load, Only, TypeOK
  <2>2. ~AtProvider(r) /\ ~AtProvider(r)'
    BY <2>1 DEF AtProvider
  <2> QED BY <1>0, <2>1, <2>2, WithinLease
<1>2. ASSUME NEW r \in Request, Join(r) PROVE LeaseInv'
  BY <1>0, <1>2, WithinLease DEF Join, End, Only, AtProvider, TypeOK
<1>3. ASSUME NEW r \in Request, NEW rotate \in BOOLEAN, Grant(r, rotate) PROVE LeaseInv'
  BY <1>0, <1>3, WithinLease DEF Grant, Only, AtProvider, TypeOK
<1>4. ASSUME NEW r \in Request, Refuse(r) PROVE LeaseInv'
  BY <1>0, <1>4, LeavesLease DEF Refuse, End, Only, AtProvider, TypeOK
<1>5. ASSUME NEW r \in Request, Raise(r) PROVE LeaseInv'
  BY <1>0, <1>5, LeavesLease DEF Raise, End, Only, AtProvider, TypeOK
<1>6. ASSUME NEW r \in Request, Flush(r) PROVE LeaseInv'
  BY <1>0, <1>6, WithinLease DEF Flush, Goto, Only, AtProvider, TypeOK
<1>7. ASSUME NEW r \in Request, Release(r) PROVE LeaseInv'
  BY <1>0, <1>7, LeavesLease DEF Release, Goto, Only, AtProvider, TypeOK
<1>8. ASSUME NEW r \in Request, Commit(r) PROVE LeaseInv'
  BY <1>0, <1>8, WithinLease DEF Commit, End, Only, AtProvider, TypeOK
<1>9. CASE UNCHANGED vars
  <2>1. \A p \in Process : AtWork(p)' = AtWork(p) /\ lease'[p] = lease[p]
    BY <1>9 DEF vars, AtWork, AtProvider
  <2> QED BY <1>0, <1>9, <2>1, ProcessKept DEF LeaseInv, vars
<1> QED BY <1>0, <1>1, <1>2, <1>3, <1>4, <1>5, <1>6, <1>7, <1>8, <1>9, AcquireLease, ExpireLease,
           CrashLease DEF Next, Advance

\* In one process, refreshes are at the provider together only as often as a lease expired.
THEOREM RefreshesAreLeased == Spec => []LeaseExcludes
<1>1. Inv /\ LeaseInv => LeaseExcludes
  <2> SUFFICES ASSUME Inv, LeaseInv, NEW p \in Process
               PROVE  Cardinality(AtWork(p)) <= 1 + expiries
    BY DEF LeaseExcludes, AtWork
  <2>1. expiries \in Nat /\ Cardinality(AtWork(p)) \in Nat
    BY OAuthAssumption, FS_CardinalityType DEF Inv, TypeOK, LeaseInv, LeaseOf
  <2> QED BY <2>1 DEF LeaseInv, LeaseOf, Live
<1> QED BY <1>1, LeaseInit, LeaseStep, Safe, PTL DEF Spec

-----------------------------------------------------------------------------
(* The order of the commits *)

Refreshes   == {r \in Request : kind[r] = "refresh"}
SameProcess == \A r, q \in Refreshes : ProcessOf[r] = ProcessOf[q]
Granted(r)  == pc[r] \in {"changed", "flushed", "released"} /\ kind[r] # "revoke"
Below(r, q) == pc[r] = "released" /\ session[r].after.access < session[q].after.access

\* Granted access tokens are newer than the row's; of two, the older one is past its
\* lease, hence flushed and first to commit; a code is exchanged while nobody has a
\* token to refresh.
Ordered ==
    /\ row.access <= provider.issued
    /\ \A r \in Request : Granted(r) =>
          row.access < session[r].after.access /\ session[r].after.access <= provider.issued
    /\ \A r, q \in Request : Granted(r) /\ Granted(q) /\ r # q => Below(r, q) \/ Below(q, r)
    /\ \A r \in Request : Granted(r) /\ kind[r] = "callback" =>
          row.refresh = 0 /\ \A q \in Request : session[q].before.refresh = 0

\* What a request has asked for and read.
AskedFor(r) ==
    /\ pc[r] = "idle" <=> kind[r] = None
    /\ kind[r] = "revoke" => session[r].after.access = 0
    /\ kind[r] = "refresh" /\ pc[r] \in {"posting", "changed", "flushed", "released"}
         => session[r].before.refresh # 0
OneWriter == \A r, q \in Request : {pc[r], pc[q]} \subseteq {"flushed", "released"} => r = q

OrderInv ==
    /\ IsFiniteSet(Refreshes) /\ OneWriter
    /\ \A r \in Request : AskedFor(r)
    /\ expiries = 0 /\ SameProcess => Ordered

\* Two elements make a set larger than one.
LEMMA AtMostOne ==
  ASSUME NEW S, IsFiniteSet(S), Cardinality(S) <= 1, NEW x \in S, NEW y \in S PROVE x = y
<1> SUFFICES ASSUME x # y PROVE FALSE
  OBVIOUS
<1>1. IsFiniteSet({x}) /\ Cardinality({x}) = 1
  BY FS_Singleton
<1>2. IsFiniteSet({x} \cup {y}) /\ Cardinality({x} \cup {y}) = 2
  <2>1. y \notin {x}
    OBVIOUS
  <2> QED BY <1>1, <2>1, FS_AddElement
<1>3. {x} \cup {y} \subseteq S
  OBVIOUS
<1>4. Cardinality({x} \cup {y}) <= Cardinality(S) /\ Cardinality(S) \in Nat
  BY <1>3, FS_Subset, FS_CardinalityType
<1> QED BY <1>2, <1>4

\* Without expired leases, one refresh of a process is at the provider.
LEMMA OneAtProvider ==
  ASSUME TypeOK, LeaseInv, expiries = 0, NEW r \in Request, NEW q \in Request,
         AtProvider(r), AtProvider(q), ProcessOf[r] = ProcessOf[q]
  PROVE  r = q
<1> DEFINE p == ProcessOf[r]
<1>1. p \in Process /\ r \in AtWork(p) /\ q \in AtWork(p)
  BY OAuthAssumption DEF AtWork
<1>2. IsFiniteSet(AtWork(p)) /\ Cardinality(AtWork(p)) <= 1
  <2>1. Live(p) <= 1 /\ Live(p) \in Nat
    BY DEF Live
  <2>2. IsFiniteSet(AtWork(p)) /\ Cardinality(AtWork(p)) <= expiries + Live(p)
    BY <1>1 DEF LeaseInv, LeaseOf
  <2> QED BY <2>1, <2>2, FS_CardinalityType
<1> QED BY <1>1, <1>2, AtMostOne

LEMMA WriterStep == Inv /\ OneWriter /\ [Next]_vars => OneWriter'
<1> SUFFICES ASSUME Inv, OneWriter, [Next]_vars PROVE OneWriter'
  OBVIOUS
<1> DEFINE Writes(q) == pc[q] \in {"flushed", "released"}
<1>0. TypeOK
  BY DEF Inv
<1>1. CASE \A q \in Request : Writes(q)' => Writes(q)
  BY <1>1 DEF OneWriter
<1>2. ASSUME NEW r \in Request, Flush(r) PROVE OneWriter'
  BY <1>0, <1>2 DEF Flush, RowLocked, Goto, OneWriter, TypeOK
<1>3. ASSUME NEW r \in Request, NEW k \in {"callback", "refresh", "revoke"}, Load(r, k)
      PROVE  \A q \in Request : Writes(q)' => Writes(q)
  <2>1. pc' = [pc EXCEPT ![r] = CASE k = "callback" -> "posting" [] k = "refresh" -> "loaded"
                                  [] k = "revoke" -> "changed"]
    BY <1>3 DEF Load
  <2> QED BY <1>0, <2>1 DEF TypeOK
<1>4. ASSUME NEW r \in Request,
             Acquire(r) \/ Join(r) \/ Refuse(r) \/ Raise(r) \/ Release(r) \/ Commit(r)
      PROVE  \A q \in Request : Writes(q)' => Writes(q)
  BY <1>0, <1>4 DEF Acquire, Join, Refuse, Raise, Release, Commit, Goto, End, TypeOK
<1>5. ASSUME NEW r \in Request, NEW rotate \in BOOLEAN, Grant(r, rotate)
      PROVE  \A q \in Request : Writes(q)' => Writes(q)
  BY <1>0, <1>5 DEF Grant, TypeOK
<1>6. ASSUME NEW p \in Process, LeaseExpires(p) \/ Crash(p)
      PROVE  \A q \in Request : Writes(q)' => Writes(q)
  BY <1>0, <1>6 DEF LeaseExpires, Crash
<1>7. CASE UNCHANGED vars
  BY <1>1, <1>7 DEF vars
<1> QED BY <1>1, <1>2, <1>3, <1>4, <1>5, <1>6, <1>7 DEF Next, Advance

\* Expired leases are counted, never forgotten.
LEMMA ExpiriesGrow ==
  ASSUME TypeOK, [Next]_vars PROVE expiries \in Nat /\ expiries' \in {expiries, expiries + 1}
<1>1. ASSUME NEW r \in Request, NEW k \in {"callback", "refresh", "revoke"}, Load(r, k)
      PROVE  expiries' = expiries
  BY <1>1 DEF Load
<1>2. ASSUME NEW r \in Request, Advance(r) \/ Raise(r) PROVE expiries' = expiries
  BY <1>2 DEF Advance, Acquire, Join, Refuse, Flush, Release, Commit, Grant, Raise
<1>3. ASSUME NEW p \in Process, LeaseExpires(p) \/ Crash(p)
      PROVE  expiries' \in {expiries, expiries + 1}
  BY <1>3 DEF LeaseExpires, Crash
<1> QED BY <1>1, <1>2, <1>3, OAuthAssumption DEF Next, vars, TypeOK

LEMMA OrderQuiet == ASSUME Inv, OrderInv, OneWriter', Quiet, expiries' = 0 => expiries = 0
                    PROVE  OrderInv'
<1>1. /\ row' = row /\ provider' = provider /\ kind' = kind
      /\ \A q \in Request : Stays(q)
  BY Zenon DEF Quiet
<1>2. Refreshes' = Refreshes /\ SameProcess' = SameProcess
  BY <1>1 DEF Refreshes, SameProcess
<1>3. \A q \in Request : /\ session'[q] = session[q] \/ session'[q] = NoSession
                         /\ Granted(q)' => /\ Granted(q) /\ session'[q] = session[q]
                                           /\ pc[q] = "released" => pc'[q] = "released"
  BY <1>1 DEF Stays, Granted
<1>4. ASSUME NEW q \in Request PROVE AskedFor(q)'
  <2>1. AskedFor(q) /\ Stays(q)
    BY <1>1 DEF OrderInv
  <2>2. CASE session'[q] = NoSession /\ pc'[q] \in {"joined", "refused", "failed"} /\ pc[q] # "idle"
    BY <1>1, <2>1, <2>2, ConstantRows DEF AskedFor
  <2>3. CASE /\ session'[q] = session[q]
             /\ \/ pc'[q] = pc[q]
                \/ pc[q] = "loaded" /\ pc'[q] = "posting" /\ session[q].before.refresh # 0
                \/ pc[q] = "changed" /\ pc'[q] = "flushed"
                \/ pc[q] = "flushed" /\ pc'[q] = "released"
    BY <1>1, <2>1, <2>3 DEF AskedFor
  <2> QED BY <2>1, <2>2, <2>3 DEF Stays
<1>5. ASSUME Ordered PROVE Ordered'
  <2>1. \A q \in Request : session'[q].before.refresh \in {session[q].before.refresh, 0}
    BY <1>3, ConstantRows
  <2>2. \A r, q \in Request : Granted(r)' /\ Granted(q)' /\ r # q => Below(r, q)' \/ Below(q, r)'
    BY <1>3, <1>5 DEF Ordered, Below
  <2>3. \A r \in Request : Granted(r)' =>
           row'.access < session'[r].after.access /\ session'[r].after.access <= provider'.issued
    BY <1>1, <1>3, <1>5 DEF Ordered
  <2>4. \A r \in Request : Granted(r)' /\ kind'[r] = "callback" =>
           row'.refresh = 0 /\ \A q \in Request : session'[q].before.refresh = 0
    BY <1>1, <1>3, <1>5, <2>1 DEF Ordered
  <2>5. row'.access <= provider'.issued
    BY <1>1, <1>5 DEF Ordered
  <2> QED BY <2>2, <2>3, <2>4, <2>5 DEF Ordered
<1> QED BY <1>2, <1>4, <1>5 DEF OrderInv

LEMMA OrderLoad ==
  ASSUME Inv, OrderInv, OneWriter', NEW r \in Request,
         NEW k \in {"callback", "refresh", "revoke"}, Load(r, k)
  PROVE  OrderInv'
<1>1. /\ row' = row /\ provider' = provider /\ pc[r] = "idle" /\ kind'[r] = k
      /\ session'[r].before = row /\ expiries' = expiries
      /\ pc'[r] = CASE k = "callback" -> "posting" [] k = "refresh" -> "loaded"
                     [] k = "revoke" -> "changed"
      /\ \A q \in Request \ {r} : pc'[q] = pc[q] /\ session'[q] = session[q] /\ kind'[q] = kind[q]
  BY DEF Load, Inv, TypeOK
<1>2. kind[r] = None /\ kind[r] # "refresh"
  BY <1>1, OAuthAssumption DEF OrderInv, AskedFor
<1>3. k = "revoke" => session'[r].after.access = 0
  BY ConstantRows DEF Load, Inv, TypeOK, EmptyRow
<1>4. Refreshes' = IF k = "refresh" THEN Refreshes \cup {r} ELSE Refreshes
  <2>1. \A q \in Request : q \in Refreshes' <=> q \in Refreshes \/ (k = "refresh" /\ q = r)
    BY <1>1, <1>2 DEF Refreshes
  <2> QED BY <2>1 DEF Refreshes
<1>5. IsFiniteSet(Refreshes')
  BY <1>4, FS_AddElement DEF OrderInv
<1>6. SameProcess' => SameProcess
  BY <1>4 DEF SameProcess
<1>7. \A q \in Request : AskedFor(q)'
  <2>1. AskedFor(r)'
    <3>1. k # None
      BY OAuthAssumption
    <3>2. pc'[r] \in {"posting", "loaded", "changed"} /\ (pc'[r] = "posting" => k = "callback")
          /\ (k = "refresh" => pc'[r] = "loaded")
      BY <1>1
    <3> QED BY <1>1, <1>3, <3>1, <3>2 DEF AskedFor
  <2>2. ASSUME NEW q \in Request \ {r} PROVE AskedFor(q)'
    BY <1>1 DEF OrderInv, AskedFor
  <2> QED BY <2>1, <2>2
<1>8. \A q \in Request : Granted(q)' => q # r /\ Granted(q)
  BY <1>1 DEF Granted
<1>9. ASSUME Ordered PROVE Ordered'
  <2>1. \A a, b \in Request : Granted(a)' /\ Granted(b)' /\ a # b => Below(a, b)' \/ Below(b, a)'
    BY <1>1, <1>8, <1>9 DEF Ordered, Below
  <2>2. \A q \in Request : Granted(q)' =>
           row'.access < session'[q].after.access /\ session'[q].after.access <= provider'.issued
    BY <1>1, <1>8, <1>9 DEF Ordered
  <2>3. \A q \in Request : Granted(q)' /\ kind'[q] = "callback" =>
           row'.refresh = 0 /\ \A x \in Request : session'[x].before.refresh = 0
    BY <1>1, <1>8, <1>9 DEF Ordered
  <2>4. row'.access <= provider'.issued
    BY <1>1, <1>9 DEF Ordered
  <2> QED BY <2>1, <2>2, <2>3, <2>4 DEF Ordered
<1> QED BY <1>1, <1>5, <1>6, <1>7, <1>9 DEF OrderInv

\* A grant is the newest token, and every other one is past its lease.
LEMMA OrderGrant ==
  ASSUME Inv, LeaseInv, OrderInv, TypeOK', OneWriter', NEW r \in Request,
         NEW rotate \in BOOLEAN, Grant(r, rotate)
  PROVE  OrderInv'
<1>1. /\ row' = row /\ kind' = kind /\ expiries' = expiries /\ Accepts(r)
      /\ pc[r] = "posting" /\ pc'[r] = "changed" /\ kind[r] # "revoke"
      /\ \A q \in Request \ {r} : session'[q] = session[q] /\ pc'[q] = pc[q]
  BY DEF Grant, Inv, TypeOK, StatusRead, StatusOf
<1>2. /\ session'[r].before = session[r].before
      /\ session'[r].after.access = provider.issued + 1
      /\ provider'.issued = provider.issued + 1
  BY GrantEffect
<1>3. Refreshes' = Refreshes /\ SameProcess' = SameProcess
  BY <1>1 DEF Refreshes, SameProcess
<1>4. \A q \in Request : AskedFor(q)'
  <2>1. AskedFor(r)'
    BY <1>1, <1>2 DEF OrderInv, AskedFor
  <2>2. ASSUME NEW q \in Request \ {r} PROVE AskedFor(q)'
    BY <1>1 DEF OrderInv, AskedFor
  <2> QED BY <2>1, <2>2
<1>5. /\ provider.issued \in Nat /\ row.access \in Nat
      /\ \A q \in Request : session[q].after.access \in Nat /\ session[q].before.refresh \in Nat
  BY DEF Inv, TypeOK, Row
<1>6. ASSUME Ordered, kind[r] = "callback"
      PROVE  /\ row.refresh = 0 /\ \A q \in Request : session[q].before.refresh = 0
             /\ \A q \in Request : ~Granted(q)
  <2>1. provider.issued = 0
    BY <1>1, <1>6 DEF Accepts, Inv, TokensIssued
  <2>2. row.refresh = 0 /\ \A q \in Request : session[q].before.refresh = 0
    BY <1>5, <2>1 DEF Inv, TypeOK, Row, TokensIssued
  <2>3. \A q \in Request : ~Granted(q)
    BY <1>5, <1>6, <2>1 DEF Ordered
  <2> QED BY <2>2, <2>3
<1>7. ASSUME Ordered, expiries = 0, SameProcess, NEW q \in Request \ {r}, Granted(q)
      PROVE  pc[q] = "released"
  <2>1. kind[r] = "refresh" /\ AtProvider(r) /\ session[r].before.refresh # 0
    <3>1. kind[r] # "callback" /\ kind[r] # None
      BY <1>1, <1>6, <1>7 DEF OrderInv, AskedFor
    <3>2. kind[r] \in {"callback", "refresh", "revoke", None}
      BY DEF Inv, TypeOK
    <3> QED BY <1>1, <3>1, <3>2 DEF AtProvider, OrderInv, AskedFor
  <2>2. kind[q] = "refresh"
    <3>1. kind[q] # "callback"
      BY <1>7, <2>1 DEF Ordered
    <3>2. kind[q] \in {"callback", "refresh", "revoke", None}
      BY DEF Inv, TypeOK
    <3> QED BY <1>7, <3>1, <3>2 DEF Granted, OrderInv, AskedFor
  <2>3. ~AtProvider(q)
    <3>1. ProcessOf[r] = ProcessOf[q]
      BY <1>7, <2>1, <2>2 DEF SameProcess, Refreshes
    <3> QED BY <1>7, <2>1, <3>1, OneAtProvider DEF Inv
  <2> QED BY <1>7, <2>2, <2>3 DEF AtProvider, Granted
<1>8. \A q \in Request \ {r} : Granted(q)' <=> Granted(q)
  BY <1>1 DEF Granted
<1>9. ASSUME Ordered, expiries = 0, SameProcess PROVE Ordered'
  <2>1. \A q \in Request : Granted(q)' => /\ row'.access < session'[q].after.access
                                         /\ session'[q].after.access <= provider'.issued
    <3>1. ASSUME NEW q \in Request \ {r}, Granted(q)'
          PROVE  row'.access < session'[q].after.access /\ session'[q].after.access <= provider'.issued
      BY <1>1, <1>2, <1>5, <1>8, <1>9, <3>1 DEF Ordered
    <3>2. row'.access < session'[r].after.access /\ session'[r].after.access <= provider'.issued
      BY <1>1, <1>2, <1>5, <1>9 DEF Ordered
    <3> QED BY <3>1, <3>2
  <2>2. ASSUME NEW q \in Request \ {r}, Granted(q)' PROVE Below(q, r)'
    <3>1. pc'[q] = "released" /\ session[q].after.access <= provider.issued
      BY <1>1, <1>7, <1>8, <1>9, <2>2 DEF Ordered
    <3> QED BY <1>1, <1>2, <1>5, <3>1 DEF Below
  <2>3. ASSUME NEW a \in Request, NEW b \in Request, Granted(a)', Granted(b)', a # b
        PROVE  Below(a, b)' \/ Below(b, a)'
    <3>1. CASE a = r \/ b = r
      BY <2>2, <2>3, <3>1
    <3>2. CASE a # r /\ b # r
      <4>1. Below(a, b) \/ Below(b, a)
        BY <1>8, <1>9, <2>3, <3>2 DEF Ordered
      <4> QED BY <1>1, <3>2, <4>1 DEF Below
    <3> QED BY <3>1, <3>2
  <2>4. ASSUME NEW q \in Request, Granted(q)', kind'[q] = "callback"
        PROVE  row'.refresh = 0 /\ \A x \in Request : session'[x].before.refresh = 0
    <3>1. row.refresh = 0 /\ \A x \in Request : session[x].before.refresh = 0
      BY <1>1, <1>6, <1>8, <1>9, <2>4 DEF Ordered
    <3> QED BY <1>1, <1>2, <3>1
  <2>5. row'.access <= provider'.issued
    BY <1>1, <1>2, <1>5, <1>9 DEF Ordered
  <2> QED BY <2>1, <2>3, <2>4, <2>5 DEF Ordered
<1> QED BY <1>1, <1>3, <1>4, <1>9 DEF OrderInv

\* Who commits was first: the others' tokens are newer than the row's still.
LEMMA CommitOrder ==
  ASSUME Inv, OrderInv, TypeOK', NEW r \in Request, Commit(r), Ordered
  PROVE  /\ row'.access \in {0, row.access, session[r].after.access}
         /\ Granted(r) => row'.access >= row.access
         /\ ~Granted(r) => row'.access \in {0, row.access}
         /\ \A q \in Request \ {r} : Granted(q) => row'.access < session[q].after.access
         /\ row'.access <= provider.issued
<1>1. /\ row'.access = IF session[r].after.access # session[r].before.access
                       THEN session[r].after.access ELSE row.access
      /\ pc[r] \in {"flushed", "released"}
  BY CommitEffect
<1>2. /\ provider.issued \in Nat /\ row.access \in Nat
      /\ \A q \in Request : session[q].after.access \in Nat
  BY DEF Inv, TypeOK, Row
<1>3. ~Granted(r) => session[r].after.access = 0
  BY <1>1 DEF Granted, OrderInv, AskedFor
<1>4. ASSUME NEW q \in Request \ {r}, Granted(q), Granted(r)
      PROVE  session[r].after.access < session[q].after.access
  <2>1. pc[q] # "released"
    BY <1>1 DEF OrderInv, OneWriter
  <2> QED BY <1>4, <2>1 DEF Ordered, Below
<1> QED BY <1>1, <1>2, <1>3, <1>4 DEF Ordered

LEMMA OrderCommit ==
  ASSUME Inv, OrderInv, TypeOK', OneWriter', NEW r \in Request, Commit(r)
  PROVE  OrderInv'
<1>1. /\ kind' = kind /\ provider' = provider /\ pc[r] \in {"flushed", "released"}
      /\ pc'[r] = "done" /\ session'[r] = NoSession
      /\ \A q \in Request \ {r} : pc'[q] = pc[q] /\ session'[q] = session[q]
      /\ row'.refresh = IF session[r].after.refresh # session[r].before.refresh
                        THEN session[r].after.refresh ELSE row.refresh
  BY CommitEffect
<1>2. expiries' = expiries /\ Refreshes' = Refreshes /\ SameProcess' = SameProcess
  BY <1>1 DEF Commit, Refreshes, SameProcess
<1>3. \A q \in Request : AskedFor(q)'
  <2>1. AskedFor(r)'
    BY <1>1, ConstantRows DEF OrderInv, AskedFor
  <2>2. ASSUME NEW q \in Request \ {r} PROVE AskedFor(q)'
    BY <1>1 DEF OrderInv, AskedFor
  <2> QED BY <2>1, <2>2
<1>4. \A q \in Request : Granted(q)' => q # r /\ Granted(q)
  BY <1>1 DEF Granted
<1>5. ASSUME Ordered PROVE Ordered'
  <2>1. \A a, b \in Request : Granted(a)' /\ Granted(b)' /\ a # b => Below(a, b)' \/ Below(b, a)'
    BY <1>1, <1>4, <1>5 DEF Ordered, Below
  <2>2. \A q \in Request : Granted(q)' =>
           row'.access < session'[q].after.access /\ session'[q].after.access <= provider'.issued
    BY <1>1, <1>4, <1>5, CommitOrder DEF Ordered
  <2>3. ASSUME NEW q \in Request, Granted(q)', kind'[q] = "callback"
        PROVE  row'.refresh = 0 /\ \A x \in Request : session'[x].before.refresh = 0
    <3>1. row.refresh = 0 /\ \A x \in Request : session[x].before.refresh = 0
      BY <1>1, <1>4, <1>5, <2>3 DEF Ordered
    <3>2. kind[r] # "refresh"
      BY <1>1, <3>1 DEF OrderInv, AskedFor
    <3>3. q # r /\ Granted(q) /\ kind[q] = "callback"
      BY <1>1, <1>4, <2>3
    <3>4. row'.refresh = 0
      <4>1. CASE kind[r] = "revoke"
        BY <1>1, <3>1, <4>1 DEF Inv, StatusRead, StatusOf
      <4>2. CASE kind[r] # "revoke"
        <5>1. Granted(r) /\ pc[r] = "flushed"
          BY <1>1, <3>2, <4>2 DEF Granted, Commit
        <5>2. pc[q] = "released"
          BY <1>5, <3>3, <5>1 DEF Ordered, Below
        <5> QED BY <3>3, <5>1, <5>2 DEF OrderInv, OneWriter
      <4> QED BY <4>1, <4>2
    <3>5. \A x \in Request : session'[x].before.refresh = 0
      BY <1>1, <3>1, ConstantRows
    <3> QED BY <3>4, <3>5
  <2>4. row'.access <= provider'.issued
    BY <1>1, <1>5, CommitOrder
  <2> QED BY <2>1, <2>2, <2>3, <2>4 DEF Ordered
<1> QED BY <1>1, <1>2, <1>3, <1>5 DEF OrderInv
LEMMA OrderInit == Init => OrderInv
<1> SUFFICES ASSUME Init PROVE OrderInv
  OBVIOUS
<1>1. /\ row.access = provider.issued /\ provider.issued \in Nat
      /\ \A r \in Request : kind[r] = None /\ pc[r] = "idle"
  BY DEF Init
<1>2. None # "refresh" /\ None # "revoke"
  BY OAuthAssumption
<1>3. Refreshes = {}
  BY <1>1, <1>2 DEF Refreshes
<1>4. IsFiniteSet(Refreshes)
  BY <1>3, FS_EmptySet
<1>5. \A r \in Request : ~Granted(r)
  BY <1>1 DEF Granted
<1>6. Ordered
  BY <1>1, <1>5 DEF Ordered
<1>7. OneWriter /\ \A r \in Request : AskedFor(r)
  BY <1>1, <1>2 DEF OneWriter, AskedFor
<1> QED BY <1>4, <1>6, <1>7 DEF OrderInv

LEMMA OrderStep == Inv /\ LeaseInv /\ OrderInv /\ [Next]_vars => OrderInv'
<1> SUFFICES ASSUME Inv, LeaseInv, OrderInv, [Next]_vars PROVE OrderInv'
  OBVIOUS
<1>1. TypeOK' /\ OneWriter'
  BY TypeStep, WriterStep DEF Inv, OrderInv
<1>2. expiries' = 0 => expiries = 0
  BY ExpiriesGrow DEF Inv
<1> QED BY <1>1, <1>2, StepKinds, OrderQuiet, OrderLoad, OrderGrant, OrderCommit DEF Inv

\* If the refreshes are served by at most one process, they are all of the same process.
LEMMA ServedByOne ==
  ASSUME IsFiniteSet(Refreshes), ~(Cardinality({ProcessOf[r] : r \in Refreshes}) > 1)
  PROVE  SameProcess
<1> DEFINE P == {ProcessOf[r] : r \in Refreshes}
           f == [r \in Refreshes |-> ProcessOf[r]]
<1>1. f \in Surjection(Refreshes, P)
  BY DEF Surjection
<1>2. IsFiniteSet(P) /\ Cardinality(P) \in Nat
  BY <1>1, FS_Surjection, FS_CardinalityType
<1>3. \A r \in Refreshes : ProcessOf[r] \in P
  OBVIOUS
<1>4. Cardinality(P) <= 1
  BY <1>2
<1> HIDE DEF P
<1> QED BY <1>2, <1>3, <1>4, AtMostOne DEF SameProcess

\* In one process and with no expired lease, an older access token never replaces a newer
\* one, although the lease is released before the commit.
THEOREM NewestTokenKept == Spec => NewestAccessKept
<1>1. Inv /\ OrderInv /\ [Next]_vars =>
        [ \/ expiries > 0
          \/ Cardinality({ProcessOf[r] : r \in {q \in Request : kind[q] = "refresh"}}) > 1
          \/ row'.access = 0
          \/ row'.access >= row.access ]_vars
  <2> SUFFICES ASSUME Inv, OrderInv, [Next]_vars, ~(expiries > 0),
                      ~(Cardinality({ProcessOf[r] : r \in Refreshes}) > 1), row'.access # 0
               PROVE  row'.access >= row.access
    BY DEF Refreshes
  <2>1. TypeOK' /\ row.access \in Nat
    BY TypeStep DEF Inv, TypeOK, Row
  <2>2. expiries = 0 /\ SameProcess
    <3>1. expiries = 0
      BY ExpiriesGrow DEF Inv
    <3> QED BY <3>1, ServedByOne DEF OrderInv
  <2>3. ASSUME NEW r \in Request, Commit(r) PROVE row'.access >= row.access
    BY <2>1, <2>2, <2>3, CommitOrder DEF OrderInv
  <2>4. CASE row' = row
    BY <2>1, <2>4
  <2> QED BY <2>3, <2>4, StepKinds DEF Inv, Quiet, Load, Grant
<1> QED BY <1>1, LeaseInit, LeaseStep, OrderInit, OrderStep, Safe, PTL DEF Spec, NewestAccessKept

=============================================================================
