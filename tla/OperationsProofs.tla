--------------------------- MODULE OperationsProofs ---------------------------
(***************************************************************************)
(* Proofs about the token a request of the API passes with, about the      *)
(* partitions the retention reconciler drops, about the rules that a start *)
(* of the collector upgrades, about the requests the rate limiter lets     *)
(* through and about what the response cache holds.  The five share no     *)
(* variable; each has an inductive invariant of its own.                   *)
(***************************************************************************)
EXTENDS ApiGate, Retention, AlertRules, RateLimiter, ResponseCache, FiniteSetTheorems, TLAPS

-----------------------------------------------------------------------------
(* The token of ApiGate: its inductive invariant. *)

Token == [created : BOOLEAN, revoked : BOOLEAN, expiresAt : Nat, lastUsedAt : Nat]
Mutation == [kind : {"revoke"}, by : Conns, ts : {0}] \cup [kind : {"touch"}, by : {"goroutine"}, ts : Nat]
Connection == [step : {"lookup", "usable", "gate", "wait"}, method : {"GET", "POST", "DELETE"},
               cred : {"admin", "viewer", "token"}, csrf : BOOLEAN, record : Token, late : BOOLEAN]

\* The variables the argument depends on; the clock only as far as a row stores it.
GateTypeOK ==
  /\ tokenRow \in Token
  /\ mutations \in Seq(Mutation)
  /\ now \in Nat /\ touches \subseteq Nat
  /\ conn \in [Conns -> Connection \cup {Unused}]
  /\ confirmed \in BOOLEAN

\* A revocation by c is in the queue.
Revoking(c) == \E i \in DOMAIN mutations : mutations[i].kind = "revoke" /\ mutations[i].by = c

\* Nobody can revoke the token before it exists, so its creation undoes no revocation.
CreatedFirst ==
  /\ tokenRow.revoked => tokenRow.created
  /\ \A c \in Conns : Revoking(c) => tokenRow.created
  /\ \A c \in Conns : conn[c] # Unused /\ conn[c].method = "DELETE" => tokenRow.created

\* A handler that waits is one that revokes, and its mutation is queued until it is applied.
WaitsForItsMutation ==
  \A c \in Conns : conn[c].step = "wait" =>
    conn[c].method = "DELETE" /\ (tokenRow.revoked \/ Revoking(c))

GateInv == GateTypeOK /\ CreatedFirst /\ WaitsForItsMutation /\ RevokedIsDead

\* At first there is no token and no request.
LEMMA GateInitially == AGInit => GateInv
<1> SUFFICES ASSUME AGInit PROVE GateInv
  OBVIOUS
<1>1. tokenRow = NoToken /\ mutations = <<>> /\ now = 1 /\ touches = {} /\ confirmed = FALSE
  BY DEF AGInit
<1>2. \A c \in Conns : conn[c] = Unused /\ conn[c].step = "none"
  BY DEF AGInit, Unused
<1>3. conn \in [Conns -> Connection \cup {Unused}] /\ trail = {}
  BY DEF AGInit
<1>4. \A c \in Conns : ~Revoking(c)
  BY <1>1 DEF Revoking
<1>5. NoToken \in Token /\ ~NoToken.revoked
  BY DEF NoToken, Token
<1>6. GateTypeOK
  <2>1. tokenRow \in Token /\ confirmed \in BOOLEAN
    BY <1>1, <1>5
  <2>2. mutations \in Seq(Mutation)
    BY <1>1
  <2>3. now \in Nat /\ touches \subseteq Nat
    BY <1>1
  <2> QED
    BY <1>3, <2>1, <2>2, <2>3 DEF GateTypeOK
<1>7. CreatedFirst /\ WaitsForItsMutation
  BY <1>1, <1>2, <1>4, <1>5 DEF CreatedFirst, WaitsForItsMutation
<1>8. RevokedIsDead
  BY <1>1, <1>2, <1>3 DEF RevokedIsDead
<1> QED
  BY <1>6, <1>7, <1>8 DEF GateInv

\* The oldest mutation of the queue.
LEMMA Oldest ==
  ASSUME GateInv, ApplyMutation
  PROVE  /\ Len(mutations) \in Nat \ {0} /\ DOMAIN mutations = 1..Len(mutations)
         /\ Head(mutations) = mutations[1] /\ Head(mutations) \in Mutation
         /\ mutations' \in Seq(Mutation) /\ DOMAIN mutations' = 1..(Len(mutations) - 1)
         /\ \A i \in 1..(Len(mutations) - 1) : mutations'[i] = mutations[i + 1]
         /\ tokenRow' = Mutated(tokenRow, Head(mutations))
<1>1. mutations # <<>> /\ mutations' = Tail(mutations) /\ tokenRow' = Mutated(tokenRow, Head(mutations))
  BY DEF ApplyMutation
<1>2. mutations \in Seq(Mutation)
  BY DEF GateInv, GateTypeOK
<1> QED
  BY <1>1, <1>2

\* What the statements do to a row.
LEMMA MutatedRow ==
  ASSUME NEW row \in Token, NEW m \in Mutation
  PROVE  /\ Mutated(row, m) \in Token
         /\ Mutated(row, m).created = row.created
         /\ Mutated(row, m).revoked = (row.revoked \/ m.kind = "revoke")
BY DEF Mutated, Token, Mutation

\* The row of a new token.
LEMMA NewRow ==
  ASSUME now \in Nat, NEW days \in Nat
  PROVE  CreateAPIToken(days) \in Token /\ CreateAPIToken(days).created /\ ~CreateAPIToken(days).revoked
<1> DEFINE exp == IF days = 0 THEN 0 ELSE now + days
<1>1. exp \in Nat
  OBVIOUS
<1> HIDE DEF exp
<1>2. CreateAPIToken(days) = [NoToken EXCEPT !.created = TRUE, !.expiresAt = exp]
  BY Zenon DEF CreateAPIToken, exp
<1>3. NoToken \in Token /\ ~NoToken.revoked
  BY DEF Token, NoToken
<1> QED
  BY <1>1, <1>2, <1>3 DEF Token

\* What a step does to the row: it never forgets its creation, nor a revocation once it exists.
LEMMA RowStep ==
  ASSUME GateInv, AGNext
  PROVE  /\ tokenRow' \in Token /\ mutations' \in Seq(Mutation)
         /\ tokenRow.created => tokenRow'.created
         /\ tokenRow.revoked => tokenRow'.revoked
         /\ tokenRow'.revoked => tokenRow'.created
<1>0. /\ tokenRow \in Token /\ mutations \in Seq(Mutation) /\ now \in Nat /\ touches \subseteq Nat
      /\ CreatedFirst
  BY DEF GateInv, GateTypeOK
<1>1. CASE ApplyMutation
  <2>1. Head(mutations) \in Mutation /\ Head(mutations) = mutations[1] /\ 1 \in DOMAIN mutations
    BY <1>1, Oldest
  <2>2. Head(mutations).kind = "revoke" => Head(mutations).by \in Conns
    BY <2>1 DEF Mutation
  <2>3. Head(mutations).kind = "revoke" => tokenRow.created
    BY <1>0, <2>1, <2>2 DEF CreatedFirst, Revoking
  <2>4. tokenRow' = Mutated(tokenRow, Head(mutations)) /\ mutations' \in Seq(Mutation)
    BY <1>1, Oldest
  <2> QED
    BY <1>0, <2>1, <2>3, <2>4, MutatedRow DEF CreatedFirst
<1>2. ASSUME NEW c \in Conns, NEW days \in Lifetimes, CreateToken(c, days)
      PROVE  /\ tokenRow' \in Token /\ mutations' = mutations
             /\ tokenRow' = tokenRow \/ (~tokenRow.created /\ tokenRow'.created /\ ~tokenRow'.revoked)
  BY <1>0, <1>2, GateAssumption, NewRow DEF CreateToken
<1>3. ASSUME NEW c \in Conns, RevokeToken(c)
      PROVE  mutations' \in Seq(Mutation) /\ tokenRow' = tokenRow
  <2>1. [kind |-> "revoke", by |-> c, ts |-> 0] \in Mutation
    BY DEF Mutation
  <2> QED
    BY <1>0, <1>3, <2>1 DEF RevokeToken, Mutate
<1>4. ASSUME TouchAPIToken
      PROVE  mutations' \in Seq(Mutation) /\ tokenRow' = tokenRow
  <2>1. \A ts \in touches : [kind |-> "touch", by |-> "goroutine", ts |-> ts] \in Mutation
    BY <1>0 DEF Mutation
  <2> QED
    BY <1>0, <1>4, <2>1 DEF TouchAPIToken, Mutate
<1>5. CASE TimePasses
  BY <1>0, <1>5 DEF TimePasses, CreatedFirst
<1>6. ASSUME NEW c \in Conns,
             \/ \E r \in Requests : AuthMiddleware(c, r)
             \/ LookupAPIToken(c) \/ Authenticate(c) \/ Answer(c)
             \/ RevokeConfirmed(c) \/ RevokeTimesOut(c)
      PROVE  UNCHANGED <<tokenRow, mutations>>
  BY <1>6 DEF AuthMiddleware, LookupAPIToken, Authenticate, Answer, RevokeConfirmed, RevokeTimesOut
<1>7. (tokenRow.revoked => tokenRow.created) /\ tokenRow \in Token
  BY <1>0 DEF CreatedFirst
<1> QED
  BY <1>0, <1>1, <1>2, <1>3, <1>4, <1>5, <1>6, <1>7 DEF AGNext

\* A queued revocation stays in the queue until it is applied, and the only new ones are those of RevokeToken.
LEMMA QueueStep ==
  ASSUME GateInv, AGNext, NEW c \in Conns
  PROVE  /\ Revoking(c) => Revoking(c)' \/ tokenRow'.revoked
         /\ Revoking(c)' => Revoking(c) \/ RevokeToken(c)
<1> USE DEF GateInv, GateTypeOK
<1>1. CASE ApplyMutation
  <2>1. /\ Len(mutations) \in Nat \ {0} /\ DOMAIN mutations = 1..Len(mutations)
        /\ Head(mutations) = mutations[1] /\ Head(mutations) \in Mutation
        /\ DOMAIN mutations' = 1..(Len(mutations) - 1)
        /\ \A i \in 1..(Len(mutations) - 1) : mutations'[i] = mutations[i + 1]
        /\ tokenRow' = Mutated(tokenRow, Head(mutations))
    BY <1>1, Oldest
  <2>2. Revoking(c) => Revoking(c)' \/ tokenRow'.revoked
    <3> SUFFICES ASSUME Revoking(c) PROVE Revoking(c)' \/ tokenRow'.revoked
      OBVIOUS
    <3>1. PICK i \in 1..Len(mutations) : mutations[i].kind = "revoke" /\ mutations[i].by = c
      BY <2>1 DEF Revoking
    <3>2. CASE i = 1
      <4>1. tokenRow \in Token /\ Head(mutations).kind = "revoke"
        BY <2>1, <3>1, <3>2
      <4> QED
        BY <2>1, <4>1, MutatedRow
    <3>3. CASE i # 1
      <4>1. i - 1 \in 1..(Len(mutations) - 1) /\ mutations'[i - 1] = mutations[i]
        BY <2>1, <3>3
      <4> QED
        BY <2>1, <3>1, <4>1 DEF Revoking
    <3> QED
      BY <3>2, <3>3
  <2>3. Revoking(c)' => Revoking(c)
    <3> SUFFICES ASSUME Revoking(c)' PROVE Revoking(c)
      OBVIOUS
    <3>1. PICK i \in 1..(Len(mutations) - 1) : mutations'[i].kind = "revoke" /\ mutations'[i].by = c
      BY <2>1 DEF Revoking
    <3>2. i + 1 \in DOMAIN mutations /\ mutations'[i] = mutations[i + 1]
      BY <2>1
    <3> QED
      BY <3>1, <3>2 DEF Revoking
  <2> QED
    BY <2>2, <2>3
<1>2. ASSUME NEW d \in Conns, RevokeToken(d)
      PROVE  Revoking(c) => Revoking(c)'
  BY <1>2 DEF RevokeToken, Mutate, Revoking
<1>3. ASSUME NEW d \in Conns, RevokeToken(d), Revoking(c)', ~Revoking(c)
      PROVE  d = c
  <2>1. mutations' = Append(mutations, [kind |-> "revoke", by |-> d, ts |-> 0])
    BY <1>3 DEF RevokeToken, Mutate, Revoking
  <2> QED
    BY <1>3, <2>1 DEF Revoking
<1>4. CASE TouchAPIToken
  <2>1. CASE mutations' = mutations
    BY <2>1 DEF Revoking
  <2>2. ASSUME NEW ts \in touches, mutations' = Append(mutations, [kind |-> "touch", by |-> "goroutine", ts |-> ts])
        PROVE  Revoking(c) <=> Revoking(c)'
    BY <2>2 DEF Revoking
  <2> QED
    BY <1>4, <2>1, <2>2 DEF TouchAPIToken, Mutate
<1>5. mutations' = mutations => (Revoking(c) <=> Revoking(c)')
  BY DEF Revoking
<1>6. CASE TimePasses
  BY <1>5, <1>6 DEF TimePasses
<1>7. ASSUME NEW d \in Conns,
             \/ \E r \in Requests : AuthMiddleware(d, r)
             \/ LookupAPIToken(d) \/ Authenticate(d) \/ Answer(d)
             \/ \E days \in Lifetimes : CreateToken(d, days)
             \/ RevokeConfirmed(d) \/ RevokeTimesOut(d)
      PROVE  mutations' = mutations
  BY <1>7 DEF AuthMiddleware, LookupAPIToken, Authenticate, Answer, CreateToken, RevokeConfirmed, RevokeTimesOut
<1> QED
  BY <1>1, <1>2, <1>3, <1>4, <1>5, <1>6, <1>7 DEF AGNext

\* What the invariant says of one request.
RequestOK(c) ==
  /\ conn[c] \in Connection \cup {Unused}
  /\ conn[c] # Unused /\ conn[c].method = "DELETE" => tokenRow.created
  /\ conn[c].step = "wait" => conn[c].method = "DELETE" /\ (tokenRow.revoked \/ Revoking(c))
  /\ conn[c].step \in {"usable", "gate"} => ~conn[c].late

\* The requests under way, from the invariant.
LEMMA AllRequestsOK ==
  ASSUME GateInv
  PROVE  conn \in [Conns -> Connection \cup {Unused}] /\ \A c \in Conns : RequestOK(c)
BY DEF GateInv, GateTypeOK, CreatedFirst, WaitsForItsMutation, RevokedIsDead, RequestOK

\* A request that did not move is as good as before, whatever the others did.
LEMMA OthersStay ==
  ASSUME GateInv, AGNext, NEW c \in Conns, conn'[c] = conn[c]
  PROVE  RequestOK(c)'
BY AllRequestsOK, RowStep, QueueStep DEF RequestOK

\* Every step that moves a request leaves it as the invariant says.
LEMMA RequestMoves ==
  ASSUME GateInv, AGNext, NEW c \in Conns, NEW v, conn' = [conn EXCEPT ![c] = v],
         v \in Connection \cup {Unused},
         v # Unused /\ v.method = "DELETE" => tokenRow.created,
         v.step = "wait" => v.method = "DELETE" /\ (tokenRow.revoked \/ Revoking(c)'),
         v.step \in {"usable", "gate"} => ~v.late
  PROVE  conn' \in [Conns -> Connection \cup {Unused}] /\ \A d \in Conns : RequestOK(d)'
<1>1. conn \in [Conns -> Connection \cup {Unused}]
  BY AllRequestsOK
<1>2. conn'[c] = v /\ \A d \in Conns \ {c} : conn'[d] = conn[d]
  BY <1>1
<1>3. tokenRow.created => tokenRow'.created
  BY RowStep
<1>4. tokenRow.revoked => tokenRow'.revoked
  BY RowStep
<1>5. RequestOK(c)'
  BY <1>2, <1>3, <1>4 DEF RequestOK
<1>6. \A d \in Conns \ {c} : RequestOK(d)'
  BY <1>2, OthersStay
<1> QED
  BY <1>1, <1>5, <1>6

\* A request that ends.
LEMMA RequestEnds ==
  ASSUME GateInv, AGNext, NEW c \in Conns, Ends(c)
  PROVE  conn' \in [Conns -> Connection \cup {Unused}] /\ \A d \in Conns : RequestOK(d)'
<1>1. Unused.step = "none"
  BY DEF Unused
<1> QED
  BY <1>1, RequestMoves DEF Ends

\* Every step leaves the requests as the invariant says.
LEMMA RequestStep ==
  ASSUME GateInv, AGNext
  PROVE  conn' \in [Conns -> Connection \cup {Unused}] /\ \A c \in Conns : RequestOK(c)'
<1>0. /\ conn \in [Conns -> Connection \cup {Unused}] /\ \A c \in Conns : RequestOK(c)
      /\ tokenRow \in Token /\ confirmed \in BOOLEAN /\ (confirmed => tokenRow.revoked)
  BY AllRequestsOK DEF GateInv, GateTypeOK, RevokedIsDead
<1>1. CASE conn' = conn
  BY <1>0, <1>1, OthersStay
<1>2. CASE TimePasses \/ TouchAPIToken \/ ApplyMutation
  BY <1>1, <1>2 DEF TimePasses, TouchAPIToken, ApplyMutation
<1>3. ASSUME NEW c \in Conns, NEW r \in Requests, AuthMiddleware(c, r)
      PROVE  conn' \in [Conns -> Connection \cup {Unused}] /\ \A d \in Conns : RequestOK(d)'
  <2> DEFINE v == [step |-> IF r.cred = "token" THEN "lookup" ELSE "gate",
                   method |-> r.method, cred |-> r.cred, csrf |-> r.csrf,
                   record |-> NoToken, late |-> FALSE]
  <2>1. conn' = [conn EXCEPT ![c] = v] /\ (r.method = "DELETE" => tokenRow.created)
    BY <1>3 DEF AuthMiddleware
  <2>2. NoToken \in Token
    BY DEF NoToken, Token
  <2>3. v \in Connection /\ v.step \in {"lookup", "gate"} /\ v.late = FALSE /\ v.method = r.method
    BY <2>2 DEF Connection, Requests
  <2> HIDE DEF v
  <2> QED
    BY <1>3, <2>1, <2>3, RequestMoves
<1>4. ASSUME NEW c \in Conns, LookupAPIToken(c), ~Ends(c)
      PROVE  conn' \in [Conns -> Connection \cup {Unused}] /\ \A d \in Conns : RequestOK(d)'
  <2> DEFINE v == [conn[c] EXCEPT !.step = "usable", !.record = tokenRow, !.late = confirmed]
  <2>1. conn[c].step = "lookup" /\ ~tokenRow.revoked
        /\ conn' = [conn EXCEPT ![c].step = "usable", ![c].record = tokenRow, ![c].late = confirmed]
    BY <1>4 DEF LookupAPIToken, InSQL
  <2>2. conn' = [conn EXCEPT ![c] = v]
    BY <1>0, <2>1
  <2>3. conn[c] \in Connection
    BY <1>0, <2>1 DEF RequestOK, Unused
  <2>4. v \in Connection /\ v.step = "usable" /\ v.late = confirmed /\ v.method = conn[c].method
    BY <1>0, <2>3 DEF Connection
  <2>5. ~confirmed /\ (conn[c].method = "DELETE" => tokenRow.created)
    BY <1>0, <2>1, <2>3 DEF RequestOK, Unused
  <2> HIDE DEF v
  <2> QED
    BY <1>4, <2>2, <2>4, <2>5, RequestMoves
<1>5. ASSUME NEW c \in Conns, NEW s \in {"gate", "wait"}, Goes(c, s),
             conn[c].step \in {"usable", "gate"},
             s = "wait" => conn[c].method = "DELETE" /\ Revoking(c)'
      PROVE  conn' \in [Conns -> Connection \cup {Unused}] /\ \A d \in Conns : RequestOK(d)'
  <2> DEFINE v == [conn[c] EXCEPT !.step = s]
  <2>1. conn' = [conn EXCEPT ![c] = v]
    BY <1>0, <1>5 DEF Goes
  <2>2. conn[c] \in Connection /\ ~conn[c].late
    BY <1>0, <1>5 DEF RequestOK, Unused
  <2>3. v \in Connection /\ v.step = s /\ v.late = conn[c].late /\ v.method = conn[c].method
    BY <2>2 DEF Connection
  <2>4. conn[c].method = "DELETE" => tokenRow.created
    BY <1>0, <1>5 DEF RequestOK, Unused
  <2> HIDE DEF v
  <2> QED
    BY <1>5, <2>1, <2>2, <2>3, <2>4, RequestMoves
<1>6. ASSUME NEW c \in Conns, RevokeToken(c), ~Ends(c)
      PROVE  Goes(c, "wait") /\ conn[c].step = "gate" /\ conn[c].method = "DELETE" /\ Revoking(c)'
  <2>1. mutations' = Append(mutations, [kind |-> "revoke", by |-> c, ts |-> 0])
    BY <1>6 DEF RevokeToken, Mutate
  <2>2. mutations \in Seq(Mutation)
    BY DEF GateInv, GateTypeOK
  <2>3. Revoking(c)'
    BY <2>1, <2>2 DEF Revoking
  <2> QED
    BY <1>6, <2>3 DEF RevokeToken
<1>7. ASSUME NEW c \in Conns, Authenticate(c), ~Ends(c)
      PROVE  Goes(c, "gate") /\ conn[c].step = "usable"
  BY <1>7 DEF Authenticate
<1>8. ASSUME NEW c \in Conns,
             \/ Answer(c) \/ (\E days \in Lifetimes : CreateToken(c, days))
             \/ RevokeConfirmed(c) \/ RevokeTimesOut(c)
      PROVE  Ends(c)
  BY <1>8 DEF Answer, CreateToken, RevokeConfirmed, RevokeTimesOut
<1> QED
  BY <1>2, <1>3, <1>4, <1>5, <1>6, <1>7, <1>8, RequestEnds DEF AGNext

\* What a step reports, and when: a success is one that waited for its mutation to land.
LEMMA ReportStep ==
  ASSUME GateInv, AGNext
  PROVE  /\ confirmed' \in BOOLEAN
         /\ confirmed' => tokenRow'.revoked
         /\ [action |-> "token_revoke", result |-> "success"] \in trail' => tokenRow'.revoked
<1> DEFINE success == [action |-> "token_revoke", result |-> "success"]
<1>0. /\ confirmed \in BOOLEAN /\ (confirmed => tokenRow.revoked) /\ (success \in trail => tokenRow.revoked)
      /\ (tokenRow.revoked => tokenRow'.revoked)
  BY RowStep DEF GateInv, GateTypeOK, RevokedIsDead
<1>1. ASSUME NEW c \in Conns, RevokeConfirmed(c)
      PROVE  tokenRow.revoked /\ confirmed' = TRUE
  <2>1. conn[c].step = "wait" /\ Landed(c) /\ confirmed' = TRUE
    BY <1>1 DEF RevokeConfirmed
  <2>2. ~Revoking(c)
    BY <2>1 DEF Landed, Revoking
  <2> QED
    BY <2>1, <2>2, AllRequestsOK DEF RequestOK
<1>2. ASSUME NEW c \in Conns, RevokeTimesOut(c) \/ RevokeToken(c) \/ Answer(c)
      PROVE  confirmed' = confirmed /\ (success \in trail' => success \in trail)
  <2>1. \A result : \A r : result # "success" =>
          success # [action |-> Action(r), result |-> result]
    OBVIOUS
  <2> HIDE DEF success
  <2> QED
    BY <1>2, <2>1 DEF RevokeTimesOut, RevokeToken, Answer, Audit
<1>3. ASSUME NEW c \in Conns, NEW days \in Lifetimes, CreateToken(c, days)
      PROVE  confirmed' = confirmed /\ (success \in trail' => success \in trail)
  <2>1. \A result : success # [action |-> "token_create", result |-> result]
    OBVIOUS
  <2>2. Action(conn[c]) = "token_create"
    BY <1>3 DEF CreateToken, Action
  <2> HIDE DEF success
  <2> QED
    BY <1>3, <2>1, <2>2 DEF CreateToken, Audit
<1>4. CASE TimePasses \/ TouchAPIToken \/ ApplyMutation
  BY <1>0, <1>4 DEF TimePasses, TouchAPIToken, ApplyMutation
<1>5. ASSUME NEW c \in Conns,
             \/ \E r \in Requests : AuthMiddleware(c, r)
             \/ LookupAPIToken(c) \/ Authenticate(c)
      PROVE  confirmed' = confirmed /\ trail' = trail
  BY <1>5 DEF AuthMiddleware, LookupAPIToken, Authenticate
<1> HIDE DEF success
<1> QED
  BY <1>0, <1>1, <1>2, <1>3, <1>4, <1>5 DEF AGNext, success

\* The clock and the touches that are under way are natural numbers.
LEMMA ClockStep ==
  ASSUME GateInv, AGNext
  PROVE  now' \in Nat /\ touches' \subseteq Nat
<1>0. now \in Nat /\ touches \subseteq Nat
  BY DEF GateInv, GateTypeOK
<1>1. CASE TimePasses
  BY <1>0, <1>1 DEF TimePasses
<1>2. CASE TouchAPIToken
  BY <1>0, <1>2 DEF TouchAPIToken
<1>3. CASE ApplyMutation
  BY <1>0, <1>3 DEF ApplyMutation
<1>4. ASSUME NEW c \in Conns, Authenticate(c)
      PROVE  now' = now /\ touches' \subseteq touches \cup {now}
  BY <1>4 DEF Authenticate, scheduleTouch
<1>5. ASSUME NEW c \in Conns,
             \/ \E r \in Requests : AuthMiddleware(c, r)
             \/ LookupAPIToken(c) \/ Answer(c)
             \/ (\E days \in Lifetimes : CreateToken(c, days))
             \/ RevokeToken(c) \/ RevokeConfirmed(c) \/ RevokeTimesOut(c)
      PROVE  now' = now /\ touches' = touches
  BY <1>5 DEF AuthMiddleware, LookupAPIToken, Answer, CreateToken, RevokeToken, RevokeConfirmed, RevokeTimesOut
<1> QED
  BY <1>0, <1>1, <1>2, <1>3, <1>4, <1>5 DEF AGNext

\* Every step keeps the invariant.
LEMMA GateStep == GateInv /\ [AGNext]_agVars => GateInv'
<1>1. ASSUME GateInv, AGNext PROVE GateInv'
  <2>1. GateTypeOK'
    BY <1>1, RowStep, RequestStep, ReportStep, ClockStep DEF GateTypeOK
  <2>2. \A c \in Conns : Revoking(c)' => tokenRow'.created
    <3> SUFFICES ASSUME NEW c \in Conns, Revoking(c)' PROVE tokenRow'.created
      OBVIOUS
    <3>1. CASE Revoking(c)
      BY <1>1, <3>1, RowStep DEF GateInv, CreatedFirst
    <3>2. CASE RevokeToken(c)
      <4>1. conn[c].step = "gate" /\ conn[c].method = "DELETE"
        BY <3>2 DEF RevokeToken
      <4>2. tokenRow.created
        BY <1>1, <4>1, AllRequestsOK DEF RequestOK, Unused
      <4> QED
        BY <1>1, <4>2, RowStep
    <3> QED
      BY <1>1, <3>1, <3>2, QueueStep
  <2>3. CreatedFirst'
    BY <1>1, <2>2, RowStep, RequestStep DEF CreatedFirst, RequestOK
  <2>4. WaitsForItsMutation'
    BY <1>1, RequestStep DEF WaitsForItsMutation, RequestOK
  <2>5. RevokedIsDead'
    BY <1>1, RequestStep, ReportStep DEF RevokedIsDead, RequestOK
  <2> QED
    BY <2>1, <2>3, <2>4, <2>5 DEF GateInv
<1>2. ASSUME GateInv, UNCHANGED agVars PROVE GateInv'
  <2> USE <1>2 DEF agVars
  <2>1. GateTypeOK'
    BY DEF GateInv, GateTypeOK
  <2>2. \A c \in Conns : Revoking(c)' <=> Revoking(c)
    BY DEF Revoking
  <2>3. CreatedFirst' /\ WaitsForItsMutation'
    BY <2>2 DEF GateInv, CreatedFirst, WaitsForItsMutation
  <2>4. RevokedIsDead'
    BY DEF GateInv, RevokedIsDead
  <2> QED
    BY <2>1, <2>3, <2>4 DEF GateInv
<1> QED
  BY <1>1, <1>2

(* A token whose revocation was answered with 204 is never accepted again: *)
(* RevokeToken answers after its mutation was applied, no touch and no     *)
(* creation takes the revocation back, and LookupAPIToken reads the row.   *)
THEOREM RevokedTokensStayDead == AGSpec => []RevokedIsDead
<1>1. GateInv => RevokedIsDead
  BY DEF GateInv
<1> QED
  BY <1>1, GateInitially, GateStep, PTL DEF AGSpec

-----------------------------------------------------------------------------
(* The reconciler of Retention: its inductive invariant. *)

Policy == [days : Int, cold : Int, enabled : BOOLEAN]
Volumes == {"default", "tiered", "unknown"}
Sweeping == {"listExpired", "drop", "listCold", "move"}

RetentionTypeOK ==
  /\ policies \in [Leaders -> Policy] /\ listed \in [Leaders -> Policy]
  /\ ttl \in [Managed -> [days : Int, cold : Int]]
  /\ partitions \in [Managed -> SUBSET [at : Int, cold : BOOLEAN]]
  /\ storage \in [Managed -> Volumes]
  /\ day \in Int
  /\ seeding \in [step : {"read", "seed", "done"}, missing : SUBSET Leaders, live : [Managed -> Int]]
  /\ cycle \in [step : {"idle", "table"} \cup Sweeping, todo : SUBSET Managed,
                table : Managed \cup {"none"}, cold : Int, list : SUBSET Int, storage : [Managed -> Volumes]]
  /\ request \in [table : Leaders, days : Int, cold : Int, enabled : BOOLEAN] \cup {NoRequest}

\* The tables a cycle visits have an enabled policy, as the cycle read it.
VisitsEnabled ==
  /\ \A t \in cycle.todo : listed[leaderOf(t)].enabled
  /\ cycle.step \in Sweeping => cycle.table \in Managed /\ listed[leaderOf(cycle.table)].enabled

\* What is about to be dropped was expired by that policy when it was listed, and still is.
DropsExpired ==
  cycle.step = "drop" => \A d \in cycle.list : d + listed[leaderOf(cycle.table)].days + Grace < day

RetentionInv == RetentionTypeOK /\ VisitsEnabled /\ DropsExpired

\* The policy a table follows is one of the stored ones.
LEMMA LeaderType == \A t \in Managed : leaderOf(t) \in Leaders
BY RetentionAssumption DEF leaderOf, Managed

\* The first start: default policies, no cycle.
LEMMA RetentionInitially == RTInit => RetentionInv
<1> SUFFICES ASSUME RTInit PROVE RetentionInv
  OBVIOUS
<1>1. \A t \in Managed : DefaultDays[t] \in Int
  BY RetentionAssumption
<1>2. FirstDay \in Nat
  BY RetentionAssumption
<1>3. partitions \in [Managed -> SUBSET [at : Int, cold : BOOLEAN]]
  <2>1. {[at |-> d, cold |-> FALSE] : d \in 1..FirstDay} \in SUBSET [at : Int, cold : BOOLEAN]
    <3>1. ASSUME NEW d \in 1..FirstDay PROVE [at |-> d, cold |-> FALSE] \in [at : Int, cold : BOOLEAN]
      BY <1>2
    <3> QED
      BY <3>1, Zenon
  <2> QED
    BY <2>1 DEF RTInit
<1>4. /\ cycle.step = "idle" /\ cycle.todo = {}
      /\ cycle \in [step : {"idle", "table"} \cup Sweeping, todo : SUBSET Managed,
                    table : Managed \cup {"none"}, cold : Int, list : SUBSET Int,
                    storage : [Managed -> Volumes]]
  <2>1. [t \in Managed |-> "default"] \in [Managed -> Volumes]
    BY DEF Volumes
  <2> QED
    BY <2>1 DEF RTInit
<1>5. seeding \in [step : {"read", "seed", "done"}, missing : SUBSET Leaders, live : [Managed -> Int]]
  BY DEF RTInit
<1>6. policies \in [Leaders -> Policy] /\ listed \in [Leaders -> Policy]
  BY DEF RTInit, NoPolicy, Policy
<1>7. ttl \in [Managed -> [days : Int, cold : Int]] /\ storage \in [Managed -> Volumes]
  BY <1>1 DEF RTInit, Volumes
<1>8. request \in {NoRequest} /\ day \in Int
  BY <1>2 DEF RTInit
<1>9. RetentionTypeOK
  BY <1>3, <1>4, <1>5, <1>6, <1>7, <1>8 DEF RetentionTypeOK
<1> QED
  BY <1>4, <1>9 DEF RetentionInv, VisitsEnabled, DropsExpired, Sweeping

\* The steps outside of a cycle: it goes on as it was, a day later at most.
LEMMA OutsideCycle ==
  ASSUME RetentionInv, RetentionTypeOK', UNCHANGED <<cycle, listed>>, day' \in {day, day + 1}
  PROVE  RetentionInv'
<1>1. VisitsEnabled'
  BY DEF RetentionInv, VisitsEnabled
<1>2. DropsExpired'
  <2> SUFFICES ASSUME cycle.step = "drop", NEW d \in cycle.list
               PROVE  d + listed[leaderOf(cycle.table)].days + Grace < day'
    BY DEF DropsExpired
  <2>1. /\ d \in Int /\ day \in Int /\ listed[leaderOf(cycle.table)].days \in Int
        /\ d + listed[leaderOf(cycle.table)].days + Grace < day
    BY LeaderType DEF RetentionInv, RetentionTypeOK, VisitsEnabled, DropsExpired, Policy, Sweeping
  <2> QED
    BY <2>1 DEF Grace
<1> QED
  BY <1>1, <1>2 DEF RetentionInv

\* A policy, the clock and the seeding change.
LEMMA SeedingStep ==
  ASSUME RetentionInv,
         NextDay \/ SetRetentionPolicy \/ ReadForSeeding \/ SeedPolicy \/ SeedingEnds
  PROVE  RetentionInv'
<1>0. RetentionTypeOK
  BY DEF RetentionInv
<1>1. CASE NextDay
  <2>1. day' \in Int /\ day' \in {day, day + 1}
    BY <1>0, <1>1 DEF NextDay, RetentionTypeOK
  <2>2. partitions' \in [Managed -> SUBSET [at : Int, cold : BOOLEAN]]
    <3>1. [at |-> day + 1, cold |-> FALSE] \in [at : Int, cold : BOOLEAN]
      BY <1>0 DEF RetentionTypeOK
    <3>2. partitions \in [Managed -> SUBSET [at : Int, cold : BOOLEAN]]
      BY <1>0 DEF RetentionTypeOK
    <3>3. \A t \in Managed : partitions[t] \cup {[at |-> day + 1, cold |-> FALSE]} \in SUBSET [at : Int, cold : BOOLEAN]
      BY <3>1, <3>2
    <3> QED
      BY <1>1, <3>2, <3>3 DEF NextDay
  <2>3. RetentionTypeOK'
    BY <1>0, <1>1, <2>1, <2>2 DEF NextDay, RetentionTypeOK
  <2> QED
    BY <1>1, <2>1, <2>3, OutsideCycle DEF NextDay
<1>2. CASE SetRetentionPolicy
  <2>1. request \in [table : Leaders, days : Int, cold : Int, enabled : BOOLEAN]
    BY <1>0, <1>2 DEF SetRetentionPolicy, RetentionTypeOK
  <2>2. [days |-> request.days, cold |-> request.cold, enabled |-> request.enabled] \in Policy
    BY <2>1 DEF Policy
  <2>3. policies' \in [Leaders -> Policy]
    BY <1>0, <1>2, <2>1, <2>2 DEF SetRetentionPolicy, RetentionTypeOK
  <2>4. RetentionTypeOK'
    BY <1>0, <1>2, <2>3 DEF SetRetentionPolicy, RetentionTypeOK
  <2> QED
    BY <1>2, <2>4, OutsideCycle DEF SetRetentionPolicy
<1>3. CASE ReadForSeeding
  <2>1. liveTTLDays \in [Managed -> Int] /\ [t \in Managed |-> 0] \in [Managed -> Int]
    BY <1>0 DEF liveTTLDays, RetentionTypeOK
  <2>2. Unseeded \in SUBSET Leaders
    BY DEF Unseeded
  <2>3. seeding' \in [step : {"read", "seed", "done"}, missing : SUBSET Leaders, live : [Managed -> Int]]
    <3> DEFINE Seedings == [step : {"read", "seed", "done"}, missing : SUBSET Leaders, live : [Managed -> Int]]
    <3>1. seeding \in Seedings
      BY <1>0 DEF RetentionTypeOK
    <3>2. [seeding EXCEPT !.step = "done"] \in Seedings
      BY <3>1
    <3>3. \A live \in {liveTTLDays, [t \in Managed |-> 0]} :
            [step |-> "seed", missing |-> Unseeded, live |-> live] \in Seedings
      BY <2>1, <2>2
    <3> HIDE DEF Seedings
    <3>4. seeding' \in Seedings
      BY <1>3, <3>2, <3>3 DEF ReadForSeeding
    <3> QED
      BY <3>4 DEF Seedings
  <2>4. RetentionTypeOK'
    BY <1>0, <1>3, <2>3 DEF ReadForSeeding, RetentionTypeOK
  <2> QED
    BY <1>3, <2>4, OutsideCycle DEF ReadForSeeding
<1>4. CASE SeedPolicy
  <2>1. seeding' \in [step : {"read", "seed", "done"}, missing : SUBSET Leaders, live : [Managed -> Int]]
    BY <1>0, <1>4 DEF SeedPolicy, RetentionTypeOK
  <2>2. ASSUME NEW l \in Leaders PROVE SeedDays(l) \in Int
    <3>1. l \in Managed /\ followersOf(l) \subseteq Managed
      BY DEF Managed, followersOf
    <3>2. FlowLogDays \in Int /\ DefaultDays[l] \in Int
      BY <3>1, RetentionAssumption
    <3>3. \A t \in Managed : seeding.live[t] \in Int
      BY <1>0 DEF RetentionTypeOK
    <3>4. ASSUME NEW S \in SUBSET followersOf(l), S # {} PROVE seeding.live[CHOOSE f \in S : TRUE] \in Int
      BY <3>1, <3>3, <3>4
    <3> QED
      BY <3>1, <3>2, <3>3, <3>4 DEF SeedDays
  <2>3. \A l \in seeding.missing : /\ l \in Leaders
                                   /\ [days |-> SeedDays(l), cold |-> 0, enabled |-> TRUE] \in Policy
    BY <1>0, <2>2 DEF RetentionTypeOK, Policy
  <2>4. policies' \in [Leaders -> Policy]
    BY <1>0, <1>4, <2>3 DEF SeedPolicy, RetentionTypeOK
  <2>5. RetentionTypeOK'
    BY <1>0, <1>4, <2>1, <2>4 DEF SeedPolicy, RetentionTypeOK
  <2> QED
    BY <1>4, <2>5, OutsideCycle DEF SeedPolicy
<1>5. CASE SeedingEnds
  <2>1. RetentionTypeOK'
    BY <1>0, <1>5 DEF SeedingEnds, RetentionTypeOK
  <2> QED
    BY <1>5, <2>1, OutsideCycle DEF SeedingEnds
<1> QED
  BY <1>1, <1>2, <1>3, <1>4, <1>5

\* A request arrives.
LEMMA SetRetentionStep ==
  ASSUME RetentionInv, NEW l \in Leaders, NEW d \in EditDays, NEW c \in EditCold \cup {Keep},
         NEW e \in BOOLEAN, SetRetention(l, d, c, e)
  PROVE  RetentionInv'
<1>0. RetentionTypeOK /\ d \in Int /\ c \in Int
  <2>1. EditDays \subseteq Int /\ EditCold \subseteq Int
    BY RetentionAssumption
  <2>2. c \in Int
    BY <2>1 DEF Keep
  <2> QED
    BY <2>1, <2>2 DEF RetentionInv
<1>1. (IF c = Keep THEN policies[l].cold ELSE c) \in Int
  BY <1>0 DEF RetentionTypeOK, Policy
<1>2. request' \in [table : Leaders, days : Int, cold : Int, enabled : BOOLEAN]
  BY <1>0, <1>1 DEF SetRetention
<1>3. RetentionTypeOK'
  BY <1>0, <1>2 DEF SetRetention, RetentionTypeOK
<1> QED
  BY <1>3, OutsideCycle DEF SetRetention

\* A cycle begins with what it reads, ends, or is lost.
LEMMA CycleEndsStep ==
  ASSUME RetentionInv, ReconcileRetention \/ CycleEnds \/ RestartCollector
  PROVE  RetentionInv'
<1>0. RetentionTypeOK
  BY DEF RetentionInv
<1> DEFINE Cycles == [step : {"idle", "table"} \cup Sweeping, todo : SUBSET Managed,
                      table : Managed \cup {"none"}, cold : Int, list : SUBSET Int,
                      storage : [Managed -> Volumes]]
<1>1. /\ NoCycle \in Cycles /\ NoCycle.step = "idle" /\ NoCycle.todo = {}
  BY <1>0 DEF NoCycle, tableStoragePolicies, RetentionTypeOK
<1>2. CASE CycleEnds \/ RestartCollector
  <2>1. cycle' = NoCycle /\ UNCHANGED <<policies, listed, ttl, partitions, storage, day, request>>
    BY <1>2 DEF CycleEnds, RestartCollector
  <2>2. seeding' \in [step : {"read", "seed", "done"}, missing : SUBSET Leaders, live : [Managed -> Int]]
    BY <1>0, <1>2 DEF CycleEnds, RestartCollector, RetentionTypeOK
  <2>3. RetentionTypeOK'
    BY <1>0, <1>1, <2>1, <2>2 DEF RetentionTypeOK
  <2> QED
    BY <1>1, <2>1, <2>3 DEF RetentionInv, VisitsEnabled, DropsExpired, Sweeping
<1>3. CASE ReconcileRetention /\ UNCHANGED <<listed, cycle>>
  <2>1. RetentionTypeOK'
    BY <1>0, <1>3 DEF ReconcileRetention, RetentionTypeOK
  <2> QED
    BY <1>3, <2>1, OutsideCycle DEF ReconcileRetention
<1>4. ASSUME NEW follow \in BOOLEAN, ReconcileRetention, listed' = policies, cycle' \in Cycles,
             cycle'.step = "table", cycle'.todo = Targets(follow)
      PROVE  RetentionInv'
  <2>1. \A t \in Targets(follow) : policies[leaderOf(t)].enabled
    BY DEF Targets
  <2>2. RetentionTypeOK'
    BY <1>0, <1>4 DEF ReconcileRetention, RetentionTypeOK
  <2> QED
    BY <1>4, <2>1, <2>2 DEF RetentionInv, VisitsEnabled, DropsExpired, Sweeping
<1>5. CASE ReconcileRetention
  <2>1. [t \in Managed |-> "unknown"] \in [Managed -> Volumes]
    BY DEF Volumes
  <2>2. \A follow \in BOOLEAN : Targets(follow) \in SUBSET Managed
    BY RetentionAssumption DEF Targets
  <2>3. ASSUME NEW follow \in BOOLEAN,
               \/ cycle' = [NoCycle EXCEPT !.step = "table", !.todo = Targets(follow)]
               \/ cycle' = [NoCycle EXCEPT !.step = "table", !.todo = Targets(follow),
                                         !.storage = [t \in Managed |-> "unknown"]]
        PROVE  cycle' \in Cycles /\ cycle'.step = "table" /\ cycle'.todo = Targets(follow)
    <3> DEFINE volumes == [t \in Managed |-> "unknown"]
               targets == Targets(follow)
    <3>1. targets \in SUBSET Managed /\ volumes \in [Managed -> Volumes]
      BY <2>1, <2>2
    <3>2. \/ cycle' = [NoCycle EXCEPT !.step = "table", !.todo = targets]
          \/ cycle' = [NoCycle EXCEPT !.step = "table", !.todo = targets, !.storage = volumes]
      BY <2>3
    <3> HIDE DEF volumes, targets
    <3>3. cycle' \in Cycles /\ cycle'.step = "table" /\ cycle'.todo = targets
      BY <1>1, <3>1, <3>2
    <3> QED
      BY <3>3 DEF targets
  <2>4. \/ UNCHANGED <<listed, cycle>>
        \/ /\ listed' = policies
           /\ \E follow \in BOOLEAN :
                \/ cycle' = [NoCycle EXCEPT !.step = "table", !.todo = Targets(follow)]
                \/ cycle' = [NoCycle EXCEPT !.step = "table", !.todo = Targets(follow),
                                          !.storage = [t \in Managed |-> "unknown"]]
    BY <1>5, Zenon DEF ReconcileRetention
  <2> QED
    BY <1>3, <1>4, <1>5, <2>3, <2>4
<1> QED
  BY <1>2, <1>5

\* One table is taken up: its policy is enabled, and its TTL applied or not.
LEMMA ReconcileTableStep ==
  ASSUME RetentionInv, NEW t \in Managed, reconcileTable(t)
  PROVE  RetentionInv'
<1>0. RetentionTypeOK /\ listed[leaderOf(t)] \in Policy /\ t \in cycle.todo
  BY LeaderType DEF RetentionInv, RetentionTypeOK, reconcileTable
<1>1. PICK adopted \in {adoptColdPolicy(t, listed[leaderOf(t)]), FALSE}, applied \in BOOLEAN :
        LET p == listed[leaderOf(t)]
            stored == IF adopted THEN "tiered" ELSE cycle.storage[t]
            cold == effectiveColdDays(p, stored)
        IN  /\ storage' = IF adopted THEN [storage EXCEPT ![t] = stored] ELSE storage
            /\ ttl' = IF applied THEN applyTTLIfDiverged(t, p.days, cold) ELSE ttl
            /\ cycle' = [cycle EXCEPT !.todo = @ \ {t}, !.storage[t] = stored, !.table = t,
                           !.cold = cold, !.step = IF applied THEN "listExpired" ELSE "table"]
  BY DEF reconcileTable
<1> DEFINE p == listed[leaderOf(t)]
           stored == IF adopted THEN "tiered" ELSE cycle.storage[t]
           cold == effectiveColdDays(p, stored)
<1>2. p.days \in Int /\ cold \in Int /\ stored \in Volumes
  BY <1>0 DEF effectiveColdDays, Policy, RetentionTypeOK, Volumes
<1> HIDE DEF p, stored, cold
<1>3. storage' \in [Managed -> Volumes]
  BY <1>0, <1>1, <1>2 DEF stored, RetentionTypeOK
<1>4. ttl' \in [Managed -> [days : Int, cold : Int]]
  BY <1>0, <1>1, <1>2 DEF p, stored, cold, applyTTLIfDiverged, RetentionTypeOK
<1>5. cycle' = [cycle EXCEPT !.todo = @ \ {t}, !.storage[t] = stored, !.table = t,
                  !.cold = cold, !.step = IF applied THEN "listExpired" ELSE "table"]
  BY <1>1 DEF p, stored, cold
<1>6. /\ cycle' \in [step : {"idle", "table"} \cup Sweeping, todo : SUBSET Managed,
                     table : Managed \cup {"none"}, cold : Int, list : SUBSET Int,
                     storage : [Managed -> Volumes]]
      /\ cycle'.step \in {"listExpired", "table"} /\ cycle'.todo \subseteq cycle.todo /\ cycle'.table = t
  BY <1>0, <1>2, <1>5 DEF RetentionTypeOK, Sweeping
<1>7. RetentionTypeOK' /\ UNCHANGED listed
  BY <1>0, <1>3, <1>4, <1>6 DEF reconcileTable, RetentionTypeOK
<1> QED
  BY <1>0, <1>6, <1>7 DEF RetentionInv, VisitsEnabled, DropsExpired

\* The sweeps of one table: what was listed is dropped or moved.
LEMMA SweepStep ==
  ASSUME RetentionInv, ListExpired \/ DropPartition \/ ListCold \/ MovePartition
  PROVE  RetentionInv'
<1>0. /\ RetentionTypeOK /\ UNCHANGED <<listed, day, policies, ttl, storage, seeding, request>>
      /\ cycle.step \in Sweeping /\ cycle.table \in Managed /\ leaderOf(cycle.table) \in Leaders
  BY LeaderType DEF RetentionInv, VisitsEnabled, Sweeping, ListExpired, DropPartition, ListCold, MovePartition
<1>1. /\ cycle.list \in SUBSET Int /\ day \in Int /\ cycle.cold \in Int
      /\ partitions[cycle.table] \in SUBSET [at : Int, cold : BOOLEAN]
      /\ listed[leaderOf(cycle.table)].days \in Int
  BY <1>0 DEF RetentionTypeOK, Policy
<1> DEFINE Cycles == [step : {"idle", "table"} \cup Sweeping, todo : SUBSET Managed,
                      table : Managed \cup {"none"}, cold : Int, list : SUBSET Int,
                      storage : [Managed -> Volumes]]
           Late(list) == \A d \in list : d + listed[leaderOf(cycle.table)].days + Grace < day
           CycleKept == cycle' \in Cycles /\ cycle'.table = cycle.table /\ cycle'.todo = cycle.todo
<1>2. cycle \in Cycles /\ (cycle.step = "drop" => Late(cycle.list))
  BY <1>0 DEF RetentionInv, RetentionTypeOK, DropsExpired
<1>3. CycleKept /\ (cycle'.step = "drop" => Late(cycle'.list))
  <2> HIDE DEF Late
  <2>0. AfterExpired \in {"table", "listCold"}
    BY DEF AfterExpired
  <2>s. ASSUME NEW step \in {"table"} \cup Sweeping, cycle' = [cycle EXCEPT !.step = step]
        PROVE  CycleKept /\ cycle'.step = step
    BY <1>2, <2>s
  <2>d. ASSUME NEW list \in SUBSET Int, cycle' = [cycle EXCEPT !.list = list]
        PROVE  CycleKept /\ cycle'.step = cycle.step /\ cycle'.list = list
    BY <1>2, <2>d
  <2> HIDE DEF CycleKept
  <2>1. CASE ListExpired
    <3> DEFINE old == {p.at : p \in Expired(cycle.table, listed[leaderOf(cycle.table)].days)}
    <3>1. old \in SUBSET Int /\ Late(old)
      BY <1>1 DEF Expired, Grace, Late
    <3>2. \/ cycle' = [cycle EXCEPT !.step = "drop", !.list = old]
          \/ cycle' = [cycle EXCEPT !.step = AfterExpired]
      BY <2>1 DEF ListExpired
    <3> HIDE DEF old
    <3>3. CASE cycle' = [cycle EXCEPT !.step = "drop", !.list = old]
      <4>1. CycleKept /\ cycle'.list = old
        BY <1>2, <3>1, <3>3 DEF CycleKept, Sweeping
      <4> QED
        BY <3>1, <4>1
    <3>4. CASE cycle' = [cycle EXCEPT !.step = AfterExpired]
      BY <2>0, <2>s, <3>4 DEF Sweeping
    <3> QED
      BY <3>2, <3>3, <3>4
  <2>2. CASE DropPartition
    <3>1. cycle.step = "drop" /\ Late(cycle.list)
      BY <1>2, <2>2 DEF DropPartition
    <3>2. \/ cycle' = [cycle EXCEPT !.step = AfterExpired]
          \/ \E d \in cycle.list : cycle' = [cycle EXCEPT !.list = @ \ {d}]
          \/ cycle' = [cycle EXCEPT !.step = AfterExpired, !.list = {}]
      BY <2>2 DEF DropPartition
    <3>3. CASE cycle' = [cycle EXCEPT !.step = AfterExpired]
      BY <2>0, <2>s, <3>3 DEF Sweeping
    <3>4. ASSUME NEW d \in cycle.list, cycle' = [cycle EXCEPT !.list = @ \ {d}]
          PROVE  CycleKept /\ Late(cycle'.list)
      <4>1. cycle' = [cycle EXCEPT !.list = cycle.list \ {d}] /\ cycle.list \ {d} \in SUBSET Int
        BY <1>1, <3>4
      <4>2. Late(cycle.list \ {d})
        BY <3>1 DEF Late
      <4> QED
        BY <2>d, <4>1, <4>2
    <3>5. CASE cycle' = [cycle EXCEPT !.step = AfterExpired, !.list = {}]
      <4>1. CycleKept /\ cycle'.step # "drop"
        BY <1>2, <2>0, <3>5 DEF CycleKept, Sweeping
      <4> QED
        BY <4>1
    <3> QED
      BY <3>2, <3>3, <3>4, <3>5
  <2>3. CASE ListCold
    <3>1. ColdCandidates(cycle.table) \in SUBSET Int
      BY <1>1 DEF ColdCandidates
    <3>2. \/ cycle' = [cycle EXCEPT !.step = "move", !.list = ColdCandidates(cycle.table)]
          \/ cycle' = [cycle EXCEPT !.step = "table"]
      BY <2>3 DEF ListCold
    <3>3. CASE cycle' = [cycle EXCEPT !.step = "move", !.list = ColdCandidates(cycle.table)]
      <4>1. CycleKept /\ cycle'.step # "drop"
        BY <1>2, <3>1, <3>3 DEF CycleKept, Cycles, Sweeping
      <4> QED
        BY <4>1
    <3>4. CASE cycle' = [cycle EXCEPT !.step = "table"]
      BY <2>s, <3>4
    <3> QED
      BY <3>2, <3>3, <3>4
  <2>4. CASE MovePartition
    <3>1. cycle.step = "move" /\ cycle.list \ {Min(cycle.list)} \in SUBSET Int
      BY <1>1, <2>4 DEF MovePartition
    <3>2. \/ cycle' = [cycle EXCEPT !.step = "table"]
          \/ cycle' = [cycle EXCEPT !.list = cycle.list \ {Min(cycle.list)}]
          \/ cycle' = [cycle EXCEPT !.step = "table", !.list = {}]
      BY <2>4 DEF MovePartition
    <3>3. CASE cycle' = [cycle EXCEPT !.step = "table", !.list = {}]
      <4>1. CycleKept /\ cycle'.step # "drop"
        BY <1>2, <3>3 DEF CycleKept, Sweeping
      <4> QED
        BY <4>1
    <3>4. CASE cycle' = [cycle EXCEPT !.step = "table"]
      BY <2>s, <3>4
    <3>5. CASE cycle' = [cycle EXCEPT !.list = cycle.list \ {Min(cycle.list)}]
      BY <2>d, <3>1, <3>5
    <3> QED
      BY <3>2, <3>3, <3>4, <3>5
  <2> QED
    BY <2>1, <2>2, <2>3, <2>4
<1>4. partitions' \in [Managed -> SUBSET [at : Int, cold : BOOLEAN]]
  <2>1. ASSUME NEW d PROVE {p \in partitions[cycle.table] : p.at # d} \in SUBSET [at : Int, cold : BOOLEAN]
    BY <1>1
  <2>2. ASSUME NEW d
        PROVE  {[p EXCEPT !.cold = @ \/ p.at = d] : p \in partitions[cycle.table]}
                 \in SUBSET [at : Int, cold : BOOLEAN]
    <3>1. ASSUME NEW p \in partitions[cycle.table]
          PROVE  [p EXCEPT !.cold = @ \/ p.at = d] \in [at : Int, cold : BOOLEAN]
      BY <1>1
    <3> QED
      BY <3>1, Zenon
  <2>3. partitions \in [Managed -> SUBSET [at : Int, cold : BOOLEAN]]
    BY <1>0 DEF RetentionTypeOK
  <2>4. CASE UNCHANGED partitions
    BY <2>3, <2>4
  <2>5. ASSUME NEW d, partitions' = [partitions EXCEPT ![cycle.table] = {p \in @ : p.at # d}]
        PROVE  partitions' \in [Managed -> SUBSET [at : Int, cold : BOOLEAN]]
    BY <1>0, <2>1, <2>3, <2>5
  <2>6. ASSUME NEW d, partitions' = [partitions EXCEPT ![cycle.table] =
                                       {[p EXCEPT !.cold = @ \/ p.at = d] : p \in @}]
        PROVE  partitions' \in [Managed -> SUBSET [at : Int, cold : BOOLEAN]]
    <3> DEFINE moved == {[p EXCEPT !.cold = @ \/ p.at = d] : p \in partitions[cycle.table]}
    <3>1. moved \in SUBSET [at : Int, cold : BOOLEAN]
      BY <2>2
    <3>2. partitions' = [partitions EXCEPT ![cycle.table] = moved]
      BY <2>6, Zenon
    <3> HIDE DEF moved
    <3>3. ASSUME NEW T, partitions \in [Managed -> T], moved \in T PROVE partitions' \in [Managed -> T]
      BY <3>2, <3>3
    <3> QED
      BY <2>3, <3>1, <3>3
  <2>7. CASE MovePartition
    BY <2>4, <2>6, <2>7 DEF MovePartition
  <2> QED
    BY <2>4, <2>5, <2>7 DEF ListExpired, DropPartition, ListCold
<1>5. RetentionTypeOK'
  BY <1>0, <1>3, <1>4 DEF RetentionTypeOK
<1>6. VisitsEnabled'
  BY <1>0, <1>3 DEF RetentionInv, VisitsEnabled
<1>7. DropsExpired'
  BY <1>0, <1>3 DEF DropsExpired
<1> QED
  BY <1>5, <1>6, <1>7 DEF RetentionInv

\* Every step of the clock, a request or the collector keeps the invariant.
LEMMA RetentionStep == RetentionInv /\ [RTNext]_rtVars => RetentionInv'
<1> SUFFICES ASSUME RetentionInv, [RTNext]_rtVars PROVE RetentionInv'
  OBVIOUS
<1>1. CASE UNCHANGED rtVars
  <2>1. RetentionTypeOK'
    BY <1>1 DEF RetentionInv, RetentionTypeOK, rtVars
  <2> QED
    BY <1>1, <2>1, OutsideCycle DEF rtVars
<1>2. CASE RTNext
  BY <1>2, SeedingStep, SetRetentionStep, CycleEndsStep, ReconcileTableStep, SweepStep DEF RTNext, Reconciler
<1> QED
  BY <1>1, <1>2
(* The reconciler drops nothing that the policy it works from keeps: what  *)
(* it listed is expired under the policies its cycle read, these change in *)
(* no step of a sweep, time only passes, and a failed statement, an edit   *)
(* or a restart in between leaves the list empty or as it was.             *)
THEOREM OnlyExpiredPartitionsGo == RTSpec => OnlyExpiredIsDropped
<1> DEFINE Dropped == \A t \in Managed : \A p \in partitions[t] :
                        (\A q \in partitions'[t] : q.at # p.at) =>
                          LET policy == listed[leaderOf(t)]
                          IN  policy.enabled /\ p.at + policy.days + Grace < day
<1>1. RetentionInv /\ [RTNext]_rtVars => [Dropped]_rtVars
  <2> SUFFICES ASSUME RetentionInv, RTNext, NEW t \in Managed, NEW p \in partitions[t],
                      \A q \in partitions'[t] : q.at # p.at
               PROVE  /\ listed[leaderOf(t)].enabled
                      /\ p.at + listed[leaderOf(t)].days + Grace < day
    OBVIOUS
  <2>0. /\ partitions \in [Managed -> SUBSET [at : Int, cold : BOOLEAN]]
        /\ p \in [at : Int, cold : BOOLEAN] /\ cycle.table \in Managed \cup {"none"}
    BY DEF RetentionInv, RetentionTypeOK
  <2>1. partitions'[t] # partitions[t]
    OBVIOUS
  <2>2. ~NextDay
    BY <2>0 DEF NextDay
  <2>3. ~MovePartition
    <3> SUFFICES ASSUME MovePartition PROVE FALSE
      OBVIOUS
    <3> DEFINE moved == [p EXCEPT !.cold = @ \/ p.at = Min(cycle.list)]
    <3>1. /\ partitions' = [partitions EXCEPT ![cycle.table] =
                 {[r EXCEPT !.cold = @ \/ r.at = Min(cycle.list)] : r \in @}]
          /\ t = cycle.table
      BY <2>0, <2>1 DEF MovePartition
    <3>2. moved \in partitions'[t]
      BY <2>0, <3>1
    <3>3. moved.at = p.at
      BY <2>0
    <3> QED
      BY <3>2, <3>3
  <2>4. DropPartition
    BY <2>1, <2>2, <2>3 DEF RTNext, Reconciler, SetRetentionPolicy, RestartCollector, SetRetention,
       ReadForSeeding, SeedPolicy, SeedingEnds, ReconcileRetention, reconcileTable, ListExpired,
       ListCold, CycleEnds
  <2>5. PICK d \in cycle.list :
          partitions' = [partitions EXCEPT ![cycle.table] = {r \in @ : r.at # d}]
    BY <2>1, <2>4 DEF DropPartition
  <2>6. t = cycle.table /\ p.at = d
    BY <2>0, <2>1, <2>5
  <2> QED
    BY <2>4, <2>6 DEF DropPartition, RetentionInv, VisitsEnabled, DropsExpired, Sweeping
<1> QED
  BY <1>1, RetentionInitially, RetentionStep, PTL DEF RTSpec, OnlyExpiredIsDropped

-----------------------------------------------------------------------------
(* The rules of AlertRules: which version counts, and its inductive        *)
(* invariant.                                                              *)

Bodies == [limits : {"seeded", "own"}, text : {"3.6", "new", "own"}, scope : {"", "group"},
           factor : Nat, enabled : BOOLEAN]
Versions == [body : Bodies, updated : Nat, deleted : BOOLEAN]
Pages == [rule : Rules, body : Bodies, updated : Nat]

HasLatest(rows) == \E i \in DOMAIN rows : Wins(rows, i)
LatestVersion(rows) == rows[CHOOSE i \in DOMAIN rows : Wins(rows, i)]

RulesTypeOK ==
  /\ ruleRows \in [Rules -> Seq(Versions)]
  /\ second \in Nat \ {0}
  /\ boot \in [step : {"ensure", "seed", "list", "upgrade", "done", "failed"}, todo : SUBSET Rules]
  /\ seen \in [Rules -> Versions]
  /\ page \in Pages \cup {NoRule}
  /\ quiet \in BOOLEAN

\* No version is stamped later than an upgrade at this moment would be.
StampedBefore(t) ==
  /\ \A r \in Rules : \A i \in DOMAIN ruleRows[r] : ruleRows[r][i].updated <= t + 1
  /\ page # NoRule => page.updated <= t + 1

SomeVersionCounts == \A r \in Rules : ruleRows[r] # <<>> => HasLatest(ruleRows[r])

\* The rules the listing of this start found as 3.6 seeded them.
ToUpgrade == {r \in Shown(seen) : stillSeeded(seen[r].body)}

\* While nobody edits: a rule is upgraded, or it is as it was listed.
AsListedOrUpgraded ==
  boot.step \in {"upgrade", "done"} /\ quiet =>
    /\ boot.todo \subseteq ToUpgrade
    /\ boot.step = "done" => boot.todo = {}
    /\ \A r \in Rules :
         IF r \in ToUpgrade \ boot.todo
         THEN RuleNow(r).body = Upgraded(r, seen[r].body) /\ ~RuleNow(r).deleted
         ELSE RuleNow(r) = seen[r]

RulesInv == RulesTypeOK /\ StampedBefore(second) /\ SomeVersionCounts /\ AsListedOrUpgraded

\* The stamp of a row is a time.
LEMMA RowType ==
  ASSUME NEW rows \in Seq(Versions), NEW i \in DOMAIN rows
  PROVE  i \in Nat /\ rows[i] \in Versions /\ rows[i].updated \in Nat
<1>1. i \in Nat /\ rows[i] \in Versions
  OBVIOUS
<1>2. \A v \in Versions : v.updated \in Nat
  BY DEF Versions
<1> QED
  BY <1>1, <1>2

\* At most one version wins.
LEMMA OneWinner ==
  ASSUME NEW rows \in Seq(Versions), NEW i \in DOMAIN rows, Wins(rows, i)
  PROVE  LatestVersion(rows) = rows[i]
<1>1. ASSUME NEW k \in DOMAIN rows, Wins(rows, k) PROVE k = i
  <2>1. i \in Nat /\ k \in Nat /\ rows[i].updated \in Nat /\ rows[k].updated \in Nat
    BY RowType
  <2> QED
    BY <1>1, <2>1 DEF Wins
<1> QED
  BY <1>1 DEF LatestVersion

\* The version that counts is one of the rows.
LEMMA LatestIsARow ==
  ASSUME NEW rows \in Seq(Versions), HasLatest(rows)
  PROVE  \E i \in DOMAIN rows : LatestVersion(rows) = rows[i]
BY OneWinner DEF HasLatest

\* A version appended counts at once if none is stamped later.
LEMMA AppendedLast ==
  ASSUME NEW rows \in Seq(Versions), NEW v \in Versions, \A i \in DOMAIN rows : rows[i].updated <= v.updated
  PROVE  HasLatest(Append(rows, v)) /\ LatestVersion(Append(rows, v)) = v
<1> DEFINE new == Append(rows, v)
           n == Len(rows) + 1
<1>1. /\ new \in Seq(Versions) /\ n \in DOMAIN new /\ new[n] = v /\ n \in Nat
      /\ \A j \in DOMAIN new : j \in Nat /\ j <= n /\ (j # n => j \in DOMAIN rows /\ new[j] = rows[j])
  OBVIOUS
<1>2. Wins(new, n)
  <2> SUFFICES ASSUME NEW j \in DOMAIN new
               PROVE  new[j].updated < new[n].updated \/ (new[j].updated = new[n].updated /\ j <= n)
    BY DEF Wins
  <2>1. new[j].updated \in Nat /\ v.updated \in Nat
    <3>1. new[j].updated \in Nat
      BY <1>1, RowType
    <3>2. v.updated \in Nat
      BY DEF Versions
    <3> QED
      BY <3>1, <3>2
  <2>2. new[j].updated <= v.updated
    BY <1>1, <2>1
  <2> QED
    BY <1>1, <2>1, <2>2
<1> QED
  BY <1>1, <1>2, OneWinner DEF HasLatest

\* Some version counts, whatever the stamp of the one appended.
LEMMA AppendedCounts ==
  ASSUME NEW rows \in Seq(Versions), NEW v \in Versions, rows # <<>> => HasLatest(rows)
  PROVE  HasLatest(Append(rows, v))
<1>1. CASE \A i \in DOMAIN rows : rows[i].updated <= v.updated
  BY <1>1, AppendedLast
<1>2. CASE \E i \in DOMAIN rows : ~(rows[i].updated <= v.updated)
  <2> DEFINE new == Append(rows, v)
  <2>1. PICK k \in DOMAIN rows : ~(rows[k].updated <= v.updated)
    BY <1>2
  <2>2. PICK w \in DOMAIN rows : Wins(rows, w)
    BY <2>1 DEF HasLatest
  <2>3. /\ rows[w].updated \in Nat /\ rows[k].updated \in Nat /\ v.updated \in Nat
        /\ rows[k].updated <= rows[w].updated
    <3>1. rows[w].updated \in Nat /\ rows[k].updated \in Nat
      BY RowType
    <3>2. v.updated \in Nat
      BY DEF Versions
    <3> QED
      BY <2>2, <3>1, <3>2 DEF Wins
  <2>4. /\ w \in DOMAIN new /\ new[w] = rows[w]
        /\ \A j \in DOMAIN new : (j \in DOMAIN rows /\ new[j] = rows[j]) \/ new[j] = v
    OBVIOUS
  <2>5. Wins(new, w)
    BY <2>1, <2>2, <2>3, <2>4 DEF Wins
  <2> QED
    BY <2>4, <2>5 DEF HasLatest
<1> QED
  BY <1>1, <1>2

Without(rows, i) == [j \in 1..(Len(rows) - 1) |-> IF j < i THEN rows[j] ELSE rows[j + 1]]

\* A merge that drops a superseded version changes nothing of what counts.
LEMMA MergeKeepsLatest ==
  ASSUME NEW rows \in Seq(Versions), NEW i \in DOMAIN rows, ~Wins(rows, i), HasLatest(rows)
  PROVE  /\ Without(rows, i) \in Seq(Versions) /\ HasLatest(Without(rows, i))
         /\ LatestVersion(Without(rows, i)) = LatestVersion(rows)
         /\ \A j \in DOMAIN Without(rows, i) : \E k \in DOMAIN rows : Without(rows, i)[j] = rows[k]
<1> DEFINE n == Len(rows) - 1
           from(j) == IF j < i THEN j ELSE j + 1
<1>1. i \in 1..Len(rows) /\ DOMAIN rows = 1..Len(rows) /\ Len(rows) \in Nat /\ n \in Nat
  OBVIOUS
<1> DEFINE new == Without(rows, i)
<1>2. \A j \in 1..n : from(j) \in DOMAIN rows /\ new[j] = rows[from(j)]
  BY <1>1 DEF Without
<1>3. new \in [1..n -> Versions] /\ DOMAIN new = 1..n
  BY <1>1, <1>2 DEF Without
<1> HIDE DEF new
<1>4. new \in Seq(Versions)
  BY <1>1, <1>3
<1>5. PICK w \in DOMAIN rows : Wins(rows, w)
  BY DEF HasLatest
<1>6. w # i /\ w \in 1..Len(rows)
  BY <1>1, <1>5
<1> DEFINE u == IF w < i THEN w ELSE w - 1
<1>7. u \in 1..n /\ from(u) = w /\ new[u] = rows[w]
  BY <1>1, <1>2, <1>6
<1>8. Wins(new, u)
  <2> SUFFICES ASSUME NEW j \in 1..n
               PROVE  new[j].updated < new[u].updated \/ (new[j].updated = new[u].updated /\ j <= u)
    BY <1>3 DEF Wins
  <2>1. new[j] = rows[from(j)] /\ from(j) \in DOMAIN rows
    BY <1>2
  <2>2. from(j) <= w => j <= u
    BY <1>1, <1>6
  <2> HIDE DEF from, u
  <2> QED
    BY <1>5, <1>7, <2>1, <2>2 DEF Wins
<1>9. LatestVersion(new) = rows[w] /\ LatestVersion(rows) = rows[w]
  BY <1>3, <1>4, <1>5, <1>7, <1>8, OneWinner
<1>10. HasLatest(new)
  BY <1>3, <1>7, <1>8 DEF HasLatest
<1> QED
  BY <1>2, <1>3, <1>4, <1>9, <1>10 DEF new

\* The version a rule has now is a version, and no later than an upgrade would be.
LEMMA NowType ==
  ASSUME RulesInv, NEW r \in Rules
  PROVE  RuleNow(r) \in Versions /\ RuleNow(r).updated <= second + 1
<1>1. ruleRows[r] \in Seq(Versions) /\ second \in Nat
  BY DEF RulesInv, RulesTypeOK
<1>2. CASE ruleRows[r] = <<>>
  <2>1. RuleNow(r) = NoRule
    BY <1>2 DEF RuleNow
  <2>2. NoRule \in Versions /\ NoRule.updated = 0
    BY DEF NoRule, Version, Was, Versions, Bodies
  <2> QED
    BY <1>1, <2>1, <2>2
<1>3. CASE ruleRows[r] # <<>>
  <2>1. RuleNow(r) = LatestVersion(ruleRows[r]) /\ HasLatest(ruleRows[r])
    BY <1>3 DEF RuleNow, LatestVersion, RulesInv, SomeVersionCounts
  <2>2. PICK i \in DOMAIN ruleRows[r] : RuleNow(r) = ruleRows[r][i]
    BY <1>1, <2>1, LatestIsARow
  <2> QED
    BY <1>1, <2>2, RowType DEF RulesInv, StampedBefore
<1> QED
  BY <1>2, <1>3

\* The first start of this release: an empty table, or the rules of 3.6.
LEMMA RulesInitially == ARInit => RulesInv
<1> SUFFICES ASSUME ARInit PROVE RulesInv
  OBVIOUS
<1>1. NoRule \in Versions /\ Version(Was, 1, FALSE) \in Versions /\ Version(Was, 1, FALSE).updated = 1
  BY DEF NoRule, Version, Was, Versions, Bodies
<1> DEFINE v == Version(Was, 1, FALSE)
<1> HIDE DEF v
<1>2. \A r \in Rules : ruleRows[r] \in {<<>>, <<v>>}
  BY DEF ARInit, v
<1>3. /\ <<>> \in Seq(Versions) /\ <<v>> \in Seq(Versions)
      /\ DOMAIN <<v>> = {1} /\ <<v>>[1] = v /\ v.updated = 1
  <2>1. v \in Versions /\ v.updated = 1
    BY <1>1 DEF v
  <2>2. DOMAIN <<v>> = 1..1 /\ <<v>>[1] = v
    OBVIOUS
  <2> QED
    BY <2>1, <2>2
<1>4. HasLatest(<<v>>)
  BY <1>3 DEF HasLatest, Wins
<1>5. ruleRows \in [Rules -> Seq(Versions)]
  <2>1. [r \in Rules |-> <<>>] \in [Rules -> Seq(Versions)] /\ [r \in Rules |-> <<v>>] \in [Rules -> Seq(Versions)]
    BY <1>3
  <2>2. ruleRows \in {[r \in Rules |-> <<>>], [r \in Rules |-> <<v>>]}
    BY DEF ARInit, v
  <2> QED
    BY <2>1, <2>2
<1>6. RulesTypeOK
  <2>1. seen \in [Rules -> Versions]
    BY <1>1 DEF ARInit
  <2>2. second \in Nat \ {0} /\ page \in Pages \cup {NoRule} /\ quiet \in BOOLEAN
    <3>1. second \in Nat \ {0}
      BY DEF ARInit
    <3>2. page \in Pages \cup {NoRule} /\ quiet \in BOOLEAN
      BY Zenon DEF ARInit
    <3> QED
      BY <3>1, <3>2, Zenon
  <2>3. boot \in [step : {"ensure", "seed", "list", "upgrade", "done", "failed"}, todo : SUBSET Rules]
    BY DEF ARInit
  <2> QED
    BY <1>5, <2>1, <2>2, <2>3 DEF RulesTypeOK
<1>7. StampedBefore(second)
  <2>1. second = 1 /\ page = NoRule
    BY DEF ARInit
  <2>2. ASSUME NEW r \in Rules, NEW i \in DOMAIN ruleRows[r] PROVE ruleRows[r][i].updated <= 2
    <3>1. ruleRows[r] = <<v>>
      BY <1>2
    <3>2. ruleRows[r][i] = v
      BY <1>3, <3>1
    <3> QED
      BY <1>3, <3>2
  <2> QED
    BY <2>1, <2>2 DEF StampedBefore
<1>8. SomeVersionCounts
  BY <1>2, <1>4 DEF SomeVersionCounts
<1>9. AsListedOrUpgraded
  BY DEF ARInit, AsListedOrUpgraded
<1> QED
  BY <1>6, <1>7, <1>8, <1>9 DEF RulesInv

\* Steps that write no rule: the versions that count are the same.
LEMMA SameRows ==
  ASSUME RulesInv, RulesTypeOK', ruleRows' = ruleRows, second' \in {second, second + 1},
         page' \in {page, NoRule} \/ page'.updated <= second + 1
  PROVE  /\ StampedBefore(second)' /\ SomeVersionCounts'
         /\ \A r \in Rules : RuleNow(r)' = RuleNow(r)
<1>1. second \in Nat /\ \A r \in Rules : ruleRows[r] \in Seq(Versions)
  BY DEF RulesInv, RulesTypeOK
<1>2. StampedBefore(second)'
  <2>1. ASSUME NEW r \in Rules, NEW i \in DOMAIN ruleRows[r] PROVE ruleRows[r][i].updated <= second' + 1
    <3>1. ruleRows[r][i].updated \in Nat /\ ruleRows[r][i].updated <= second + 1
      BY <1>1, RowType DEF RulesInv, StampedBefore
    <3> QED
      BY <1>1, <3>1
  <2>2. ASSUME page' # NoRule PROVE page'.updated <= second' + 1
    <3>1. page'.updated <= second + 1
      BY <2>2 DEF RulesInv, StampedBefore
    <3>2. page'.updated \in Nat
      BY <2>2 DEF RulesTypeOK, Pages
    <3> QED
      BY <1>1, <3>1, <3>2
  <2> QED
    BY <2>1, <2>2 DEF StampedBefore
<1>3. SomeVersionCounts'
  BY DEF RulesInv, SomeVersionCounts, HasLatest, Wins
<1>4. \A r \in Rules : RuleNow(r)' = RuleNow(r)
  BY DEF RuleNow, Wins
<1> QED
  BY <1>2, <1>3, <1>4

\* Steps that write one rule: the others keep their version.
LEMMA OneRuleChanges ==
  ASSUME RulesInv, NEW r \in Rules, NEW rows \in Seq(Versions), HasLatest(rows),
         ruleRows' = [ruleRows EXCEPT ![r] = rows],
         \A i \in DOMAIN rows : rows[i].updated <= second + 1,
         second' = second, page' \in {page, NoRule}
  PROVE  /\ ruleRows' \in [Rules -> Seq(Versions)] /\ StampedBefore(second)' /\ SomeVersionCounts'
         /\ \A q \in Rules : q # r => RuleNow(q)' = RuleNow(q)
         /\ RuleNow(r)' = LatestVersion(rows)
<1>1. ruleRows \in [Rules -> Seq(Versions)]
  BY DEF RulesInv, RulesTypeOK
<1>2. ruleRows' \in [Rules -> Seq(Versions)] /\ ruleRows'[r] = rows /\ \A q \in Rules : q # r => ruleRows'[q] = ruleRows[q]
  BY <1>1
<1>3. rows # <<>>
  BY DEF HasLatest
<1>4. StampedBefore(second)'
  <2>1. ASSUME NEW q \in Rules, NEW i \in DOMAIN ruleRows'[q] PROVE ruleRows'[q][i].updated <= second + 1
    BY <1>2 DEF RulesInv, StampedBefore
  <2>2. page' # NoRule => page'.updated <= second + 1
    BY DEF RulesInv, StampedBefore
  <2> QED
    BY <2>1, <2>2 DEF StampedBefore
<1>5. SomeVersionCounts'
  <2>1. ASSUME NEW q \in Rules, ruleRows'[q] # <<>> PROVE HasLatest(ruleRows'[q])
    BY <1>2, <2>1 DEF RulesInv, SomeVersionCounts
  <2> QED
    BY <2>1 DEF SomeVersionCounts, HasLatest, Wins
<1>6. RuleNow(r)' = LatestVersion(rows)
  BY <1>2, <1>3 DEF RuleNow, LatestVersion, Wins
<1>7. \A q \in Rules : q # r => RuleNow(q)' = RuleNow(q)
  BY <1>2 DEF RuleNow, Wins
<1> QED
  BY <1>2, <1>4, <1>5, <1>6, <1>7

\* Steps that append a version: it counts if it is stamped as an upgrade is.
LEMMA OneVersionIsAdded ==
  ASSUME RulesInv, NEW r \in Rules, NEW v \in Versions, v.updated <= second + 1,
         ruleRows' = [ruleRows EXCEPT ![r] = Append(@, v)],
         second' = second, page' \in {page, NoRule}
  PROVE  /\ ruleRows' \in [Rules -> Seq(Versions)] /\ StampedBefore(second)' /\ SomeVersionCounts'
         /\ \A q \in Rules : q # r => RuleNow(q)' = RuleNow(q)
         /\ v.updated = second + 1 => RuleNow(r)' = v
<1> DEFINE old == ruleRows[r]
           rows == Append(old, v)
<1>1. old \in Seq(Versions) /\ (old # <<>> => HasLatest(old))
  BY DEF RulesInv, RulesTypeOK, SomeVersionCounts
<1>2. \A i \in DOMAIN old : old[i].updated <= second + 1
  BY DEF RulesInv, StampedBefore
<1>3. ruleRows' = [ruleRows EXCEPT ![r] = rows]
  BY DEF RulesInv, RulesTypeOK
<1> HIDE DEF old
<1>4. rows \in Seq(Versions) /\ HasLatest(rows)
  BY <1>1, AppendedCounts
<1>5. \A i \in DOMAIN rows : rows[i].updated <= second + 1
  <2>1. \A i \in DOMAIN rows : (i \in DOMAIN old /\ rows[i] = old[i]) \/ rows[i] = v
    BY <1>1
  <2> QED
    BY <1>2, <2>1
<1>6. v.updated = second + 1 => LatestVersion(rows) = v
  BY <1>1, <1>2, AppendedLast
<1> HIDE DEF rows
<1> QED
  BY <1>3, <1>4, <1>5, <1>6, OneRuleChanges

\* The steps of a start before its listing: nothing is promised of the rules yet.
LEMMA SeedStep ==
  ASSUME RulesInv, EnsureDefaultRules \/ SeedRule \/ StartAgain
  PROVE  RulesInv'
<1>1. RulesTypeOK
  BY DEF RulesInv
<1>2. /\ UNCHANGED <<second, seen, page, quiet>> /\ boot'.step \notin {"upgrade", "done"}
      /\ boot' \in [step : {"ensure", "seed", "list", "upgrade", "done", "failed"}, todo : SUBSET Rules]
  <2>1. UNCHANGED <<second, seen, page, quiet>>
    BY DEF EnsureDefaultRules, SeedRule, StartAgain
  <2>2. CASE \E step \in {"ensure", "list"} : boot' = [step |-> step, todo |-> {}]
    BY <2>1, <2>2
  <2>3. CASE boot' = [step |-> "seed", todo |-> Rules]
    BY <2>1, <2>3
  <2>4. CASE boot.step = "seed" /\ \E r \in boot.todo : boot' = [boot EXCEPT !.todo = @ \ {r}]
    BY <1>1, <2>1, <2>4 DEF RulesTypeOK
  <2> QED
    BY <2>2, <2>3, <2>4 DEF EnsureDefaultRules, SeedRule, StartAgain
<1>3. AsListedOrUpgraded'
  BY <1>2 DEF AsListedOrUpgraded
<1>4. CASE UNCHANGED ruleRows
  <2>1. RulesTypeOK'
    BY <1>1, <1>2, <1>4 DEF RulesTypeOK
  <2> QED
    BY <1>2, <1>3, <1>4, <2>1, SameRows DEF RulesInv
<1>5. ASSUME NEW r \in boot.todo,
             ruleRows' = [ruleRows EXCEPT ![r] = <<Version(DefaultRule(r), second, FALSE)>>]
      PROVE  RulesInv'
  <2> DEFINE v == Version(DefaultRule(r), second, FALSE)
             rows == <<v>>
  <2>1. r \in Rules /\ second \in Nat /\ Factor[r] \in Nat
    BY <1>1, RulesAssumption DEF RulesTypeOK
  <2>2. v \in Versions /\ v.updated = second
    BY <2>1 DEF Version, DefaultRule, Was, Versions, Bodies
  <2>3. ruleRows' = [ruleRows EXCEPT ![r] = rows]
    BY <1>5
  <2> HIDE DEF v
  <2>4. rows = Append(<<>>, v) /\ <<>> \in Seq(Versions) /\ DOMAIN <<>> = {}
    BY <2>2
  <2>5. HasLatest(rows)
    BY <2>2, <2>4, AppendedCounts
  <2>6. rows \in Seq(Versions) /\ \A i \in DOMAIN rows : rows[i] = v
    BY <2>2
  <2>7. \A i \in DOMAIN rows : rows[i].updated <= second + 1
    BY <2>1, <2>2, <2>6
  <2> HIDE DEF rows
  <2>8. ruleRows' \in [Rules -> Seq(Versions)] /\ StampedBefore(second)' /\ SomeVersionCounts'
    BY <1>2, <2>1, <2>3, <2>5, <2>6, <2>7, OneRuleChanges
  <2>9. RulesTypeOK'
    BY <1>1, <1>2, <2>8 DEF RulesTypeOK
  <2> QED
    BY <1>3, <2>8, <2>9 DEF RulesInv
<1> QED
  BY <1>4, <1>5 DEF EnsureDefaultRules, SeedRule, StartAgain

\* The listing: every rule is as listed.
LEMMA ListStep ==
  ASSUME RulesInv, ListSeeded
  PROVE  RulesInv'
<1>1. RulesTypeOK /\ UNCHANGED <<ruleRows, second, page>>
  BY DEF RulesInv, ListSeeded
<1>2. ListAlertRules \in [Rules -> Versions]
  BY NowType DEF ListAlertRules
<1>3. CASE boot' = [step |-> "failed", todo |-> {}] /\ UNCHANGED <<seen, quiet>>
  <2>1. RulesTypeOK'
    BY <1>1, <1>3 DEF RulesTypeOK
  <2>2. AsListedOrUpgraded'
    BY <1>3 DEF AsListedOrUpgraded
  <2> QED
    BY <1>1, <2>1, <2>2, SameRows DEF RulesInv
<1>4. CASE /\ seen' = ListAlertRules /\ quiet' = TRUE
           /\ boot' = [step |-> "upgrade",
                       todo |-> {r \in Shown(ListAlertRules) : stillSeeded(ListAlertRules[r].body)}]
  <2>1. boot'.todo = ToUpgrade' /\ boot'.step = "upgrade"
    BY <1>4 DEF ToUpgrade
  <2>2. RulesTypeOK'
    BY <1>1, <1>2, <1>4 DEF RulesTypeOK, Shown
  <2>3. /\ StampedBefore(second)' /\ SomeVersionCounts'
        /\ \A r \in Rules : RuleNow(r)' = RuleNow(r)
    BY <1>1, <2>2, SameRows
  <2>4. \A r \in Rules : RuleNow(r)' = seen'[r]
    BY <1>4, <2>3 DEF ListAlertRules
  <2>5. AsListedOrUpgraded'
    BY <2>1, <2>4 DEF AsListedOrUpgraded
  <2> QED
    BY <2>2, <2>3, <2>5 DEF RulesInv
<1> QED
  BY <1>3, <1>4 DEF ListSeeded

\* One rule is upgraded: its new version is stamped last, and counts.
LEMMA UpgradeStep ==
  ASSUME RulesInv, UpgradeRule
  PROVE  RulesInv'
<1>1. RulesTypeOK /\ AsListedOrUpgraded /\ UNCHANGED <<second, page, seen, quiet>> /\ boot.step = "upgrade"
  BY DEF RulesInv, UpgradeRule
<1>2. CASE /\ UNCHANGED ruleRows
           /\ boot' = [step |-> "failed", todo |-> {}] \/ (boot.todo = {} /\ boot' = [step |-> "done", todo |-> {}])
  <2>1. RulesTypeOK'
    BY <1>1, <1>2 DEF RulesTypeOK
  <2>2. /\ StampedBefore(second)' /\ SomeVersionCounts'
        /\ \A r \in Rules : RuleNow(r)' = RuleNow(r)
    BY <1>1, <1>2, <2>1, SameRows
  <2>3. ToUpgrade' = ToUpgrade /\ \A r \in Rules : Upgraded(r, seen[r].body)' = Upgraded(r, seen[r].body)
    BY <1>1 DEF ToUpgrade, Shown, Upgraded
  <2>4. AsListedOrUpgraded'
    BY <1>1, <1>2, <2>2, <2>3 DEF AsListedOrUpgraded
  <2> QED
    BY <2>1, <2>2, <2>4 DEF RulesInv
<1>3. ASSUME NEW r \in boot.todo, UpsertAlertRule(r, Upgraded(r, seen[r].body), UpgradeStamp),
             boot' = [boot EXCEPT !.todo = @ \ {r}]
      PROVE  RulesInv'
  <2> DEFINE v == Version(Upgraded(r, seen[r].body), second + 1, FALSE)
  <2>1. r \in Rules /\ second \in Nat /\ Factor[r] \in Nat /\ seen[r].body \in Bodies
    BY <1>1, RulesAssumption DEF RulesTypeOK, Versions
  <2>2. v \in Versions /\ v.updated = second + 1 /\ v.body = Upgraded(r, seen[r].body) /\ ~v.deleted
    <3>1. Upgraded(r, seen[r].body) \in Bodies
      BY <2>1 DEF Upgraded, Bodies
    <3> HIDE DEF Bodies
    <3> QED
      BY <2>1, <3>1 DEF Version, Versions
  <2>3. ruleRows' = [ruleRows EXCEPT ![r] = Append(@, v)]
    <3>1. (IF UpgradeStamp = 0 THEN second ELSE UpgradeStamp) = second + 1
      BY <2>1 DEF UpgradeStamp
    <3> QED
      BY <1>3, <3>1 DEF UpsertAlertRule
  <2> HIDE DEF v
  <2>4. /\ ruleRows' \in [Rules -> Seq(Versions)] /\ StampedBefore(second)' /\ SomeVersionCounts'
        /\ \A q \in Rules : q # r => RuleNow(q)' = RuleNow(q)
        /\ RuleNow(r)' = v
    <3>1. v.updated <= second + 1 /\ page' \in {page, NoRule}
      BY <1>1, <2>1, <2>2
    <3> QED
      BY <1>1, <2>1, <2>2, <2>3, <3>1, OneVersionIsAdded
  <2>5. boot'.step = "upgrade" /\ boot'.todo = boot.todo \ {r}
    BY <1>1, <1>3 DEF RulesTypeOK
  <2>6. RulesTypeOK'
    BY <1>1, <1>3, <2>4 DEF RulesTypeOK
  <2>7. AsListedOrUpgraded'
    <3>1. ToUpgrade' = ToUpgrade
      BY <1>1 DEF ToUpgrade, Shown
    <3> SUFFICES ASSUME quiet
                 PROVE  /\ boot.todo \ {r} \subseteq ToUpgrade
                        /\ \A q \in Rules :
                             IF q \in ToUpgrade \ (boot.todo \ {r})
                             THEN RuleNow(q)'.body = Upgraded(q, seen[q].body) /\ ~RuleNow(q)'.deleted
                             ELSE RuleNow(q)' = seen[q]
      BY <1>1, <2>5, <3>1 DEF AsListedOrUpgraded, Upgraded
    <3>2. /\ boot.todo \subseteq ToUpgrade
          /\ \A q \in Rules :
               IF q \in ToUpgrade \ boot.todo
               THEN RuleNow(q).body = Upgraded(q, seen[q].body) /\ ~RuleNow(q).deleted
               ELSE RuleNow(q) = seen[q]
      BY <1>1 DEF AsListedOrUpgraded
    <3> QED
      BY <2>2, <2>4, <3>2
  <2> QED
    BY <2>4, <2>6, <2>7 DEF RulesInv
<1> QED
  BY <1>2, <1>3 DEF UpgradeRule

\* The operator's requests: from then on this start promises nothing.
LEMMA EditStep ==
  ASSUME RulesInv, UpdateRule \/ (\E r \in Rules : DeleteRule(r))
  PROVE  RulesInv'
<1>1. RulesTypeOK /\ UNCHANGED <<second, boot, seen>> /\ page' \in {page, NoRule} /\ quiet' = FALSE
  BY DEF RulesInv, UpdateRule, DeleteRule, Edit
<1>2. PICK r \in Rules, v \in Versions : /\ v.updated <= second + 1
                                         /\ ruleRows' = [ruleRows EXCEPT ![r] = Append(@, v)]
  <2>1. CASE UpdateRule
    <3>1. page \in Pages /\ page.updated <= second + 1 /\ second \in Nat
      BY <1>1, <2>1 DEF UpdateRule, RulesTypeOK, RulesInv, StampedBefore
    <3>2. page.rule \in Rules /\ page.body \in Bodies /\ page.updated \in Nat
      BY <3>1 DEF Pages
    <3>3. PICK b \in Edited(page.body), updated \in {page.updated, 0} : UpsertAlertRule(page.rule, b, updated)
      BY <2>1 DEF UpdateRule
    <3>4. b \in Bodies
      <4>1. ASSUME NEW c \in Bodies
            PROVE  /\ [c EXCEPT !.enabled = ~@] \in Bodies /\ [c EXCEPT !.limits = "own"] \in Bodies
                   /\ [c EXCEPT !.text = "own"] \in Bodies /\ [c EXCEPT !.scope = "group"] \in Bodies
                   /\ [c EXCEPT !.factor = 5] \in Bodies
        BY DEF Bodies
      <4> QED
        BY <3>2, <3>3, <4>1 DEF Edited
    <3> DEFINE stamp == IF updated = 0 THEN second ELSE updated
    <3>5. stamp \in Nat /\ stamp <= second + 1
      <4>1. CASE updated = 0
        BY <3>1, <4>1
      <4>2. CASE updated = page.updated /\ updated # 0
        <5>1. stamp = page.updated
          BY <4>2
        <5> QED
          BY <3>1, <3>2, <5>1
      <4> QED
        BY <3>3, <4>1, <4>2
    <3>6. ruleRows' = [ruleRows EXCEPT ![page.rule] = Append(@, Version(b, stamp, FALSE))]
      BY <3>3 DEF UpsertAlertRule
    <3> HIDE DEF stamp
    <3>7. Version(b, stamp, FALSE) \in Versions /\ Version(b, stamp, FALSE).updated = stamp
      BY <3>4, <3>5 DEF Version, Versions
    <3> QED
      BY <3>2, <3>5, <3>6, <3>7
  <2>2. ASSUME NEW r \in Rules, DeleteRule(r)
        PROVE  \E v \in Versions : v.updated <= second + 1 /\ ruleRows' = [ruleRows EXCEPT ![r] = Append(@, v)]
    <3> DEFINE v == Version(Was, second, TRUE)
    <3>1. v \in Versions /\ v.updated = second /\ second \in Nat
      BY <1>1 DEF Version, Was, Versions, Bodies, RulesTypeOK
    <3>2. ruleRows' = [ruleRows EXCEPT ![r] = Append(@, v)]
      BY <2>2 DEF DeleteRule
    <3> HIDE DEF v
    <3>3. v.updated <= second + 1
      BY <3>1
    <3> QED
      BY <3>1, <3>2, <3>3
  <2> QED
    BY <2>1, <2>2
<1>3. ruleRows' \in [Rules -> Seq(Versions)] /\ StampedBefore(second)' /\ SomeVersionCounts'
  BY <1>1, <1>2, OneVersionIsAdded
<1>4. RulesTypeOK'
  BY <1>1, <1>3 DEF RulesTypeOK
<1>5. AsListedOrUpgraded'
  BY <1>1 DEF AsListedOrUpgraded
<1> QED
  BY <1>3, <1>4, <1>5 DEF RulesInv

\* As long as every rule has the version it had, the promise of this start stands.
LEMMA PromiseStands ==
  ASSUME RulesInv, UNCHANGED <<boot, seen, quiet>>, \A r \in Rules : RuleNow(r)' = RuleNow(r)
  PROVE  AsListedOrUpgraded'
<1>1. ToUpgrade' = ToUpgrade /\ \A r \in Rules : Upgraded(r, seen[r].body)' = Upgraded(r, seen[r].body)
  BY DEF ToUpgrade, Shown, Upgraded
<1> QED
  BY <1>1 DEF RulesInv, AsListedOrUpgraded

\* A page is loaded, a second passes, or nothing happens.
LEMMA QuietStep ==
  ASSUME RulesInv, NextSecond \/ UNCHANGED arVars \/ (\E r \in Rules : ListRules(r))
  PROVE  RulesInv'
<1>1. RulesTypeOK /\ UNCHANGED <<ruleRows, boot, seen, quiet>> /\ second' \in {second, second + 1}
  BY DEF RulesInv, NextSecond, ListRules, arVars
<1>2. page' \in Pages \cup {NoRule} /\ (page' \in {page, NoRule} \/ page'.updated <= second + 1)
  <2>1. CASE page' = page
    BY <1>1, <2>1 DEF RulesTypeOK
  <2>2. ASSUME NEW r \in Rules, ListRules(r)
        PROVE  page' \in Pages /\ page'.updated <= second + 1
    <3>1. page' = [rule |-> r, body |-> RuleNow(r).body, updated |-> RuleNow(r).updated]
      BY <2>2 DEF ListRules
    <3>2. RuleNow(r).body \in Bodies /\ RuleNow(r).updated \in Nat /\ RuleNow(r).updated <= second + 1
      BY NowType DEF Versions
    <3> QED
      BY <3>1, <3>2 DEF Pages
  <2> QED
    BY <2>1, <2>2 DEF NextSecond, arVars
<1>3. RulesTypeOK'
  <2>1. second' \in Nat \ {0}
    BY <1>1 DEF RulesTypeOK
  <2> QED
    BY <1>1, <1>2, <2>1 DEF RulesTypeOK
<1>4. /\ StampedBefore(second)' /\ SomeVersionCounts'
      /\ \A r \in Rules : RuleNow(r)' = RuleNow(r)
  BY <1>1, <1>2, <1>3, SameRows
<1> QED
  BY <1>1, <1>3, <1>4, PromiseStands DEF RulesInv

\* A merge drops a version that does not count.
LEMMA MergeStep ==
  ASSUME RulesInv, MergeVersions
  PROVE  RulesInv'
<1>1. RulesTypeOK /\ UNCHANGED <<second, page, boot, seen, quiet>>
  BY DEF RulesInv, MergeVersions
<1>r. PICK r \in Rules : \E i \in DOMAIN ruleRows[r] :
        /\ ~Wins(ruleRows[r], i)
        /\ ruleRows' = [ruleRows EXCEPT ![r] = [j \in 1..(Len(@) - 1) |-> IF j < i THEN @[j] ELSE @[j + 1]]]
  BY DEF MergeVersions
<1>2. PICK i \in DOMAIN ruleRows[r] :
        /\ ~Wins(ruleRows[r], i)
        /\ ruleRows' = [ruleRows EXCEPT ![r] = [j \in 1..(Len(@) - 1) |-> IF j < i THEN @[j] ELSE @[j + 1]]]
  BY <1>r
<1> DEFINE old == ruleRows[r]
           rows == Without(old, i)
<1>3. old \in Seq(Versions) /\ HasLatest(old) /\ old # <<>>
  <2>1. old \in Seq(Versions)
    BY <1>1 DEF RulesTypeOK
  <2>2. old # <<>>
    BY <1>2
  <2> QED
    BY <2>1, <2>2 DEF RulesInv, SomeVersionCounts
<1>4. ruleRows' = [ruleRows EXCEPT ![r] = rows]
  BY <1>1, <1>2 DEF RulesTypeOK, Without
<1>5. /\ rows \in Seq(Versions) /\ HasLatest(rows) /\ LatestVersion(rows) = LatestVersion(old)
      /\ \A j \in DOMAIN rows : \E k \in DOMAIN old : rows[j] = old[k]
  BY <1>2, <1>3, MergeKeepsLatest
<1>6. RuleNow(r) = LatestVersion(old)
  BY <1>3 DEF RuleNow, LatestVersion
<1> HIDE DEF rows
<1>7. \A j \in DOMAIN rows : rows[j].updated <= second + 1
  BY <1>5 DEF RulesInv, StampedBefore
<1>8. /\ ruleRows' \in [Rules -> Seq(Versions)] /\ StampedBefore(second)' /\ SomeVersionCounts'
      /\ \A q \in Rules : q # r => RuleNow(q)' = RuleNow(q)
      /\ RuleNow(r)' = LatestVersion(rows)
  BY <1>1, <1>4, <1>5, <1>7, OneRuleChanges
<1>9. RulesTypeOK'
  BY <1>1, <1>8 DEF RulesTypeOK
<1> QED
  BY <1>1, <1>5, <1>6, <1>8, <1>9, PromiseStands DEF RulesInv

\* What is still seeded is a rule of 3.6, switched on or off, and its upgrade the rule of this release.
LEMMA SeededBodies ==
  ASSUME NEW b \in Bodies, NEW r \in Rules
  PROVE  /\ stillSeeded(b) <=> b \in {Was, [Was EXCEPT !.enabled = FALSE]}
         /\ stillSeeded(b) => Upgraded(r, b) = [DefaultRule(r) EXCEPT !.enabled = b.enabled]
<1>1. ASSUME NEW x \in Bodies, NEW y \in Bodies, x.limits = y.limits, x.text = y.text, x.scope = y.scope,
             x.factor = y.factor, x.enabled = y.enabled
      PROVE  x = y
  <2>1. ASSUME NEW z \in Bodies
        PROVE  z = [limits |-> z.limits, text |-> z.text, scope |-> z.scope, factor |-> z.factor, enabled |-> z.enabled]
    BY DEF Bodies
  <2> QED
    BY <1>1, <2>1, Zenon
<1> DEFINE Off == [Was EXCEPT !.enabled = FALSE]
<1>2. /\ Was \in Bodies /\ stillSeeded(Was) /\ Was.enabled = TRUE
      /\ Off \in Bodies /\ stillSeeded(Off) /\ Off.enabled = FALSE
  BY DEF Was, Bodies, stillSeeded
<1>3. b.enabled \in BOOLEAN
  BY DEF Bodies
<1> HIDE DEF Off
<1>4. ASSUME NEW x \in Bodies, NEW y \in Bodies, stillSeeded(x), stillSeeded(y), x.enabled = y.enabled
      PROVE  x = y
  BY <1>1, <1>4 DEF stillSeeded
<1>5. stillSeeded(b) <=> b \in {Was, Off}
  BY <1>2, <1>3, <1>4, Zenon
<1>6. ASSUME stillSeeded(b) PROVE Upgraded(r, b) = [DefaultRule(r) EXCEPT !.enabled = b.enabled]
  <2> DEFINE x == Upgraded(r, b)
             y == [DefaultRule(r) EXCEPT !.enabled = b.enabled]
  <2>1. Factor[r] \in Nat
    BY RulesAssumption
  <2>2. /\ x \in Bodies /\ x.limits = "seeded" /\ x.text = "new" /\ x.scope = "" /\ x.factor = Factor[r]
        /\ x.enabled = b.enabled
    BY <1>6, <2>1 DEF Upgraded, stillSeeded, Was, Bodies
  <2>3. /\ y \in Bodies /\ y.limits = "seeded" /\ y.text = "new" /\ y.scope = "" /\ y.factor = Factor[r]
        /\ y.enabled = b.enabled
    BY <1>3, <2>1 DEF DefaultRule, Was, Bodies
  <2> HIDE DEF x, y
  <2> QED
    BY <1>1, <2>2, <2>3 DEF x, y
<1> QED
  BY <1>5, <1>6 DEF Off

(* A start that nobody's edit crosses upgrades exactly the rules still as  *)
(* 3.6 seeded them, whatever versions failed starts, edits with an old     *)
(* updated_at and merges left: no version is ever stamped past the second  *)
(* after now, so the one of ReconcileSeededRules is the one FINAL returns. *)
THEOREM OnlySeededRulesAreUpgraded == ARSpec => []UpgradesOnlyWhatWasSeeded
<1>1. RulesInv => UpgradesOnlyWhatWasSeeded
  <2> SUFFICES ASSUME RulesInv, boot.step = "done", quiet
               PROVE  /\ Shown(ListAlertRules) = Shown(seen)
                      /\ \A r \in Shown(seen) :
                           RuleNow(r).body = IF seen[r].body \in {Was, [Was EXCEPT !.enabled = FALSE]}
                                             THEN [DefaultRule(r) EXCEPT !.enabled = seen[r].body.enabled]
                                             ELSE seen[r].body
    BY DEF UpgradesOnlyWhatWasSeeded
  <2>1. \A r \in Rules : IF r \in ToUpgrade
                         THEN RuleNow(r).body = Upgraded(r, seen[r].body) /\ ~RuleNow(r).deleted
                         ELSE RuleNow(r) = seen[r]
    BY DEF RulesInv, AsListedOrUpgraded
  <2>2. Shown(ListAlertRules) = Shown(seen)
    BY <2>1 DEF Shown, ListAlertRules, ToUpgrade
  <2>3. ASSUME NEW r \in Shown(seen)
        PROVE  RuleNow(r).body = IF seen[r].body \in {Was, [Was EXCEPT !.enabled = FALSE]}
                                 THEN [DefaultRule(r) EXCEPT !.enabled = seen[r].body.enabled]
                                 ELSE seen[r].body
    <3>1. r \in Rules /\ seen[r].body \in Bodies
      BY DEF Shown, RulesInv, RulesTypeOK, Versions
    <3>2. r \in ToUpgrade <=> stillSeeded(seen[r].body)
      BY DEF ToUpgrade
    <3> QED
      BY <2>1, <3>1, <3>2, SeededBodies
  <2> QED
    BY <2>2, <2>3
<1>2. RulesInv /\ [ARNext]_arVars => RulesInv'
  BY SeedStep, ListStep, UpgradeStep, EditStep, QuietStep, MergeStep DEF ARNext
<1> QED
  BY <1>1, <1>2, RulesInitially, PTL DEF ARSpec


-----------------------------------------------------------------------------
(* The buckets of RateLimiter. *)

Payers == Addresses \cup {overflowBucket}

LimiterTypeOK ==
  /\ tick \in Nat
  /\ admitted \in [Payers -> Seq(Nat)]
  /\ \A k \in DOMAIN visitors :
       visitors[k].tokens \in 0 .. Burst /\ visitors[k].lastSeen \in 0 .. tick

\* The buckets but the shared one are within the cap.
BucketsCapped ==
  /\ IsFiniteSet(DOMAIN visitors)
  /\ Cardinality(DOMAIN visitors \ {overflowBucket}) <= maxVisitors

\* What the rate adds in a time.
Added(t) == Rate * t

\* Since any of its admissions a payer has used, with what it may use now, at most
\* a burst and what was added since then.
WithinBudget ==
  \A k \in Payers : \A i \in 1 .. Len(admitted[k]) :
    /\ admitted[k][i] <= tick
    /\ Len(admitted[k]) - i + 1 + Refilled(k) <= Burst + Added(tick - admitted[k][i])

\* The property, in terms of Added.
PairsBounded ==
  \A k \in Payers : \A i, j \in 1 .. Len(admitted[k]) :
    i <= j => j - i + 1 <= Burst + Added(admitted[k][j] - admitted[k][i])

LimiterInv == LimiterTypeOK /\ BucketsCapped /\ WithinBudget /\ PairsBounded

\* The constants of the limiter.
LEMMA LimiterNumbers ==
  /\ Rate \in Nat /\ Rate > 0 /\ Burst \in Nat /\ Burst > 0
  /\ maxVisitors \in Nat /\ maxVisitors > 0 /\ IdleLimit \in Nat /\ IdleLimit > 0
BY LimiterAssumption

\* The rate adds up, and never takes away.
LEMMA AddedProperties ==
  /\ Added(0) = 0
  /\ \A a \in Int : Added(a) \in Int /\ Added(a + 1) = Added(a) + Rate
  /\ \A a, b \in Int : a <= b => Added(a) <= Added(b)
<1>0. Rate \in Nat /\ Rate > 0
  BY LimiterNumbers
<1>1. Added(0) = 0 /\ \A a \in Int : Added(a) \in Int /\ Added(a + 1) = Added(a) + Rate
  BY <1>0 DEF Added
<1>2. ASSUME NEW a \in Int, NEW b \in Int, a <= b PROVE Added(a) <= Added(b)
  <2>1. b - a \in Nat
    BY <1>2
  <2>2. Rate * (b - a) >= 0
    BY <1>0, <2>1
  <2>3. Rate * b = Rate * a + Rate * (b - a)
    BY <1>0
  <2>4. Rate * a \in Int /\ Rate * b \in Int /\ Rate * (b - a) \in Int
    BY <1>0
  <2> QED
    BY <2>2, <2>3, <2>4 DEF Added
<1> QED
  BY <1>1, <1>2

\* A request is counted for who sent it.
LEMMA CountedForTheSender == ASSUME NEW c \in Connections PROVE ClientIP(c) = c.source
<1>1. CASE c.peer \notin TrustedProxies
  BY <1>1, ProxyAssumption DEF ClientIP
<1>2. CASE c.peer \in TrustedProxies /\ Named(c) # {}
  <2>1. PICK i \in Named(c) : c.source = c.forwarded[i] /\ \A j \in Named(c) : j <= i
    BY <1>2, ProxyAssumption
  <2>2. Named(c) \subseteq Nat
    BY ProxyAssumption DEF Named
  <2>3. Max(Named(c)) = i
    BY <2>1, <2>2 DEF Max
  <2> QED
    BY <1>2, <2>1, <2>3 DEF ClientIP
<1>3. CASE c.peer \in TrustedProxies /\ Named(c) = {}
  BY <1>3, ProxyAssumption DEF ClientIP
<1> QED
  BY <1>1, <1>2, <1>3

\* What a bucket holds is between nothing and a burst.
LEMMA RefilledType ==
  ASSUME LimiterTypeOK, NEW k
  PROVE  Refilled(k) \in 0 .. Burst
<1>0. Rate \in Nat /\ Burst \in Nat
  BY LimiterNumbers
<1>1. CASE k \in DOMAIN visitors
  <2> DEFINE a == visitors[k].tokens
             d == tick - visitors[k].lastSeen
             p == d * Rate
  <2>1. a \in Nat /\ d \in Nat
    BY <1>0, <1>1 DEF LimiterTypeOK
  <2>2. p \in Int /\ p >= 0
    BY <1>0, <2>1
  <2>3. Refilled(k) = Capped(a + p)
    BY <1>1 DEF Refilled
  <2> HIDE DEF a, d, p
  <2> QED
    BY <1>0, <2>1, <2>2, <2>3 DEF Capped
<1>2. CASE k \notin DOMAIN visitors
  BY <1>0, <1>2 DEF Refilled
<1> QED
  BY <1>1, <1>2

\* The first state.
LEMMA LimiterInitially == RLInit => LimiterInv
<1> SUFFICES ASSUME RLInit PROVE LimiterInv
  OBVIOUS
<1>1. DOMAIN visitors = {} /\ tick = 0 /\ admitted = [k \in Payers |-> <<>>]
  BY DEF RLInit, Payers
<1>2. LimiterTypeOK
  BY <1>1 DEF LimiterTypeOK
<1>3. BucketsCapped
  <2>1. DOMAIN visitors \ {overflowBucket} = {}
    BY <1>1
  <2> QED
    BY <1>1, <2>1, FS_EmptySet, LimiterNumbers DEF BucketsCapped
<1>4. \A k \in Payers : Len(admitted[k]) = 0
  BY <1>1
<1>5. WithinBudget /\ PairsBounded
  BY <1>4 DEF WithinBudget, PairsBounded
<1> QED
  BY <1>2, <1>3, <1>5 DEF LimiterInv

\* When nobody is admitted, no bucket may gain more than was added.
LEMMA NobodyAdmitted ==
  ASSUME LimiterInv, LimiterTypeOK', BucketsCapped', admitted' = admitted, NEW d \in {0, 1}, tick' = tick + d,
         \A k \in Payers : Refilled(k)' \in Int /\ Refilled(k)' <= Refilled(k) + Added(d)
  PROVE  LimiterInv'
<1>0. LimiterTypeOK /\ tick \in Nat /\ Burst \in Nat /\ Rate \in Nat
  BY LimiterNumbers DEF LimiterInv, LimiterTypeOK
<1>1. PairsBounded'
  BY DEF LimiterInv, PairsBounded
<1>2. ASSUME NEW k \in Payers, NEW i \in 1 .. Len(admitted[k])
      PROVE  /\ admitted[k][i] <= tick'
             /\ Len(admitted[k]) - i + 1 + Refilled(k)' <= Burst + Added(tick' - admitted[k][i])
  <2> DEFINE s == admitted[k]
             a == s[i]
             n == Len(s)
  <2>1. s \in Seq(Nat)
    BY <1>0 DEF LimiterTypeOK
  <2>2. n \in Nat /\ i \in 1 .. n /\ a \in Nat
    BY <2>1
  <2>3. a <= tick /\ n - i + 1 + Refilled(k) <= Burst + Added(tick - a)
    BY DEF LimiterInv, WithinBudget
  <2> HIDE DEF s, a, n
  <2>4. Refilled(k) \in Int /\ Refilled(k)' \in Int
    BY <1>0, RefilledType
  <2>5. Added(tick' - a) = Added(tick - a) + Added(d)
    <3>1. tick - a \in Int /\ tick' - a = (tick - a) + d
      BY <1>0, <2>2
    <3>2. CASE d = 0
      <4>1. Added(d) = 0 /\ Added(tick - a) \in Int /\ tick' - a = tick - a
        BY <3>1, <3>2, AddedProperties
      <4> QED
        BY <4>1
    <3>3. CASE d = 1
      <4>1. Added(d) = Rate
        BY <1>0, <3>3 DEF Added
      <4> QED
        BY <3>1, <3>3, <4>1, AddedProperties
    <3> QED
      BY <3>2, <3>3
  <2>6. Added(tick - a) \in Int /\ Added(d) \in Int
    BY <1>0, <2>2, AddedProperties
  <2>7. n - i + 1 + Refilled(k)' <= Burst + Added(tick' - a)
    BY <1>0, <2>2, <2>3, <2>4, <2>5, <2>6
  <2>8. a <= tick'
    BY <1>0, <2>2, <2>3
  <2> QED
    BY <2>7, <2>8 DEF s, a, n
<1>3. WithinBudget'
  BY <1>2 DEF WithinBudget
<1> QED
  BY <1>1, <1>3 DEF LimiterInv

\* Time passes.
LEMMA TickStep == ASSUME LimiterInv, Tick PROVE LimiterInv'
<1>0. /\ LimiterTypeOK /\ tick \in Nat /\ tick' = tick + 1 /\ UNCHANGED <<visitors, admitted>>
      /\ Burst \in Nat /\ Rate \in Nat
  BY LimiterNumbers DEF LimiterInv, LimiterTypeOK, Tick
<1>1. LimiterTypeOK'
  BY <1>0 DEF LimiterTypeOK
<1>2. BucketsCapped'
  BY <1>0 DEF LimiterInv, BucketsCapped
<1>3. ASSUME NEW k \in Payers PROVE Refilled(k)' \in Int /\ Refilled(k)' <= Refilled(k) + Rate
  <2>1. CASE k \in DOMAIN visitors
    <3> DEFINE a == visitors[k].tokens
               d == tick - visitors[k].lastSeen
               p == d * Rate
               q == (tick' - visitors[k].lastSeen) * Rate
    <3>1. a \in Nat /\ d \in Nat /\ visitors[k].lastSeen \in Nat
      BY <1>0, <2>1 DEF LimiterTypeOK
    <3>2. p \in Int /\ q = p + Rate
      <4>1. tick' - visitors[k].lastSeen = d + 1
        BY <1>0, <3>1
      <4>2. (d + 1) * Rate = d * Rate + Rate
        BY <1>0, <3>1
      <4> QED
        BY <1>0, <3>1, <4>1, <4>2
    <3>3. Refilled(k) = Capped(a + p) /\ Refilled(k)' = Capped(a + q)
      BY <1>0, <2>1 DEF Refilled
    <3> HIDE DEF a, d, p, q
    <3> QED
      BY <1>0, <3>1, <3>2, <3>3 DEF Capped
  <2>2. CASE k \notin DOMAIN visitors
    BY <1>0, <2>2 DEF Refilled
  <2> QED
    BY <2>1, <2>2
<1>4. Added(1) = Rate
  BY <1>0 DEF Added
<1> QED
  BY <1>0, <1>1, <1>2, <1>3, <1>4, NobodyAdmitted

\* Who is forgotten had a full bucket, and gets one.
LEMMA CleanupStep == ASSUME LimiterInv, CleanupVisitors PROVE LimiterInv'
<1>0. /\ LimiterTypeOK /\ tick \in Nat /\ UNCHANGED <<tick, admitted>>
      /\ visitors' = [k \in Kept |-> visitors[k]]
      /\ Burst \in Nat /\ Rate \in Nat /\ IdleLimit \in Nat /\ Kept \subseteq DOMAIN visitors
  BY LimiterNumbers DEF LimiterInv, LimiterTypeOK, CleanupVisitors, Kept
<1>1. DOMAIN visitors' = Kept /\ \A k \in Kept : visitors'[k] = visitors[k]
  BY <1>0
<1>2. LimiterTypeOK'
  BY <1>0, <1>1 DEF LimiterTypeOK
<1>3. BucketsCapped'
  <2>1. IsFiniteSet(DOMAIN visitors) /\ Cardinality(DOMAIN visitors \ {overflowBucket}) <= maxVisitors
    BY DEF LimiterInv, BucketsCapped
  <2>2. /\ IsFiniteSet(DOMAIN visitors') /\ IsFiniteSet(DOMAIN visitors \ {overflowBucket})
        /\ IsFiniteSet(DOMAIN visitors' \ {overflowBucket})
    BY <1>0, <1>1, <2>1, FS_Subset
  <2>3. DOMAIN visitors' \ {overflowBucket} \subseteq DOMAIN visitors \ {overflowBucket}
    BY <1>0, <1>1
  <2>4. Cardinality(DOMAIN visitors' \ {overflowBucket}) <= Cardinality(DOMAIN visitors \ {overflowBucket})
    BY <2>2, <2>3, FS_Subset
  <2>5. /\ Cardinality(DOMAIN visitors' \ {overflowBucket}) \in Nat
        /\ Cardinality(DOMAIN visitors \ {overflowBucket}) \in Nat
    BY <2>2, FS_CardinalityType
  <2> QED
    BY <2>1, <2>2, <2>4, <2>5, LimiterNumbers DEF BucketsCapped
<1>4. ASSUME NEW k \in Payers PROVE Refilled(k)' = Refilled(k)
  <2>1. CASE k \in Kept
    BY <1>0, <1>1, <2>1 DEF Refilled
  <2>2. CASE k \notin DOMAIN visitors
    BY <1>0, <1>1, <2>2 DEF Refilled
  <2>3. CASE k \in DOMAIN visitors /\ k \notin Kept
    <3> DEFINE a == visitors[k].tokens
               d == tick - visitors[k].lastSeen
    <3>1. a \in Nat /\ d \in Nat /\ d > IdleLimit
      BY <1>0, <2>3 DEF LimiterTypeOK, Kept
    <3>2. Refilled(k) = Capped(a + d * Rate)
      BY <2>3 DEF Refilled
    <3> HIDE DEF a, d
    <3>3. Added(IdleLimit) <= Added(d) /\ Added(IdleLimit) \in Int /\ Added(d) \in Int
      <4>1. IdleLimit \in Int /\ d \in Int /\ IdleLimit <= d
        BY <1>0, <3>1
      <4> QED
        BY <4>1, AddedProperties
    <3>4. Burst <= Added(IdleLimit) /\ d * Rate = Added(d)
      BY <1>0, <3>1, LimiterAssumption DEF Added
    <3>5. Capped(a + d * Rate) = Burst
      BY <1>0, <3>1, <3>3, <3>4 DEF Capped
    <3>6. Refilled(k)' = Burst
      BY <1>1, <2>3 DEF Refilled
    <3> QED
      BY <3>2, <3>5, <3>6
  <2> QED
    BY <1>0, <2>1, <2>2, <2>3
<1>5. ASSUME NEW k \in Payers PROVE Refilled(k)' \in Int /\ Refilled(k)' <= Refilled(k) + Added(0)
  <2>1. Refilled(k) \in Int /\ Added(0) = 0
    BY <1>0, RefilledType, AddedProperties
  <2> QED
    BY <1>4, <2>1
<1>6. tick' = tick + 0
  BY <1>0
<1> QED
  BY <1>0, <1>2, <1>3, <1>5, <1>6, NobodyAdmitted

\* A request takes a token of its bucket, or is refused.
LEMMA RateLimitStep == ASSUME LimiterInv, NEW c \in Connections, RateLimit(c) PROVE LimiterInv'
<1>key. PICK key : key = BucketOf(ClientIP(c))
  OBVIOUS
<1> DEFINE tokens == Refilled(key)
           left == IF tokens < 1 THEN tokens ELSE tokens - 1
           bucket == [tokens |-> left, lastSeen |-> tick]
<1>0. /\ LimiterTypeOK /\ tick \in Nat /\ tick' = tick /\ Burst \in Nat /\ Rate \in Nat /\ Burst > 0
      /\ admitted \in [Payers -> Seq(Nat)]
  BY LimiterNumbers DEF LimiterInv, LimiterTypeOK, RateLimit
<1>1. key \in Payers /\ key \in {c.source, overflowBucket}
  BY <1>key, CountedForTheSender DEF BucketOf, Payers, Addresses
<1>2. tokens \in 0 .. Burst
  BY <1>0, RefilledType
<1>3. left \in 0 .. Burst /\ (tokens >= 1 => left = tokens - 1) /\ (tokens < 1 => left = tokens)
  <2> HIDE DEF tokens
  <2> QED
    BY <1>0, <1>2
<1>4. bucket.tokens = left /\ bucket.lastSeen = tick
  OBVIOUS
<1>5. visitors' = [k \in DOMAIN visitors \cup {key} |-> IF k = key THEN bucket ELSE visitors[k]]
  BY <1>key DEF RateLimit
<1>6. \/ tokens < 1 /\ admitted' = admitted
      \/ tokens >= 1 /\ admitted' = [admitted EXCEPT ![key] = Append(@, tick)]
  <2>1. key = overflowBucket \/ (key # overflowBucket /\ key = c.source)
    BY <1>1
  <2>2. tokens < 1 \/ tokens >= 1
    BY <1>2
  <2>3. admitted' = IF tokens < 1 THEN admitted ELSE [admitted EXCEPT ![key] = Append(@, tick)]
    BY <1>key, <2>1 DEF RateLimit
  <2>4. ~(tokens >= 1 /\ tokens < 1)
    BY <1>2
  <2> QED
    BY <2>2, <2>3, <2>4
<1> HIDE DEF bucket, left
<1>7. /\ DOMAIN visitors' = DOMAIN visitors \cup {key} /\ visitors'[key] = bucket
      /\ \A k \in DOMAIN visitors : k # key => visitors'[k] = visitors[k]
  BY <1>5
<1>8. Refilled(key)' = left
  <2>1. Refilled(key)' = Capped(left + (tick - tick) * Rate)
    <3>1. key \in DOMAIN visitors' /\ visitors'[key].tokens = left /\ visitors'[key].lastSeen = tick
      BY <1>4, <1>7
    <3> QED
      BY <1>0, <3>1 DEF Refilled
  <2>2. (tick - tick) * Rate = 0
    BY <1>0
  <2> QED
    BY <1>0, <1>3, <2>1, <2>2 DEF Capped
<1>9. \A k : k # key => Refilled(k)' = Refilled(k)
  BY <1>0, <1>7 DEF Refilled
<1>10. LimiterTypeOK'
  <2>1. ASSUME NEW k \in DOMAIN visitors'
        PROVE  visitors'[k].tokens \in 0 .. Burst /\ visitors'[k].lastSeen \in 0 .. tick'
    <3>1. CASE k = key
      BY <1>0, <1>3, <1>4, <1>7, <3>1
    <3>2. CASE k # key
      BY <1>0, <1>7, <3>2 DEF LimiterTypeOK
    <3> QED
      BY <3>1, <3>2
  <2>2. admitted' \in [Payers -> Seq(Nat)]
    <3>1. admitted[key] \in Seq(Nat)
      BY <1>0, <1>1
    <3>2. Append(admitted[key], tick) \in Seq(Nat)
      BY <1>0, <3>1
    <3> QED
      BY <1>0, <1>6, <3>2
  <2> QED
    BY <1>0, <2>1, <2>2 DEF LimiterTypeOK
<1>11. BucketsCapped'
  <2> DEFINE D == DOMAIN visitors
             own == D \ {overflowBucket}
             own2 == (D \cup {key}) \ {overflowBucket}
  <2>1. IsFiniteSet(D) /\ Cardinality(own) <= maxVisitors
    BY DEF LimiterInv, BucketsCapped
  <2>2. IsFiniteSet(own) /\ Cardinality(own) <= Cardinality(D) /\ IsFiniteSet(D \cup {key})
    BY <2>1, FS_Subset, FS_AddElement
  <2>3. CASE own2 = own
    BY <1>7, <2>1, <2>2, <2>3 DEF BucketsCapped
  <2>4. CASE own2 # own
    <3>1. key \notin D /\ key # overflowBucket
      BY <2>4
    <3>2. ~(Cardinality(D) >= maxVisitors)
      BY <1>key, <3>1 DEF BucketOf
    <3>3. own2 = own \cup {key} /\ key \notin own
      BY <3>1
    <3>4. Cardinality(own2) = Cardinality(own) + 1
      BY <2>2, <3>3, FS_AddElement
    <3>5. Cardinality(own) \in Nat /\ Cardinality(D) \in Nat /\ maxVisitors \in Nat
      BY <2>1, <2>2, FS_CardinalityType, LimiterNumbers
    <3> HIDE DEF own, own2, D
    <3>6. Cardinality(own2) <= maxVisitors
      BY <2>2, <3>2, <3>4, <3>5
    <3> QED
      BY <1>7, <2>2, <3>6 DEF BucketsCapped, own2, D
  <2> QED
    BY <2>3, <2>4
<1> HIDE DEF tokens
<1>12. ASSUME NEW k \in Payers
       PROVE  /\ \A i \in 1 .. Len(admitted'[k]) :
                   /\ admitted'[k][i] <= tick
                   /\ Len(admitted'[k]) - i + 1 + Refilled(k)' <= Burst + Added(tick - admitted'[k][i])
              /\ \A i, j \in 1 .. Len(admitted'[k]) :
                   i <= j => j - i + 1 <= Burst + Added(admitted'[k][j] - admitted'[k][i])
  <2> DEFINE s == admitted[k]
             n == Len(s)
  <2>1. s \in Seq(Nat) /\ n \in Nat /\ \A i \in 1 .. n : s[i] \in Nat
    BY <1>0
  <2>2. /\ \A i \in 1 .. n : s[i] <= tick /\ n - i + 1 + Refilled(k) <= Burst + Added(tick - s[i])
        /\ \A i, j \in 1 .. n : i <= j => j - i + 1 <= Burst + Added(s[j] - s[i])
    BY DEF LimiterInv, WithinBudget, PairsBounded
  <2>3. CASE k # key \/ tokens < 1
    <3>1. admitted'[k] = s
      BY <1>0, <1>1, <1>2, <1>6, <2>3
    <3>2. Refilled(k)' = Refilled(k)
      BY <1>3, <1>8, <1>9, <2>3 DEF tokens
    <3> QED
      BY <2>2, <3>1, <3>2
  <2>4. CASE k = key /\ tokens >= 1
    <3>1. admitted'[k] = Append(s, tick)
      BY <1>0, <1>1, <1>2, <1>6, <2>4
    <3>2. Refilled(k) = tokens /\ Refilled(k)' = tokens - 1
      BY <1>3, <1>8, <2>4 DEF tokens
    <3> DEFINE s2 == Append(s, tick)
    <3>3. Len(s2) = n + 1 /\ s2[n + 1] = tick /\ \A i \in 1 .. n : s2[i] = s[i]
      BY <1>0, <2>1
    <3> HIDE DEF s, s2, n
    <3>4. ASSUME NEW i \in 1 .. n + 1
          PROVE  /\ s2[i] \in Nat /\ s2[i] <= tick /\ Added(tick - s2[i]) \in Int
                 /\ (n + 1) - i + 1 + (tokens - 1) <= Burst + Added(tick - s2[i])
      <4>1. CASE i \in 1 .. n
        <5>1. s2[i] = s[i] /\ s[i] \in Nat /\ s[i] <= tick
              /\ n - i + 1 + tokens <= Burst + Added(tick - s[i])
          BY <2>1, <2>2, <3>2, <3>3, <4>1
        <5>2. Added(tick - s[i]) \in Int
          <6>1. tick - s[i] \in Int
            BY <1>0, <5>1
          <6> QED
            BY <6>1, AddedProperties
        <5> QED
          BY <1>0, <1>2, <2>1, <3>3, <5>1, <5>2
      <4>2. CASE i = n + 1
        <5>1. s2[i] = tick /\ Added(tick - s2[i]) = 0
          BY <1>0, <3>3, <4>2, AddedProperties
        <5> QED
          BY <1>0, <1>2, <2>1, <4>2, <5>1
      <4> QED
        BY <2>1, <4>1, <4>2
    <3>5. ASSUME NEW i \in 1 .. n + 1, NEW j \in 1 .. n + 1, i <= j
          PROVE  j - i + 1 <= Burst + Added(s2[j] - s2[i])
      <4>1. CASE j \in 1 .. n
        <5>1. i \in 1 .. n
          BY <2>1, <3>5, <4>1
        <5> QED
          BY <2>2, <3>3, <3>5, <4>1, <5>1
      <4>2. CASE j = n + 1
        <5>1. s2[j] = tick /\ (n + 1) - i + 1 + (tokens - 1) <= Burst + Added(tick - s2[i])
              /\ Added(tick - s2[i]) \in Int
          BY <3>3, <3>4, <4>2
        <5> QED
          BY <1>0, <1>2, <2>1, <2>4, <4>2, <5>1
      <4> QED
        BY <2>1, <4>1, <4>2
    <3>6. admitted'[k] = s2 /\ Len(s2) = n + 1
      BY <3>1, <3>3 DEF s2
    <3> QED
      BY <3>2, <3>4, <3>5, <3>6
  <2>5. (k # key \/ tokens < 1) \/ (k = key /\ tokens >= 1)
    BY <1>2
  <2> QED
    BY <2>3, <2>4, <2>5
<1>13. WithinBudget' /\ PairsBounded'
  BY <1>0, <1>12 DEF WithinBudget, PairsBounded
<1> QED
  BY <1>10, <1>11, <1>13 DEF LimiterInv

(***************************************************************************)
(* Over any interval a sender is let through at most a burst and what the  *)
(* rate adds, however many senders, buckets and requests there are,        *)
(* whatever a client writes in its headers and whenever the cleanup runs   *)
(* (RateLimit, ClientIP): a bucket that is forgotten had been full.        *)
(***************************************************************************)
THEOREM AdmissionsAreBounded == RLSpec => []AdmissionIsBounded
<1>1. LimiterInv /\ [RLNext]_rlVars => LimiterInv'
  <2> SUFFICES ASSUME LimiterInv, [RLNext]_rlVars PROVE LimiterInv'
    OBVIOUS
  <2>1. CASE UNCHANGED rlVars
    <3>1. UNCHANGED <<visitors, tick, admitted>>
      BY <2>1 DEF rlVars
    <3> QED
      BY <3>1 DEF LimiterInv, LimiterTypeOK, BucketsCapped, WithinBudget, PairsBounded, Refilled
  <2> QED
    BY <2>1, TickStep, CleanupStep, RateLimitStep DEF RLNext
<1>2. LimiterInv => AdmissionIsBounded
  <2> SUFFICES ASSUME LimiterInv PROVE AdmissionIsBounded
    OBVIOUS
  <2>1. DOMAIN admitted = Payers /\ \A k \in Payers : admitted[k] \in Seq(Nat)
    BY DEF LimiterInv, LimiterTypeOK
  <2>2. \A k \in Payers : DOMAIN admitted[k] = 1 .. Len(admitted[k])
    BY <2>1
  <2>3. \A who \in DOMAIN admitted : \A i, j \in DOMAIN admitted[who] :
          i <= j => j - i + 1 <= Burst + Rate * (admitted[who][j] - admitted[who][i])
    BY <2>1, <2>2 DEF LimiterInv, PairsBounded, Added
  <2>4. Cardinality(DOMAIN visitors) <= maxVisitors + 1
    <3> DEFINE D == DOMAIN visitors
               own == D \ {overflowBucket}
    <3>1. IsFiniteSet(D) /\ Cardinality(own) <= maxVisitors /\ maxVisitors \in Nat
      BY LimiterNumbers DEF LimiterInv, BucketsCapped
    <3>2. IsFiniteSet(own) /\ overflowBucket \notin own
      BY <3>1, FS_Subset
    <3>3. IsFiniteSet(own \cup {overflowBucket}) /\ Cardinality(own \cup {overflowBucket}) = Cardinality(own) + 1
      BY <3>2, FS_AddElement
    <3>4. D \subseteq own \cup {overflowBucket}
      OBVIOUS
    <3>5. Cardinality(D) <= Cardinality(own \cup {overflowBucket})
      BY <3>3, <3>4, FS_Subset
    <3>6. Cardinality(D) \in Nat /\ Cardinality(own) \in Nat
      BY <3>1, <3>2, FS_CardinalityType
    <3> HIDE DEF D, own
    <3>7. Cardinality(D) <= maxVisitors + 1
      BY <3>1, <3>3, <3>5, <3>6
    <3> QED
      BY <3>7 DEF D
  <2> QED
    BY <2>3, <2>4 DEF AdmissionIsBounded
<1> QED
  BY <1>1, <1>2, LimiterInitially, PTL DEF RLSpec

-----------------------------------------------------------------------------
(* The cache of ResponseCache. *)

\* A set of numbers below some number has a last one: else the numbers up to one of it
\* would be mapped to the next ones, one by one and without a first.
LEMMA FrontExists ==
  ASSUME NEW n \in Nat, NEW S \in SUBSET (0 .. n), S # {}
  PROVE  Max(S) \in S /\ \A i \in S : i <= Max(S)
<1> DEFINE upTo == {k \in 0 .. n : \E i \in S : k <= i}
           next == [k \in upTo |-> k + 1]
<1>1. ASSUME \A i \in S : \E j \in S : ~ (i >= j) PROVE FALSE
  <2>1. next \in [upTo -> upTo \ {0}]
    <3> SUFFICES ASSUME NEW k \in upTo PROVE k + 1 \in upTo \ {0}
      OBVIOUS
    <3>1. PICK i \in S : k <= i
      OBVIOUS
    <3>2. PICK j \in S : ~ (i >= j)
      BY <1>1
    <3>3. k \in 0 .. n /\ i \in 0 .. n /\ j \in 0 .. n
      OBVIOUS
    <3>4. k + 1 \in 0 .. n /\ k + 1 <= j /\ k + 1 # 0
      BY <3>1, <3>2, <3>3
    <3> QED
      BY <3>4
  <2>2. 0 \in upTo
    <3>1. PICK i \in S : i \in 0 .. n
      OBVIOUS
    <3>2. 0 \in 0 .. n /\ 0 <= i
      BY <3>1
    <3> QED
      BY <3>2
  <2>3. IsFiniteSet(upTo)
    <3>1. IsFiniteSet(0 .. n) /\ upTo \in SUBSET (0 .. n)
      BY FS_Interval
    <3> QED
      BY <3>1, FS_Subset
  <2>4. \A k, l \in upTo : next[k] = next[l] => k = l
    <3>1. \A k \in upTo : next[k] = k + 1 /\ k \in Int
      OBVIOUS
    <3> QED
      BY <3>1
  <2> HIDE DEF upTo, next
  <2>5. Cardinality(upTo) \in Nat
    BY <2>3, FS_CardinalityType
  <2>6. IsFiniteSet(upTo \ {0}) /\ Cardinality(upTo \ {0}) = Cardinality(upTo) - 1
    BY <2>2, <2>3, FS_RemoveElement
  <2>7. Cardinality(upTo \ {0}) < Cardinality(upTo)
    BY <2>5, <2>6
  <2> QED
    BY <2>1, <2>3, <2>4, <2>6, <2>7, FS_PigeonHole
<1>2. PICK i \in S : \A j \in S : i >= j
  BY <1>1
<1>3. Max(S) \in S /\ \A j \in S : Max(S) >= j
  BY <1>2 DEF Max
<1> QED
  BY <1>3

\* The elements of a list have numbers and sizes; no two are of one URI.
ListFits(list) ==
  /\ \E n \in Nat : DOMAIN list \subseteq 1 .. n
  /\ \A i \in DOMAIN list : list[i].size \in Nat /\ list[i].size <= maxCacheEntryBytes
  /\ \A i, j \in DOMAIN list : list[i].key = list[j].key => i = j

\* The map leads to the elements of the list, each under its key.
MapFits(map, list) ==
  /\ \A i \in DOMAIN list : list[i].key \in DOMAIN map /\ map[list[i].key] = list[i]
  /\ \A k \in DOMAIN map : \E i \in DOMAIN list : list[i].key = k

\* Map, list and byte count tell the same story.
StoryFits(c) ==
  /\ ListFits(c.lru)
  /\ MapFits(c.entries, c.lru)
  /\ c.bytes = Bytes(c.lru)

\* The bytes of an element, and those of a list.
BytesOf(list, i) == {i} \X (1 .. list[i].size)
AllBytes(list) == UNION {BytesOf(list, i) : i \in DOMAIN list}

LEMMA BytesAreFinite ==
  ASSUME NEW list, ListFits(list)
  PROVE  /\ IsFiniteSet(AllBytes(list)) /\ Bytes(list) = Cardinality(AllBytes(list)) /\ Bytes(list) \in Nat
         /\ DOMAIN list = {} => Bytes(list) = 0
<1>1. PICK n \in Nat : DOMAIN list \subseteq 1 .. n
  BY DEF ListFits
<1>2. maxCacheEntryBytes \in Nat
  BY CacheAssumption
<1>3. AllBytes(list) \subseteq (1 .. n) \X (1 .. maxCacheEntryBytes)
  <2> SUFFICES ASSUME NEW i \in DOMAIN list, NEW x \in BytesOf(list, i)
               PROVE  x \in (1 .. n) \X (1 .. maxCacheEntryBytes)
    BY DEF AllBytes
  <2>1. list[i].size \in Nat /\ list[i].size <= maxCacheEntryBytes
    BY DEF ListFits
  <2>2. 1 .. list[i].size \subseteq 1 .. maxCacheEntryBytes
    BY <1>2, <2>1
  <2>3. i \in 1 .. n
    BY <1>1
  <2> QED
    BY <2>2, <2>3 DEF BytesOf
<1>4. IsFiniteSet((1 .. n) \X (1 .. maxCacheEntryBytes))
  <2>1. IsFiniteSet(1 .. n) /\ IsFiniteSet(1 .. maxCacheEntryBytes)
    BY <1>2, FS_Interval
  <2> QED
    BY <2>1, FS_Product
<1>5. IsFiniteSet(AllBytes(list)) /\ Cardinality(AllBytes(list)) \in Nat
  BY <1>3, <1>4, FS_Subset, FS_CardinalityType
<1>6. Bytes(list) = Cardinality(AllBytes(list))
  BY DEF Bytes, AllBytes, BytesOf
<1>7. ASSUME DOMAIN list = {} PROVE Bytes(list) = 0
  <2>1. AllBytes(list) = {}
    BY <1>7 DEF AllBytes
  <2> QED
    BY <1>6, <2>1, FS_EmptySet
<1> QED
  BY <1>5, <1>6, <1>7

\* The bytes of a list are those of the elements that go and of those that stay.
LEMMA BytesSplit ==
  ASSUME NEW list, ListFits(list), NEW gone \in SUBSET DOMAIN list
  PROVE  /\ ListFits(Only(list, gone)) /\ ListFits(Only(list, DOMAIN list \ gone))
         /\ Bytes(list) = Bytes(Only(list, gone)) + Bytes(Only(list, DOMAIN list \ gone))
<1> DEFINE out == Only(list, gone)
           in == Only(list, DOMAIN list \ gone)
<1>1. /\ DOMAIN out = gone /\ DOMAIN in = DOMAIN list \ gone
      /\ \A i \in gone : out[i] = list[i]
      /\ \A i \in DOMAIN list \ gone : in[i] = list[i]
  BY DEF Only
<1> HIDE DEF out, in
<1>2. ListFits(out) /\ ListFits(in)
  <2>1. PICK n \in Nat : DOMAIN list \subseteq 1 .. n
    BY DEF ListFits
  <2>2. DOMAIN out \subseteq 1 .. n /\ DOMAIN in \subseteq 1 .. n
    BY <1>1, <2>1
  <2>3. ListFits(out)
    BY <1>1, <2>2 DEF ListFits
  <2>4. ListFits(in)
    BY <1>1, <2>2 DEF ListFits
  <2> QED
    BY <2>3, <2>4
<1>3. AllBytes(list) = AllBytes(out) \cup AllBytes(in)
  <2>1. \A i \in gone : BytesOf(out, i) = BytesOf(list, i)
    BY <1>1 DEF BytesOf
  <2>2. \A i \in DOMAIN list \ gone : BytesOf(in, i) = BytesOf(list, i)
    BY <1>1 DEF BytesOf
  <2> QED
    BY <1>1, <2>1, <2>2 DEF AllBytes
<1>4. AllBytes(out) \cap AllBytes(in) = {}
  <2> SUFFICES ASSUME NEW i \in DOMAIN out, NEW j \in DOMAIN in, NEW x \in BytesOf(out, i), x \in BytesOf(in, j)
               PROVE  FALSE
    BY DEF AllBytes
  <2>1. x[1] = i /\ x[1] = j
    BY DEF BytesOf
  <2> QED
    BY <1>1, <2>1
<1>5. /\ IsFiniteSet(AllBytes(out)) /\ IsFiniteSet(AllBytes(in))
      /\ Bytes(out) = Cardinality(AllBytes(out)) /\ Bytes(in) = Cardinality(AllBytes(in))
      /\ Bytes(list) = Cardinality(AllBytes(list)) /\ Bytes(out) \in Nat /\ Bytes(in) \in Nat
  BY <1>2, BytesAreFinite
<1>6. Cardinality(AllBytes(list)) = Cardinality(AllBytes(out)) + Cardinality(AllBytes(in))
                                    - Cardinality(AllBytes(out) \cap AllBytes(in))
  BY <1>3, <1>5, FS_Union
<1>7. Cardinality(AllBytes(out) \cap AllBytes(in)) = 0
  BY <1>4, FS_EmptySet
<1> QED
  BY <1>2, <1>5, <1>6, <1>7 DEF out, in

\* The bytes of one element are its size.
LEMMA BytesOfOne ==
  ASSUME NEW list, ListFits(list), NEW i \in DOMAIN list
  PROVE  Bytes(Only(list, {i})) = list[i].size
<1> DEFINE one == Only(list, {i})
           n == list[i].size
<1>1. DOMAIN one = {i} /\ one[i] = list[i]
  BY DEF Only
<1>2. ListFits(one)
  BY BytesSplit
<1>3. n \in Nat
  BY DEF ListFits
<1> HIDE DEF one
<1>4. AllBytes(one) = {i} \X (1 .. n)
  BY <1>1 DEF AllBytes, BytesOf
<1> HIDE DEF n
<1>5. IsFiniteSet({i}) /\ Cardinality({i}) = 1
  BY FS_Singleton
<1>6. IsFiniteSet(1 .. n) /\ Cardinality(1 .. n) = n
  BY <1>3, FS_Interval
<1>7. Cardinality({i} \X (1 .. n)) = 1 * n
  BY <1>5, <1>6, FS_Product
<1>8. Bytes(one) = Cardinality({i} \X (1 .. n))
  BY <1>2, <1>4, BytesAreFinite
<1> QED
  BY <1>3, <1>7, <1>8 DEF one, n

\* Removing elements keeps the story.
LEMMA RemovedFits ==
  ASSUME NEW c, StoryFits(c), NEW gone \in SUBSET DOMAIN c.lru
  PROVE  /\ StoryFits(Removed(c, gone))
         /\ DOMAIN Removed(c, gone).lru = DOMAIN c.lru \ gone
         /\ \A i \in DOMAIN c.lru \ gone : Removed(c, gone).lru[i] = c.lru[i]
         /\ DOMAIN Removed(c, gone).entries = DOMAIN c.entries \ {c.lru[i].key : i \in gone}
<1> DEFINE keys == {c.lru[i].key : i \in gone}
           map == Only(c.entries, DOMAIN c.entries \ keys)
           list == Only(c.lru, DOMAIN c.lru \ gone)
<1>1. ListFits(c.lru) /\ MapFits(c.entries, c.lru) /\ c.bytes = Bytes(c.lru)
  BY DEF StoryFits
<1>2. Removed(c, gone).entries = map /\ Removed(c, gone).lru = list
      /\ Removed(c, gone).bytes = c.bytes - Bytes(Only(c.lru, gone))
  BY DEF Removed
<1>3. /\ DOMAIN list = DOMAIN c.lru \ gone /\ \A i \in DOMAIN c.lru \ gone : list[i] = c.lru[i]
      /\ DOMAIN map = DOMAIN c.entries \ keys /\ \A k \in DOMAIN c.entries \ keys : map[k] = c.entries[k]
  BY DEF Only
<1>4. ListFits(list) /\ Bytes(list) \in Nat /\ c.bytes - Bytes(Only(c.lru, gone)) = Bytes(list)
  <2>1. /\ ListFits(Only(c.lru, gone)) /\ ListFits(list)
        /\ Bytes(c.lru) = Bytes(Only(c.lru, gone)) + Bytes(list)
    BY <1>1, BytesSplit
  <2>2. Bytes(list) \in Nat /\ Bytes(Only(c.lru, gone)) \in Nat
    BY <2>1, BytesAreFinite
  <2> HIDE DEF list
  <2> QED
    BY <1>1, <2>1, <2>2
<1> HIDE DEF map, list
<1>5. MapFits(map, list)
  <2>1. ASSUME NEW i \in DOMAIN list PROVE list[i].key \in DOMAIN map /\ map[list[i].key] = list[i]
    <3>1. i \in DOMAIN c.lru /\ i \notin gone /\ list[i] = c.lru[i]
      BY <1>3
    <3>2. c.lru[i].key \in DOMAIN c.entries /\ c.entries[c.lru[i].key] = c.lru[i]
      BY <1>1, <3>1 DEF MapFits
    <3>3. c.lru[i].key \notin keys
      BY <1>1, <3>1 DEF ListFits
    <3> QED
      BY <1>3, <3>1, <3>2, <3>3
  <2>2. ASSUME NEW k \in DOMAIN map PROVE \E i \in DOMAIN list : list[i].key = k
    <3>1. k \in DOMAIN c.entries /\ k \notin keys
      BY <1>3
    <3>2. PICK i \in DOMAIN c.lru : c.lru[i].key = k
      BY <1>1, <3>1 DEF MapFits
    <3>3. i \notin gone
      BY <3>1, <3>2
    <3> QED
      BY <1>3, <3>2, <3>3
  <2> QED
    BY <2>1, <2>2 DEF MapFits
<1> QED
  BY <1>2, <1>3, <1>4, <1>5 DEF StoryFits

\* The front has the greatest number.
LEMMA FrontIsLast ==
  ASSUME NEW list, ListFits(list)
  PROVE  FrontOf(list) \in Nat /\ \A i \in DOMAIN list : i \in Nat /\ i <= FrontOf(list)
<1>1. PICK n \in Nat : DOMAIN list \subseteq 1 .. n
  BY DEF ListFits
<1>2. CASE DOMAIN list = {}
  BY <1>2 DEF FrontOf
<1>3. CASE DOMAIN list # {}
  <2>1. DOMAIN list \in SUBSET (0 .. n)
    BY <1>1
  <2>2. Max(DOMAIN list) \in DOMAIN list /\ \A i \in DOMAIN list : i <= Max(DOMAIN list)
    BY <1>3, <2>1, FrontExists
  <2>3. FrontOf(list) = Max(DOMAIN list)
    BY <1>3 DEF FrontOf
  <2> QED
    BY <1>1, <2>2, <2>3
<1> QED
  BY <1>2, <1>3

\* An element at the front brings its bytes.
LEMMA ListPushed ==
  ASSUME NEW list, ListFits(list), NEW e, e.size \in Nat, e.size <= maxCacheEntryBytes,
         \A i \in DOMAIN list : list[i].key # e.key
  PROVE  /\ ListFits(AtFront(list, e))
         /\ Bytes(AtFront(list, e)) = Bytes(list) + e.size
         /\ DOMAIN AtFront(list, e) = DOMAIN list \cup {FrontOf(list) + 1}
         /\ FrontOf(list) + 1 \notin DOMAIN list
         /\ AtFront(list, e)[FrontOf(list) + 1] = e
         /\ \A i \in DOMAIN list : AtFront(list, e)[i] = list[i]
<1> DEFINE n == FrontOf(list) + 1
           new == AtFront(list, e)
<1>1. n \in Nat /\ n >= 1 /\ \A i \in DOMAIN list : i \in Nat /\ i < n
  BY FrontIsLast
<1>2. new = [i \in DOMAIN list \cup {n} |-> IF i = n THEN e ELSE list[i]]
  BY DEF AtFront
<1> HIDE DEF n, new
<1>3. /\ DOMAIN new = DOMAIN list \cup {n} /\ n \notin DOMAIN list /\ new[n] = e
      /\ \A i \in DOMAIN list : new[i] = list[i]
  BY <1>1, <1>2
<1>4. ListFits(new)
  <2>1. DOMAIN list \subseteq 1 .. n /\ DOMAIN new \subseteq 1 .. n
    <3>1. \A i \in DOMAIN list : i >= 1
      BY DEF ListFits
    <3> QED
      BY <1>1, <1>3, <3>1
  <2>2. \A i \in DOMAIN new : new[i].size \in Nat /\ new[i].size <= maxCacheEntryBytes
    BY <1>3 DEF ListFits
  <2>3. \A i, j \in DOMAIN new : new[i].key = new[j].key => i = j
    BY <1>3 DEF ListFits
  <2> QED
    BY <1>1, <2>1, <2>2, <2>3 DEF ListFits
<1>5. Bytes(new) = Bytes(list) + e.size
  <2>1. {n} \in SUBSET DOMAIN new
    BY <1>3
  <2>2. /\ ListFits(Only(new, {n})) /\ ListFits(Only(new, DOMAIN new \ {n}))
        /\ Bytes(new) = Bytes(Only(new, {n})) + Bytes(Only(new, DOMAIN new \ {n}))
    BY <1>4, <2>1, BytesSplit
  <2>3. Bytes(Only(new, DOMAIN new \ {n})) = Bytes(list)
    <3>1. DOMAIN new \ {n} = DOMAIN list
      BY <1>3
    <3>2. Only(new, DOMAIN list) = [i \in DOMAIN list |-> list[i]]
      BY <1>3 DEF Only
    <3>3. \A i \in DOMAIN list : Only(new, DOMAIN list)[i] = list[i] /\ DOMAIN Only(new, DOMAIN list) = DOMAIN list
      BY <3>2
    <3>4. AllBytes(Only(new, DOMAIN list)) = AllBytes(list)
      <4>1. DOMAIN Only(new, DOMAIN list) = DOMAIN list
        BY <3>2
      <4>2. \A i \in DOMAIN list : BytesOf(Only(new, DOMAIN list), i) = BytesOf(list, i)
        BY <3>3 DEF BytesOf
      <4> QED
        BY <4>1, <4>2 DEF AllBytes
    <3> QED
      BY <2>2, <3>1, <3>4, BytesAreFinite
  <2>4. Bytes(Only(new, {n})) = e.size
    BY <1>3, <1>4, BytesOfOne
  <2>5. Bytes(list) \in Nat
    BY BytesAreFinite
  <2> QED
    BY <2>2, <2>3, <2>4, <2>5
<1> QED
  BY <1>3, <1>4, <1>5 DEF n, new

\* A new entry at the front keeps the story, when its URI has none.
LEMMA PushedFits ==
  ASSUME NEW c, StoryFits(c), NEW e, e.size \in Nat, e.size <= maxCacheEntryBytes,
         e.key \notin DOMAIN c.entries
  PROVE  StoryFits(PushFront(c, e))
<1> DEFINE n == FrontOf(c.lru) + 1
           list == AtFront(c.lru, e)
           map == [k \in DOMAIN c.entries \cup {e.key} |-> IF k = e.key THEN e ELSE c.entries[k]]
<1>1. ListFits(c.lru) /\ MapFits(c.entries, c.lru) /\ c.bytes = Bytes(c.lru)
  BY DEF StoryFits
<1>2. PushFront(c, e).lru = list /\ PushFront(c, e).entries = map /\ PushFront(c, e).bytes = c.bytes + e.size
  BY DEF PushFront
<1>3. \A i \in DOMAIN c.lru : c.lru[i].key # e.key
  BY <1>1 DEF MapFits
<1>4. /\ ListFits(list) /\ Bytes(list) = Bytes(c.lru) + e.size
      /\ DOMAIN list = DOMAIN c.lru \cup {n} /\ n \notin DOMAIN c.lru /\ list[n] = e
      /\ \A i \in DOMAIN c.lru : list[i] = c.lru[i]
  BY <1>1, <1>3, ListPushed
<1>5. /\ DOMAIN map = DOMAIN c.entries \cup {e.key} /\ map[e.key] = e
      /\ \A k \in DOMAIN c.entries : map[k] = c.entries[k]
  OBVIOUS
<1> HIDE DEF n, list, map
<1>6. MapFits(map, list)
  <2>1. ASSUME NEW i \in DOMAIN list PROVE list[i].key \in DOMAIN map /\ map[list[i].key] = list[i]
    BY <1>1, <1>4, <1>5 DEF MapFits
  <2>2. ASSUME NEW k \in DOMAIN map PROVE \E i \in DOMAIN list : list[i].key = k
    <3>1. CASE k = e.key
      BY <1>4, <3>1
    <3>2. CASE k # e.key
      <4>1. PICK i \in DOMAIN c.lru : c.lru[i].key = k
        BY <1>1, <1>5, <3>2 DEF MapFits
      <4> QED
        BY <1>4, <4>1
    <3> QED
      BY <3>1, <3>2
  <2> QED
    BY <2>1, <2>2 DEF MapFits
<1> QED
  BY <1>1, <1>2, <1>4, <1>6 DEF StoryFits

\* The place of an entry is that of its key, and replacing it makes room for another.
LEMMA ReplacedFits ==
  ASSUME NEW c, StoryFits(c), NEW e
  PROVE  StoryFits(Replaced(c, e)) /\ e.key \notin DOMAIN Replaced(c, e).entries
<1>1. CASE e.key \notin DOMAIN c.entries
  BY <1>1 DEF Replaced
<1>2. CASE e.key \in DOMAIN c.entries
  <2> DEFINE gone == Places(c.lru, c.entries[e.key])
  <2>1. Replaced(c, e) = Removed(c, gone)
    BY <1>2 DEF Replaced
  <2>2. gone \in SUBSET DOMAIN c.lru
    BY DEF Places
  <2>3. PICK i \in DOMAIN c.lru : c.lru[i].key = e.key /\ c.entries[e.key] = c.lru[i]
    BY <1>2 DEF StoryFits, MapFits
  <2>4. i \in gone
    BY <2>3 DEF Places
  <2> HIDE DEF gone
  <2>5. /\ StoryFits(Removed(c, gone))
        /\ DOMAIN Removed(c, gone).entries = DOMAIN c.entries \ {c.lru[k].key : k \in gone}
    BY <2>2, RemovedFits
  <2> QED
    BY <2>1, <2>3, <2>4, <2>5
<1> QED
  BY <1>1, <1>2

\* A list is finite, and as long as the map that leads to it.
LEMMA AsManyKeys ==
  ASSUME NEW map, NEW list, ListFits(list), MapFits(map, list)
  PROVE  /\ IsFiniteSet(DOMAIN list) /\ Cardinality(DOMAIN list) \in Nat
         /\ Cardinality(DOMAIN list) = Cardinality(DOMAIN map)
<1> DEFINE f == [i \in DOMAIN list |-> list[i].key]
<1>1. IsFiniteSet(DOMAIN list)
  <2>1. PICK n \in Nat : DOMAIN list \subseteq 1 .. n
    BY DEF ListFits
  <2>2. IsFiniteSet(1 .. n)
    BY FS_Interval
  <2> QED
    BY <2>1, <2>2, FS_Subset
<1>2. f \in Bijection(DOMAIN list, DOMAIN map)
  <2>1. f \in [DOMAIN list -> DOMAIN map]
    BY DEF MapFits
  <2>2. \A i, j \in DOMAIN list : f[i] = f[j] => i = j
    BY DEF ListFits
  <2>3. \A k \in DOMAIN map : \E i \in DOMAIN list : f[i] = k
    BY DEF MapFits
  <2> QED
    BY <2>1, <2>2, <2>3 DEF Bijection, Injection, Surjection, IsInjective
<1>3. ExistsBijection(DOMAIN list, DOMAIN map)
  BY <1>2 DEF ExistsBijection
<1> QED
  BY <1>1, <1>3, FS_Bijection, FS_CardinalityType

\* The inductive invariant of CacheCountsWhatItHolds.
WithinCaps(c) == Cardinality(DOMAIN c.lru) <= maxCacheEntries /\ c.bytes <= maxCacheBytes
CacheInv ==
  /\ StoryFits(Contents) /\ WithinCaps(Contents)
  /\ hit # Miss => ~Outdated(hit)

\* What eviction leaves is within both caps.
LEMMA EvictedFits ==
  ASSUME NEW c, StoryFits(c), NEW n \in 0 .. FrontOf(c.lru), ~Over(Dropping(c, n)) \/ n = FrontOf(c.lru)
  PROVE  StoryFits(Dropping(c, n)) /\ WithinCaps(Dropping(c, n))
<1> DEFINE gone == {i \in DOMAIN c.lru : i <= n}
           left == Dropping(c, n)
<1>1. left = Removed(c, gone) /\ gone \in SUBSET DOMAIN c.lru
  BY DEF Dropping
<1>2. StoryFits(left) /\ DOMAIN left.lru = DOMAIN c.lru \ gone
  BY <1>1, RemovedFits
<1> HIDE DEF left
<1>3. ListFits(left.lru) /\ MapFits(left.entries, left.lru) /\ left.bytes = Bytes(left.lru)
  BY <1>2 DEF StoryFits
<1>4. Cardinality(DOMAIN left.lru) \in Nat /\ left.bytes \in Nat
  BY <1>3, AsManyKeys, BytesAreFinite
<1>5. maxCacheEntries \in Nat /\ maxCacheBytes \in Nat
  BY CacheAssumption
<1>6. CASE n = FrontOf(c.lru)
  <2>1. \A i \in DOMAIN c.lru : i <= n
    BY <1>6, FrontIsLast DEF StoryFits
  <2>2. DOMAIN left.lru = {}
    BY <1>2, <2>1
  <2>3. Cardinality(DOMAIN left.lru) = 0 /\ left.bytes = 0
    BY <1>3, <2>2, FS_EmptySet, BytesAreFinite
  <2> QED
    BY <1>2, <1>5, <2>3 DEF WithinCaps, left
<1>7. CASE ~Over(Dropping(c, n))
  <2>1. ~Over(left)
    BY <1>7 DEF left
  <2>2. WithinCaps(left)
    BY <1>4, <1>5, <2>1 DEF Over, WithinCaps
  <2> QED
    BY <1>2, <2>2 DEF left
<1> QED
  BY <1>6, <1>7

\* Fewer elements are within the caps, too.
LEMMA RemovedWithin ==
  ASSUME NEW c, StoryFits(c), WithinCaps(c), NEW gone \in SUBSET DOMAIN c.lru
  PROVE  StoryFits(Removed(c, gone)) /\ WithinCaps(Removed(c, gone))
<1> DEFINE left == Removed(c, gone)
<1>1. StoryFits(left) /\ DOMAIN left.lru = DOMAIN c.lru \ gone
  BY RemovedFits
<1>2. left.bytes = c.bytes - Bytes(Only(c.lru, gone))
  BY DEF Removed
<1>3. ListFits(c.lru) /\ MapFits(c.entries, c.lru) /\ c.bytes = Bytes(c.lru)
  BY DEF StoryFits
<1>4. Bytes(Only(c.lru, gone)) \in Nat /\ Bytes(c.lru) \in Nat
  BY <1>3, BytesSplit, BytesAreFinite
<1>5. IsFiniteSet(DOMAIN c.lru) /\ Cardinality(DOMAIN c.lru) \in Nat
  BY <1>3, AsManyKeys
<1> HIDE DEF left
<1>6. Cardinality(DOMAIN left.lru) <= Cardinality(DOMAIN c.lru) /\ Cardinality(DOMAIN left.lru) \in Nat
  BY <1>1, <1>5, FS_Subset, FS_CardinalityType
<1>7. maxCacheEntries \in Nat /\ maxCacheBytes \in Nat
  BY CacheAssumption
<1>8. left.bytes <= maxCacheBytes /\ Cardinality(DOMAIN left.lru) <= maxCacheEntries
  BY <1>2, <1>3, <1>4, <1>5, <1>6, <1>7 DEF WithinCaps
<1> QED
  BY <1>1, <1>8 DEF WithinCaps, left

\* An entry that is served moves to the front, and nothing else changes.
LEMMA MovedFits ==
  ASSUME NEW c, StoryFits(c), WithinCaps(c), NEW k \in DOMAIN c.entries, NEW list,
         list = AtFront(Only(c.lru, DOMAIN c.lru \ Places(c.lru, c.entries[k])), c.entries[k])
  PROVE  ListFits(list) /\ MapFits(c.entries, list) /\ Bytes(list) = Bytes(c.lru)
         /\ Cardinality(DOMAIN list) = Cardinality(DOMAIN c.lru)
<1> DEFINE e == c.entries[k]
           gone == Places(c.lru, e)
           rest == Only(c.lru, DOMAIN c.lru \ gone)
           n == FrontOf(rest) + 1
<1>1. ListFits(c.lru) /\ MapFits(c.entries, c.lru) /\ c.bytes = Bytes(c.lru)
  BY DEF StoryFits
<1>2. PICK p \in DOMAIN c.lru : c.lru[p].key = k /\ e = c.lru[p]
  BY <1>1 DEF MapFits
<1>3. gone = {p}
  <2>1. p \in gone
    BY <1>2 DEF Places
  <2>2. ASSUME NEW i \in gone PROVE i = p
    <3>1. i \in DOMAIN c.lru /\ c.lru[i] = e
      BY DEF Places
    <3> QED
      BY <1>1, <1>2, <3>1 DEF ListFits
  <2> QED
    BY <2>1, <2>2
<1>4. /\ DOMAIN rest = DOMAIN c.lru \ {p} /\ \A i \in DOMAIN c.lru \ {p} : rest[i] = c.lru[i]
  BY <1>3 DEF Only
<1>5. ListFits(rest) /\ Bytes(c.lru) = Bytes(Only(c.lru, gone)) + Bytes(rest)
  BY <1>1, <1>3, BytesSplit
<1>6. e.size \in Nat /\ e.size <= maxCacheEntryBytes /\ e.key = k
  BY <1>1, <1>2 DEF ListFits
<1>0. c.entries[k] = e
  OBVIOUS
<1> HIDE DEF rest, n, gone, e
<1>7. \A i \in DOMAIN rest : rest[i].key # e.key
  BY <1>1, <1>2, <1>4, <1>6 DEF ListFits
<1>8. list = AtFront(rest, e)
  BY DEF rest, gone, e
<1>9. /\ ListFits(list) /\ Bytes(list) = Bytes(rest) + e.size
      /\ DOMAIN list = DOMAIN rest \cup {n} /\ n \notin DOMAIN rest /\ list[n] = e
      /\ \A i \in DOMAIN rest : list[i] = rest[i]
  <2>1. /\ ListFits(AtFront(rest, e)) /\ Bytes(AtFront(rest, e)) = Bytes(rest) + e.size
        /\ DOMAIN AtFront(rest, e) = DOMAIN rest \cup {FrontOf(rest) + 1}
        /\ FrontOf(rest) + 1 \notin DOMAIN rest
        /\ AtFront(rest, e)[FrontOf(rest) + 1] = e
        /\ \A i \in DOMAIN rest : AtFront(rest, e)[i] = rest[i]
    BY <1>5, <1>6, <1>7, ListPushed
  <2> QED
    BY <1>8, <2>1 DEF n
<1>10. MapFits(c.entries, list)
  <2>1. ASSUME NEW i \in DOMAIN list
        PROVE  list[i].key \in DOMAIN c.entries /\ c.entries[list[i].key] = list[i]
    <3>1. CASE i = n
      <4>1. list[i] = e
        BY <1>9, <3>1
      <4>2. list[i].key = k
        BY <1>6, <4>1
      <4> QED
        BY <1>0, <4>1, <4>2
    <3>2. CASE i # n
      <4>1. i \in DOMAIN rest /\ list[i] = rest[i]
        BY <1>9, <3>2
      <4>2. i \in DOMAIN c.lru /\ list[i] = c.lru[i]
        BY <1>4, <4>1
      <4> QED
        BY <1>1, <4>2 DEF MapFits
    <3> QED
      BY <3>1, <3>2
  <2>2. ASSUME NEW x \in DOMAIN c.entries PROVE \E i \in DOMAIN list : list[i].key = x
    <3>1. PICK i \in DOMAIN c.lru : c.lru[i].key = x
      BY <1>1 DEF MapFits
    <3>2. CASE i = p
      BY <1>2, <1>6, <1>9, <3>1, <3>2
    <3>3. CASE i # p
      BY <1>4, <1>9, <3>1, <3>3
    <3> QED
      BY <3>2, <3>3
  <2> QED
    BY <2>1, <2>2 DEF MapFits
<1>11. /\ Cardinality(DOMAIN list) = Cardinality(DOMAIN c.entries)
       /\ Cardinality(DOMAIN c.lru) = Cardinality(DOMAIN c.entries)
  BY <1>1, <1>9, <1>10, AsManyKeys
<1>12. Bytes(list) = Bytes(c.lru)
  <2>1. Only(c.lru, gone) = Only(c.lru, {p})
    BY <1>3
  <2>2. Bytes(Only(c.lru, {p})) = e.size
    BY <1>1, <1>2, BytesOfOne
  <2>3. Bytes(rest) \in Nat
    BY <1>5, BytesAreFinite
  <2> QED
    BY <1>5, <1>6, <1>9, <2>1, <2>2, <2>3
<1> QED
  BY <1>9, <1>10, <1>11, <1>12

\* The cache starts empty, and every step keeps the invariant.
LEMMA CacheInitially == RCInit => CacheInv
<1> SUFFICES ASSUME RCInit PROVE CacheInv
  OBVIOUS
<1>1. entries = <<>> /\ lru = <<>> /\ bytes = 0 /\ hit = Miss /\ DOMAIN <<>> = {}
  BY DEF RCInit
<1>2. Contents.entries = entries /\ Contents.lru = lru /\ Contents.bytes = bytes
  BY DEF Contents
<1>3. DOMAIN entries = {} /\ DOMAIN lru = {}
  BY <1>1
<1>4. ListFits(lru)
  <2>1. 0 \in Nat /\ {} \subseteq 1 .. 0
    OBVIOUS
  <2> QED
    BY <1>3, <2>1 DEF ListFits
<1>5. MapFits(entries, lru)
  BY <1>3 DEF MapFits
<1>6. Bytes(lru) = 0
  BY <1>3, <1>4, BytesAreFinite
<1>7. Cardinality(DOMAIN lru) = 0 /\ maxCacheEntries \in Nat /\ maxCacheBytes \in Nat
  BY <1>3, FS_EmptySet, CacheAssumption
<1> QED
  BY <1>1, <1>2, <1>4, <1>5, <1>6, <1>7 DEF CacheInv, StoryFits, WithinCaps

\* What becomes of the contents keeps the invariant when it fits.
LEMMA ContentsBecome ==
  ASSUME NEW c, StoryFits(c), WithinCaps(c), Becomes(c)
  PROVE  StoryFits(Contents)' /\ WithinCaps(Contents)'
<1>1. PICK d : d = Contents'
  OBVIOUS
<1>2. d.entries = c.entries /\ d.lru = c.lru /\ d.bytes = c.bytes
  BY <1>1 DEF Contents, Becomes
<1>3. StoryFits(d) /\ WithinCaps(d)
  BY <1>2 DEF StoryFits, WithinCaps
<1> QED
  BY <1>1, <1>3 DEF StoryFits, WithinCaps

LEMMA CacheStep == CacheInv /\ [RCNext]_rcVars => CacheInv'
<1> SUFFICES ASSUME CacheInv, [RCNext]_rcVars PROVE CacheInv'
  OBVIOUS
<1>1. StoryFits(Contents) /\ WithinCaps(Contents) /\ (hit # Miss => ~Outdated(hit))
  BY DEF CacheInv
<1>2. Contents.entries = entries /\ Contents.lru = lru /\ Contents.bytes = bytes
  BY DEF Contents
<1>3. ASSUME UNCHANGED <<entries, lru, bytes>> PROVE StoryFits(Contents)' /\ WithinCaps(Contents)'
  <2>1. Becomes(Contents)
    BY <1>2, <1>3 DEF Becomes
  <2> QED
    BY <1>1, <2>1, ContentsBecome
<1>4. ASSUME UNCHANGED <<time, hit>> PROVE (hit # Miss => ~Outdated(hit))'
  BY <1>1, <1>4 DEF Outdated, Miss
<1>5. CASE sweep
  <2>1. PICK old : old \in SUBSET DOMAIN lru /\ Becomes(Removed(Contents, old))
    BY <1>5 DEF sweep
  <2>2. StoryFits(Removed(Contents, old)) /\ WithinCaps(Removed(Contents, old))
    BY <1>1, <1>2, <2>1, RemovedWithin
  <2> QED
    BY <1>4, <1>5, <2>1, <2>2, ContentsBecome DEF sweep, CacheInv
<1>6. CASE CacheTick
  BY <1>3, <1>6 DEF CacheTick, CacheInv
<1>7. ASSUME NEW s \in Slots, HandlerAnswers(s) PROVE CacheInv'
  <2>1. CASE UNCHANGED <<entries, lru, bytes>>
    BY <1>3, <1>4, <1>7, <2>1 DEF HandlerAnswers, CacheInv
  <2>2. ASSUME NEW e, e.size \in Nat, put(e) PROVE StoryFits(Contents)' /\ WithinCaps(Contents)'
    <3>1. CASE e.size > maxCacheEntryBytes
      BY <1>3, <2>2, <3>1 DEF put
    <3>2. CASE ~(e.size > maxCacheEntryBytes)
      <4>1. PICK c : c = PushFront(Replaced(Contents, e), e) /\ Evict(c)
        BY <2>2, <3>2 DEF put
      <4>2. e.size <= maxCacheEntryBytes
        BY <2>2, <3>2, CacheAssumption
      <4>3. StoryFits(Replaced(Contents, e)) /\ e.key \notin DOMAIN Replaced(Contents, e).entries
        BY <1>1, ReplacedFits
      <4>4. StoryFits(c)
        BY <2>2, <4>1, <4>2, <4>3, PushedFits
      <4>5. PICK n \in 0 .. FrontOf(c.lru) :
              (~Over(Dropping(c, n)) \/ n = FrontOf(c.lru)) /\ Becomes(Dropping(c, n))
        BY <4>1 DEF Evict
      <4>6. StoryFits(Dropping(c, n)) /\ WithinCaps(Dropping(c, n))
        BY <4>4, <4>5, EvictedFits
      <4> QED
        BY <4>5, <4>6, ContentsBecome
    <3> QED
      BY <3>1, <3>2
  <2>3. ASSUME NEW size \in BodySizes,
               put([key |-> slot[s], size |-> size, expiresAt |-> time + CacheTTL, id |-> served])
        PROVE  StoryFits(Contents)' /\ WithinCaps(Contents)'
    <3>1. PICK e : e = [key |-> slot[s], size |-> size, expiresAt |-> time + CacheTTL, id |-> served]
      OBVIOUS
    <3>2. e.size \in Nat
      BY <3>1, CacheAssumption
    <3> QED
      BY <2>2, <2>3, <3>1, <3>2
  <2> QED
    BY <1>4, <1>7, <2>1, <2>3 DEF HandlerAnswers, CacheInv
<1>8. ASSUME NEW s \in Slots, NEW uri \in URIs, Lookup(s, uri) PROVE CacheInv'
  <2>1. CASE uri \in DOMAIN entries /\ ~Outdated(entries[uri])
    <3>1. PICK list : /\ list = lru'
                      /\ list = AtFront(Only(lru, DOMAIN lru \ Places(lru, entries[uri])), entries[uri])
      BY <1>8, <2>1 DEF Lookup
    <3>2. hit' = entries[uri] /\ UNCHANGED <<time, entries, bytes>>
      BY <1>8, <2>1 DEF Lookup
    <3>3. /\ ListFits(list) /\ MapFits(entries, list) /\ Bytes(list) = Bytes(lru)
          /\ Cardinality(DOMAIN list) = Cardinality(DOMAIN lru)
      BY <1>1, <1>2, <2>1, <3>1, MovedFits
    <3>4. bytes = Bytes(lru)
      BY <1>1, <1>2 DEF StoryFits
    <3>5. PICK c : c = [entries |-> entries, lru |-> list, bytes |-> bytes]
      OBVIOUS
    <3>6. StoryFits(c) /\ WithinCaps(c)
      BY <1>1, <1>2, <3>3, <3>4, <3>5 DEF StoryFits, WithinCaps
    <3>7. Becomes(c)
      BY <3>1, <3>2, <3>5 DEF Becomes
    <3>8. ~Outdated(hit)'
      BY <2>1, <3>2 DEF Outdated
    <3> QED
      BY <3>6, <3>7, <3>8, ContentsBecome DEF CacheInv
  <2>2. CASE ~(uri \in DOMAIN entries /\ ~Outdated(entries[uri]))
    <3>1. hit' = Miss
      BY <1>8, <2>2 DEF Lookup
    <3>2. Becomes(IF uri \in DOMAIN entries THEN Removed(Contents, Places(lru, entries[uri])) ELSE Contents)
      BY <1>8, <2>2 DEF Lookup
    <3>3. StoryFits(Contents)' /\ WithinCaps(Contents)'
      <4>1. CASE uri \in DOMAIN entries
        <5>1. Places(lru, entries[uri]) \in SUBSET DOMAIN lru
          BY DEF Places
        <5>2. PICK c : c = Removed(Contents, Places(lru, entries[uri]))
          OBVIOUS
        <5>3. StoryFits(c) /\ WithinCaps(c)
          BY <1>1, <1>2, <5>1, <5>2, RemovedWithin
        <5> QED
          BY <3>2, <4>1, <5>2, <5>3, ContentsBecome
      <4>2. CASE uri \notin DOMAIN entries
        BY <1>1, <3>2, <4>2, ContentsBecome
      <4> QED
        BY <4>1, <4>2
    <3> QED
      BY <3>1, <3>3 DEF CacheInv, Miss
  <2> QED
    BY <2>1, <2>2
<1>9. CASE UNCHANGED rcVars
  BY <1>3, <1>4, <1>9 DEF rcVars, CacheInv
<1> QED
  BY <1>5, <1>6, <1>7, <1>8, <1>9 DEF RCNext

\* The map, the list and the byte count of the cache tell the same story within its three
\* caps, and what is served has not expired (get, put, sweep, removeElement).
THEOREM CacheKeepsCount == RCSpec => []CacheCountsWhatItHolds
<1>1. CacheInv => CacheCountsWhatItHolds
  <2> SUFFICES ASSUME CacheInv PROVE CacheCountsWhatItHolds
    OBVIOUS
  <2>1. ListFits(lru) /\ MapFits(entries, lru) /\ bytes = Bytes(lru)
    BY DEF CacheInv, StoryFits, Contents
  <2>2. Cardinality(DOMAIN lru) <= maxCacheEntries /\ bytes <= maxCacheBytes /\ (hit # Miss => ~Outdated(hit))
    BY DEF CacheInv, WithinCaps, Contents
  <2>3. Cardinality(DOMAIN lru) = Cardinality(DOMAIN entries)
    BY <2>1, AsManyKeys
  <2>4. {lru[i] : i \in DOMAIN lru} = {entries[k] : k \in DOMAIN entries}
    <3>1. ASSUME NEW i \in DOMAIN lru PROVE lru[i] \in {entries[k] : k \in DOMAIN entries}
      BY <2>1 DEF MapFits
    <3>2. ASSUME NEW k \in DOMAIN entries PROVE entries[k] \in {lru[i] : i \in DOMAIN lru}
      BY <2>1 DEF MapFits
    <3> QED
      BY <3>1, <3>2
  <2>5. \A k \in DOMAIN entries : entries[k].key = k /\ entries[k].size <= maxCacheEntryBytes
    BY <2>1 DEF MapFits, ListFits
  <2> QED
    BY <2>1, <2>2, <2>3, <2>4, <2>5 DEF CacheCountsWhatItHolds
<1> QED
  BY CacheInitially, CacheStep, <1>1, PTL DEF RCSpec
==============================================================================
