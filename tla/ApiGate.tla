------------------------------- MODULE ApiGate -------------------------------
(***************************************************************************)
(* What a request of /api/v1 passes before its handler: authentication     *)
(* (internal/api/middleware: AuthMiddleware, APITokenAuthenticator), CSRF, *)
(* the role check and the audit trail; with the handlers and the store of  *)
(* the API tokens (handler/tokens.go, store/tokens.go), whose row is       *)
(* changed by mutations that ClickHouse queues and applies later.          *)
(*                                                                         *)
(* One token is followed.  How a browser session comes to be is left out:  *)
(* a request has the session of an admin, of a viewer, or none.            *)
(***************************************************************************)
EXTENDS Integers, Sequences

CONSTANTS
  Conns,          \* requests served at a time
  Lifetimes,      \* expires_in_days of new tokens; 0: never
  Skews,          \* by how much the clock of ClickHouse may be ahead
  TouchInterval,
  MaxNow, MaxGateCalls, MaxGateFaults   \* bounds: clock, requests, failures

ASSUME GateAssumption ==
  /\ Lifetimes \subseteq Nat /\ Skews \subseteq Int /\ TouchInterval \in Nat
  /\ {MaxNow, MaxGateCalls, MaxGateFaults} \subseteq Nat

VARIABLES
  tokenRow,   \* the row of api_tokens, if any
  mutations,  \* the mutations queued on it, oldest first
  now, skew,  \* the clock of the API, and how far ClickHouse is ahead of it
  conn,       \* the requests under way
  lastTouch,  \* APITokenAuthenticator.lastTouch; -1: never
  touches,    \* touch goroutines that have not run
  confirmed,  \* a revocation was answered with 204
  trail,      \* what the audit log holds: actions and results
  gateCalls, gateFaults

agVars == <<tokenRow, mutations, now, skew, conn, lastTouch, touches, confirmed, trail, gateCalls, gateFaults>>

NoToken == [created |-> FALSE, revoked |-> FALSE, expiresAt |-> 0, lastUsedAt |-> 0]
Unused == [step |-> "none"]

\* Requests that say who sends them; a read needs no CSRF token.
Requests == {r \in [method : {"GET", "POST", "DELETE"}, cred : {"admin", "viewer", "token"}, csrf : BOOLEAN] :
               r.method = "GET" => ~r.csrf}

AGInit ==
  /\ tokenRow = NoToken /\ mutations = <<>>
  /\ now = 1 /\ skew \in Skews
  /\ conn = [c \in Conns |-> Unused]
  /\ lastTouch = -1 /\ touches = {} /\ confirmed = FALSE /\ trail = {}
  /\ gateCalls = 0 /\ gateFaults = 0

GateFault == gateFaults < MaxGateFaults /\ gateFaults' = gateFaults + 1
GateOK == UNCHANGED gateFaults

Goes(c, step) == conn' = [conn EXCEPT ![c].step = step]
Ends(c) == conn' = [conn EXCEPT ![c] = Unused]

(***************************************************************************)
(* Authentication.                                                         *)
(***************************************************************************)
(* AuthMiddleware: a session goes on, a bearer token is looked up (without either: 401).  The token and *)
(* its id are known to the clients once it exists.                                                      *)
AuthMiddleware(c, r) ==
  /\ conn[c] = Unused /\ gateCalls < MaxGateCalls
  /\ gateCalls' = gateCalls + 1
  /\ r.cred = "token" \/ r.method = "DELETE" => tokenRow.created
  /\ conn' = [conn EXCEPT ![c] = [step |-> IF r.cred = "token" THEN "lookup" ELSE "gate",
                                  method |-> r.method, cred |-> r.cred, csrf |-> r.csrf,
                                  record |-> NoToken, late |-> FALSE]]
  /\ UNCHANGED <<tokenRow, mutations, now, skew, lastTouch, touches, confirmed, trail, gateFaults>>

\* The WHERE of the query, by the clock of ClickHouse.
InSQL(t) == t.created /\ ~t.revoked /\ (t.expiresAt = 0 \/ t.expiresAt > now + skew)

(* LookupAPIToken: a row, or none, or an error; both of the latter are a 401. *)
LookupAPIToken(c) ==
  /\ conn[c].step = "lookup"
  /\ \/ /\ InSQL(tokenRow) /\ GateOK
        /\ conn' = [conn EXCEPT ![c].step = "usable", ![c].record = tokenRow, ![c].late = confirmed]
     \/ ~InSQL(tokenRow) /\ GateOK /\ Ends(c)
     \/ GateFault /\ Ends(c)
  /\ UNCHANGED <<tokenRow, mutations, now, skew, lastTouch, touches, confirmed, trail, gateCalls>>

IsTokenUsable(t) == ~t.revoked /\ (t.expiresAt = 0 \/ t.expiresAt > now)
isReadOnlyMethod(m) == m = "GET"

\* At most one touch per interval; the write runs in a goroutine of its own.
scheduleTouch ==
  IF lastTouch >= 0 /\ now - lastTouch < TouchInterval
  THEN UNCHANGED <<lastTouch, touches>>
  ELSE lastTouch' = now /\ touches' = touches \cup {now}

(* Authenticate, with the clock of the API; a token may only read (403). *)
Authenticate(c) ==
  /\ conn[c].step = "usable"
  /\ IF IsTokenUsable(conn[c].record)
     THEN /\ scheduleTouch
          /\ IF isReadOnlyMethod(conn[c].method) THEN Goes(c, "gate") ELSE Ends(c)
     ELSE Ends(c) /\ UNCHANGED <<lastTouch, touches>>
  /\ UNCHANGED <<tokenRow, mutations, now, skew, confirmed, trail, gateCalls, gateFaults>>

(***************************************************************************)
(* The handlers behind CSRF, the audit trail and RequireRole.              *)
(***************************************************************************)
CSRF(r) == r.method = "GET" \/ r.csrf
RequireRole(r) == r.method = "GET" \/ r.cred = "admin"
MayProceed(r) == CSRF(r) /\ RequireRole(r)

Action(r) == IF r.method = "POST" THEN "token_create" ELSE "token_revoke"

\* Audit: the entry is written after the response, and may be lost.
Audit(r, result) == trail' \in {trail, trail \cup {[action |-> Action(r), result |-> result]}}

(* Answered: a read; refused before the audit trail (CSRF) or inside it (the role). *)
Answer(c) ==
  /\ conn[c].step = "gate"
  /\ \/ conn[c].method = "GET" /\ UNCHANGED trail
     \/ conn[c].method # "GET" /\ ~CSRF(conn[c]) /\ UNCHANGED trail
     \/ CSRF(conn[c]) /\ ~RequireRole(conn[c]) /\ Audit(conn[c], "denied")
  /\ Ends(c)
  /\ UNCHANGED <<tokenRow, mutations, now, skew, lastTouch, touches, confirmed, gateCalls, gateFaults>>

\* The row CreateAPIToken inserts.
CreateAPIToken(days) ==
  [NoToken EXCEPT !.created = TRUE, !.expiresAt = IF days = 0 THEN 0 ELSE now + days]

(* CreateToken: one INSERT; the token that is followed is the first. *)
CreateToken(c, days) ==
  /\ conn[c].step = "gate" /\ conn[c].method = "POST" /\ MayProceed(conn[c])
  /\ \/ /\ GateOK /\ Audit(conn[c], "success")
        /\ tokenRow' = IF tokenRow.created THEN tokenRow ELSE CreateAPIToken(days)
     \/ GateFault /\ Audit(conn[c], "error") /\ UNCHANGED tokenRow
  /\ Ends(c)
  /\ UNCHANGED <<mutations, now, skew, lastTouch, touches, confirmed, gateCalls>>

Mutate(kind, by, ts) == mutations' = Append(mutations, [kind |-> kind, by |-> by, ts |-> ts])

(* RevokeToken issues the mutation, with mutations_sync = 2, and waits. *)
RevokeToken(c) ==
  /\ conn[c].step = "gate" /\ conn[c].method = "DELETE" /\ MayProceed(conn[c])
  /\ \/ GateOK /\ Mutate("revoke", c, 0) /\ Goes(c, "wait") /\ UNCHANGED trail
     \/ GateFault /\ Audit(conn[c], "error") /\ Ends(c) /\ UNCHANGED mutations
  /\ UNCHANGED <<tokenRow, now, skew, lastTouch, touches, confirmed, gateCalls>>

\* Mutant: the answer does not wait for the mutation.
Queued(c) == conn[c].step = "wait"

Landed(c) == \A i \in DOMAIN mutations : mutations[i].by # c

(* 204 once it is applied. *)
RevokeConfirmed(c) ==
  /\ conn[c].step = "wait" /\ Landed(c)
  /\ confirmed' = TRUE /\ Audit(conn[c], "success")
  /\ Ends(c)
  /\ UNCHANGED <<tokenRow, mutations, now, skew, lastTouch, touches, gateCalls, gateFaults>>

(* revokeMutationTimeout: a 500, while the mutation stays in the queue. *)
RevokeTimesOut(c) ==
  /\ conn[c].step = "wait" /\ GateFault
  /\ Audit(conn[c], "error")
  /\ Ends(c)
  /\ UNCHANGED <<tokenRow, mutations, now, skew, lastTouch, touches, confirmed, gateCalls>>

(* TouchAPIToken, in its goroutine: the mutation is queued, or the write is lost. *)
TouchAPIToken ==
  /\ \E ts \in touches :
       /\ touches' = touches \ {ts}
       /\ \/ GateOK /\ Mutate("touch", "goroutine", ts)
          \/ GateFault /\ UNCHANGED mutations
  /\ UNCHANGED <<tokenRow, now, skew, conn, lastTouch, confirmed, trail, gateCalls>>

\* What the two ALTER TABLE ... UPDATE statements change.
Mutated(row, m) ==
  IF m.kind = "revoke" THEN [row EXCEPT !.revoked = TRUE] ELSE [row EXCEPT !.lastUsedAt = m.ts]

(* ClickHouse rewrites the part for the oldest mutation. *)
ApplyMutation ==
  /\ mutations # <<>>
  /\ tokenRow' = Mutated(tokenRow, Head(mutations)) /\ mutations' = Tail(mutations)
  /\ UNCHANGED <<now, skew, conn, lastTouch, touches, confirmed, trail, gateCalls, gateFaults>>

TimePasses ==
  /\ now < MaxNow /\ now' = now + 1
  /\ UNCHANGED <<tokenRow, mutations, skew, conn, lastTouch, touches, confirmed, trail, gateCalls, gateFaults>>

AGNext ==
  \/ TimePasses \/ TouchAPIToken \/ ApplyMutation
  \/ \E c \in Conns :
       \/ \E r \in Requests : AuthMiddleware(c, r)
       \/ LookupAPIToken(c) \/ Authenticate(c) \/ Answer(c)
       \/ (\E days \in Lifetimes : CreateToken(c, days))
       \/ RevokeToken(c) \/ RevokeConfirmed(c) \/ RevokeTimesOut(c)

AGSpec == AGInit /\ [][AGNext]_agVars

-----------------------------------------------------------------------------
(* A 204 means the token is dead: no request whose lookup comes after it   *)
(* finds the token, no touch that was under way brings it back, and the    *)
(* audit log never reports success for a revocation that did not land      *)
(* (RevokeToken, LookupAPIToken, TouchAPIToken).                           *)
RevokedIsDead ==
  /\ \A c \in Conns : conn[c].step \in {"usable", "gate"} => ~conn[c].late
  /\ confirmed => tokenRow.revoked
  /\ [action |-> "token_revoke", result |-> "success"] \in trail => tokenRow.revoked
=============================================================================
