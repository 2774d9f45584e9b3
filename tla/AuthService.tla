---------------------------- MODULE AuthService -----------------------------
(***************************************************************************)
(* authd's token exchange (server/internal/auth/service.go) over the       *)
(* allowlist database (server/internal/tokenstore/store.go), with the      *)
(* writers that share the database: tokenctl, the admin endpoint and the   *)
(* operator who revokes.                                                   *)
(*                                                                         *)
(* ValidateAndConsume is a deferred SQLite transaction in WAL mode.  Its   *)
(* SELECT takes a snapshot; its UPDATE turns the reader into a writer.     *)
(* SQLite refuses that at once, without waiting for busy_timeout, when     *)
(* another connection holds the write lock or has committed since the      *)
(* snapshot was taken.  wlock and stale are those two conditions.          *)
(***************************************************************************)
EXTENDS LimiterEntry

CONSTANTS Requests,        \* slots for concurrent exchange requests
          Tokens,          \* invite tokens (the database holds their HMACs)
          IPs,             \* client addresses
          None,            \* no request, no token
          ConsumeOnIssue,  \* authd's --consume-on-issue
          Deadline,        \* the 2 s of context.WithTimeout
          TTLs,            \* lifetimes of invitations
          PowerFails,      \* whether the machine may lose power
          MaxTime,         \* bound: the clock stops here
          MaxCrashes       \* bound: restarts of authd or of the machine

ASSUME AuthAssumption ==
    /\ None \notin Requests \cup Tokens
    /\ ConsumeOnIssue \in BOOLEAN
    /\ PowerFails \in BOOLEAN
    /\ Deadline \in Nat
    /\ TTLs \subseteq Nat
    /\ MaxTime \in Nat
    /\ MaxCrashes \in Nat

VARIABLES now,       \* time.Now()
          entries,   \* the rate limiter's map
          db,        \* the committed rows of token_allowlist
          disk,      \* the rows a power failure leaves (synchronous=NORMAL)
          wlock,     \* the request whose transaction holds the write lock
          pc,        \* where each handler is
          token,     \* the token its request carries
          begun,     \* when its 2 s started
          stale,     \* whether someone committed after its snapshot
          redeemed,  \* history: session keys granted for the last invitation
          crashes    \* history: how often authd or the machine went down

rows     == <<db, disk, wlock, redeemed>>
handlers == <<pc, token, begun, stale>>
vars     == <<now, entries, rows, handlers, crashes>>

Never == -1

(* revoked holds the column revoked_at; Never is revoked = 0.              *)
Row == [present : BOOLEAN, consumed : BOOLEAN, revoked : Int, expires : Int]

NoRow == [present |-> FALSE, consumed |-> FALSE, revoked |-> Never, expires |-> 0]

(* validate: before the SELECT; valid, updated: inside the transaction;    *)
(* refused, issued: the reply is being written.                            *)
Places == {"idle", "validate", "valid", "updated", "refused", "issued"}

(* A write transaction that commits makes every other open snapshot stale. *)
Outdated(r) == [q \in Requests |-> stale[q] \/ (q # r /\ pc[q] \in {"valid", "updated"})]

TypeOK ==
    /\ now \in 0..MaxTime
    /\ entries \in [IPs -> Entry]
    /\ db \in [Tokens -> Row]
    /\ disk \in [Tokens -> Row]
    /\ wlock \in Requests \cup {None}
    /\ pc \in [Requests -> Places]
    /\ token \in [Requests -> Tokens \cup {None}]
    /\ begun \in [Requests -> 0..MaxTime]
    /\ stale \in [Requests -> BOOLEAN]
    /\ redeemed \in [Tokens -> Nat]
    /\ crashes \in 0..MaxCrashes
    /\ \A r \in Requests : pc[r] \in {"validate", "valid", "updated"} <=> token[r] # None

Init ==
    /\ now = 0
    /\ entries = [ip \in IPs |-> NoEntry]
    /\ db = [t \in Tokens |-> NoRow]
    /\ disk = db
    /\ wlock = None
    /\ pc = [r \in Requests |-> "idle"]
    /\ token = [r \in Requests |-> None]
    /\ begun = [r \in Requests |-> 0]
    /\ stale = [r \in Requests |-> FALSE]
    /\ redeemed = [t \in Tokens |-> 0]
    /\ crashes = 0

-----------------------------------------------------------------------------
(* exchangeToken                                                           *)

(* The request is over but for its reply, which no longer depends on the   *)
(* token; an open transaction has ended.                                   *)
Finish(r, place) ==
    /\ pc' = [pc EXCEPT ![r] = place]
    /\ token' = [token EXCEPT ![r] = None]
    /\ begun' = [begun EXCEPT ![r] = 0]

(* Mutant: a failing exchange leaves its transaction open.                 *)
RollBackForgotten(r) == UNCHANGED <<rows, stale>>

RollBack(r) ==
    /\ wlock' = IF wlock = r THEN None ELSE wlock
    /\ stale' = [stale EXCEPT ![r] = FALSE]
    /\ UNCHANGED <<db, disk, redeemed>>

Arrive(r, ip, t) ==
    /\ pc[r] = "idle"
    /\ Admits(entries[ip], now)
    /\ entries' = [entries EXCEPT ![ip] = Charge(@, now)]
    /\ pc' = [pc EXCEPT ![r] = "validate"]
    /\ token' = [token EXCEPT ![r] = t]
    /\ begun' = [begun EXCEPT ![r] = now]
    /\ UNCHANGED <<now, rows, stale, crashes>>

(* 429, before the body is looked at.                                      *)
TooMany(r, ip) ==
    /\ pc[r] = "idle"
    /\ ~Admits(entries[ip], now)
    /\ pc' = [pc EXCEPT ![r] = "refused"]
    /\ UNCHANGED <<now, entries, rows, token, begun, stale, crashes>>

(* 400: a malformed request has been charged all the same.                 *)
BadRequest(r, ip) ==
    /\ pc[r] = "idle"
    /\ Admits(entries[ip], now)
    /\ entries' = [entries EXCEPT ![ip] = Charge(@, now)]
    /\ pc' = [pc EXCEPT ![r] = "refused"]
    /\ UNCHANGED <<now, rows, token, begun, stale, crashes>>

(* Mutant: the revoked flag is not looked at.                              *)
PassesRevoked(row, t) == row.present /\ ~(row.expires < t) /\ ~row.consumed

(* The checks on the row the SELECT returned, at time t.                   *)
Passes(row, t) ==
    /\ row.present
    /\ row.revoked = Never
    /\ ~(row.expires < t)
    /\ ~row.consumed

(* SELECT and the checks.  The snapshot is the database as it is now.      *)
Select(r) ==
    /\ pc[r] = "validate"
    /\ IF Passes(db[token[r]], now)
         THEN /\ pc' = [pc EXCEPT ![r] = "valid"]
              /\ UNCHANGED <<token, begun, stale, rows>>
         ELSE Finish(r, "refused") /\ RollBack(r)
    /\ UNCHANGED <<now, entries, crashes>>

(* Mutant: the SELECT runs outside the transaction, so that the UPDATE has *)
(* no snapshot to conflict with.                                           *)
MayWriteBlindly(r) == wlock = None

(* Mutant: the UPDATE waits, holding its snapshot, for its turn to write.  *)
UpdateWaits(r) ==
    /\ pc[r] = "valid" /\ ConsumeOnIssue
    /\ wlock = None /\ ~stale[r]
    /\ wlock' = r
    /\ pc' = [pc EXCEPT ![r] = "updated"]
    /\ UNCHANGED <<now, entries, db, disk, redeemed, token, begun, stale, crashes>>

MayWrite(r) == wlock = None /\ ~stale[r]

(* UPDATE ... SET consumed = 1 WHERE token_hash = ? AND consumed = 0.      *)
Update(r) ==
    /\ pc[r] = "valid" /\ ConsumeOnIssue
    /\ IF MayWrite(r)
         THEN /\ wlock' = r
              /\ pc' = [pc EXCEPT ![r] = "updated"]
              /\ UNCHANGED <<db, disk, redeemed, token, begun, stale>>
         ELSE Finish(r, "refused") /\ RollBack(r)
    /\ UNCHANGED <<now, entries, crashes>>

(* What the UPDATE made of the row; nothing if it no longer matches.       *)
Consumed(row) == IF row.present THEN [row EXCEPT !.consumed = TRUE] ELSE row

(* Mutant: the context is not passed on to the transaction.                *)
AnyTime(r) == TRUE

(* tx.Commit returns nil only while the context lives.                     *)
InTime(r) == now <= begun[r] + Deadline

(* After the commit the session key is granted: issueSessionEnvelope       *)
(* cannot fail.                                                            *)
Commit(r) ==
    /\ pc[r] = IF ConsumeOnIssue THEN "updated" ELSE "valid"
    /\ InTime(r)
    /\ redeemed' = [redeemed EXCEPT ![token[r]] = @ + 1]
    /\ IF ConsumeOnIssue
         THEN /\ db' = [db EXCEPT ![token[r]] = Consumed(@)]
              /\ wlock' = None
              /\ stale' = [Outdated(r) EXCEPT ![r] = FALSE]
         ELSE /\ stale' = [stale EXCEPT ![r] = FALSE]
              /\ UNCHANGED <<db, wlock>>
    /\ Finish(r, "issued")
    /\ UNCHANGED <<now, entries, disk, crashes>>

(* The context expires in the middle: 401, like any other failure.         *)
TimeOut(r) ==
    /\ pc[r] \in {"validate", "valid", "updated"}
    /\ now >= begun[r] + Deadline
    /\ Finish(r, "refused") /\ RollBack(r)
    /\ UNCHANGED <<now, entries, crashes>>

(* The client goes away, which cancels r.Context(): nobody reads a reply.  *)
Disconnect(r) ==
    /\ pc[r] \in {"validate", "valid", "updated"}
    /\ Finish(r, "idle") /\ RollBack(r)
    /\ UNCHANGED <<now, entries, crashes>>

Reply(r) ==
    /\ pc[r] \in {"refused", "issued"}
    /\ pc' = [pc EXCEPT ![r] = "idle"]
    /\ UNCHANGED <<now, entries, rows, token, begun, stale, crashes>>

-----------------------------------------------------------------------------
(* The other writers: autocommit statements, which wait for the lock.      *)

Write(t, row) ==
    /\ wlock = None
    /\ db' = [db EXCEPT ![t] = row]
    /\ stale' = Outdated(None)
    /\ UNCHANGED <<now, entries, disk, wlock, pc, token, begun, crashes>>

(* INSERT OR REPLACE by tokenctl, createToken or the smoke test: a token   *)
(* that is invited again loses its consumed and revoked marks.             *)
Insert(t) ==
    \E ttl \in TTLs :
        /\ Write(t, [present |-> TRUE, consumed |-> FALSE,
                     revoked |-> Never, expires |-> now + ttl])
        /\ redeemed' = [redeemed EXCEPT ![t] = 0]

(* The operator marks a row revoked, or deletes it.                        *)
Revoke(t) ==
    /\ db[t].present
    /\ \/ db[t].revoked = Never /\ Write(t, [db[t] EXCEPT !.revoked = now])
       \/ Write(t, NoRow)
    /\ UNCHANGED redeemed

-----------------------------------------------------------------------------
(* The environment.                                                        *)

Tick ==
    /\ now < MaxTime
    /\ now' = now + 1
    /\ UNCHANGED <<entries, rows, handlers, crashes>>

(* The WAL reaches the database file.                                      *)
Checkpoint ==
    /\ PowerFails
    /\ disk' = db
    /\ UNCHANGED <<now, entries, db, wlock, redeemed, handlers, crashes>>

(* authd loses its handlers, their transactions and the limiter's map.     *)
Restart ==
    /\ crashes < MaxCrashes
    /\ crashes' = crashes + 1
    /\ entries' = [ip \in IPs |-> NoEntry]
    /\ wlock' = None
    /\ pc' = [r \in Requests |-> "idle"]
    /\ token' = [r \in Requests |-> None]
    /\ begun' = [r \in Requests |-> 0]
    /\ stale' = [r \in Requests |-> FALSE]
    /\ UNCHANGED <<now, disk, redeemed>>

Crash == Restart /\ UNCHANGED db

PowerLoss == PowerFails /\ Restart /\ db' = disk

Handle(r) ==
    \/ \E ip \in IPs : \/ \E t \in Tokens : Arrive(r, ip, t)
                       \/ TooMany(r, ip)
                       \/ BadRequest(r, ip)
    \/ Select(r) \/ Update(r) \/ Commit(r)
    \/ TimeOut(r) \/ Disconnect(r) \/ Reply(r)

Next ==
    \/ \E r \in Requests : Handle(r)
    \/ \E t \in Tokens : Insert(t) \/ Revoke(t)
    \/ Tick \/ Checkpoint \/ Crash \/ PowerLoss

Spec == Init /\ [][Next]_vars

(* A handler that has started runs on: the Go scheduler and SQLite, which  *)
(* answers every statement, see to that.  Nothing makes a client arrive or *)
(* leave, the clock reach a deadline, or anybody write an invitation.      *)
Progress(r) == Select(r) \/ Update(r) \/ Commit(r) \/ Reply(r)

FairSpec ==
    /\ Spec
    /\ \A r \in Requests : WF_vars(Progress(r)) /\ WF_vars(TimeOut(r))

-----------------------------------------------------------------------------
(* Properties.                                                             *)

(* Power failures: each may undo commits that had not reached the disk.    *)
Outages == IF PowerFails THEN crashes ELSE 0

(* With --consume-on-issue one invitation yields one session key, however  *)
(* requests for it interleave, fail half way or are cut off by a restart;  *)
(* a mark of consumption lost to a power failure costs one more at most.   *)
SingleUse == ConsumeOnIssue => \A t \in Tokens : redeemed[t] <= 1 + Outages

(* Without consumption the check is not repeated at the commit.  Still, a  *)
(* key is granted for a revoked or expired row only to a request that was  *)
(* already under way, hence for Deadline at most.                          *)
RevocationTakesHold ==
    [][\A t \in Tokens :
         redeemed'[t] > redeemed[t] /\ db[t].present =>
            /\ db[t].revoked # Never => now <= db[t].revoked + Deadline
            /\ now <= db[t].expires + Deadline]_vars

(* What consuming exchanges look like from outside: TokenAllowlist's       *)
(* indivisible operations, the exchange taking effect at its commit.       *)
AbsState(row) == IF ~row.present \/ row.revoked # Never THEN "none"
                 ELSE IF row.consumed THEN "spent" ELSE "active"

Allowlist == INSTANCE TokenAllowlist WITH
    Grace   <- Deadline,
    state   <- [t \in Tokens |-> AbsState(db[t])],
    expires <- [t \in Tokens |-> IF AbsState(db[t]) = "active"
                                   THEN db[t].expires ELSE 0]

(* The transactions are linearizable: every behaviour of authd, tokenctl   *)
(* and the operator is one of the atomic allowlist.                        *)
ImplementsAllowlist == Allowlist!Spec

(* Every exchange that starts is answered, even if no deadline ever fires  *)
(* and however many writers it races.                                      *)
EveryRequestEnds == \A r \in Requests : pc[r] # "idle" ~> pc[r] = "idle"

(* The write lock is never lost: tokenctl and the operator get their turn. *)
WritersGetTheirTurn == []<>(wlock = None)

(* system-architecture.md:78 promises a session key "On valid token" (401  *)
(* is for the "invalid/expired/revoked" ones, line 79): a request that is  *)
(* refused in time carries a token that does not pass.                     *)
OnlyBadTokensRefused ==
    [][\A r \in Requests :
         /\ pc[r] \in {"validate", "valid"}
         /\ pc'[r] = "refused"
         /\ now < begun[r] + Deadline
         => ~Passes(db[token[r]], now)]_vars
=============================================================================
