------------------------- MODULE AuthServiceProofs --------------------------
(***************************************************************************)
(* The token exchange for any number of requests, tokens, client addresses *)
(* and restarts: types, single use, how long a revoked or expired token    *)
(* still works, and the atomic allowlist the exchange implements.          *)
(***************************************************************************)
EXTENDS AuthService, LimiterEntryProofs

(* The parts of TypeOK one action disturbs at a time.                      *)
HandlersOK ==
    /\ pc \in [Requests -> Places]
    /\ token \in [Requests -> Tokens \cup {None}]
    /\ begun \in [Requests -> 0..MaxTime]
    /\ stale \in [Requests -> BOOLEAN]
    /\ \A r \in Requests : pc[r] \in {"validate", "valid", "updated"} <=> token[r] # None

LEMMA NoneIsNobody == None \notin Requests /\ None \notin Tokens
  BY AuthAssumption

(* Finish and RollBack leave well-typed handlers behind.                   *)
LEMMA FinishType ==
  ASSUME TypeOK, NEW r \in Requests, NEW place \in {"idle", "refused", "issued"},
         Finish(r, place), stale' \in [Requests -> BOOLEAN]
  PROVE  HandlersOK'
<1>1. /\ pc' \in [Requests -> Places]
      /\ token' \in [Requests -> Tokens \cup {None}]
      /\ begun' \in [Requests -> 0..MaxTime]
  BY AuthAssumption DEF TypeOK, Finish, Places
<1>2. ASSUME NEW q \in Requests
      PROVE  pc'[q] \in {"validate", "valid", "updated"} <=> token'[q] # None
  <2>1. CASE q = r
    BY <2>1 DEF TypeOK, Finish
  <2>2. CASE q # r
    BY <2>2 DEF TypeOK, Finish
  <2> QED
    BY <2>1, <2>2
<1> QED
  BY <1>1, <1>2 DEF HandlersOK

LEMMA RollBackType ==
  ASSUME TypeOK, NEW r \in Requests, RollBack(r)
  PROVE  /\ stale' \in [Requests -> BOOLEAN]
         /\ wlock' \in Requests \cup {None}
         /\ UNCHANGED <<db, disk, redeemed>>
  BY DEF TypeOK, RollBack

LEMMA OutdatedType ==
  ASSUME TypeOK, NEW r
  PROVE  Outdated(r) \in [Requests -> BOOLEAN]
  BY DEF TypeOK, Outdated

LEMMA WriteType ==
  ASSUME TypeOK, NEW t \in Tokens, NEW row \in Row, Write(t, row)
  PROVE  /\ HandlersOK'
         /\ db' \in [Tokens -> Row]
         /\ UNCHANGED <<now, entries, disk, wlock, crashes>>
<1>1. stale' \in [Requests -> BOOLEAN]
  BY OutdatedType DEF Write
<1> QED
  BY <1>1 DEF TypeOK, Write, HandlersOK

LEMMA TypeInit == Init => TypeOK
  BY AuthAssumption, RpsPositive
     DEF Init, TypeOK, Row, NoRow, Never, Places, Entry, NoEntry

LEMMA TypeStep == TypeOK /\ [Next]_vars => TypeOK'
<1> SUFFICES ASSUME TypeOK, [Next]_vars PROVE TypeOK'
  OBVIOUS
<1> USE AuthAssumption, NoneIsNobody
<1> USE DEF rows, handlers
<1>0. ASSUME NEW ip \in IPs, Admits(entries[ip], now)
      PROVE  [entries EXCEPT ![ip] = Charge(@, now)] \in [IPs -> Entry]
  <2>1. Charge(entries[ip], now) \in Entry
    BY <1>0, ChargeType DEF TypeOK
  <2> QED
    BY <2>1 DEF TypeOK
<1>1. ASSUME NEW r \in Requests, NEW ip \in IPs, NEW t \in Tokens, Arrive(r, ip, t)
      PROVE  TypeOK'
  <2>1. entries' \in [IPs -> Entry]
    BY <1>0, <1>1 DEF Arrive
  <2>2. HandlersOK'
    BY <1>1 DEF TypeOK, Arrive, HandlersOK, Places
  <2> QED
    BY <1>1, <2>1, <2>2 DEF TypeOK, Arrive, HandlersOK
<1>2. ASSUME NEW r \in Requests, NEW ip \in IPs, TooMany(r, ip)
      PROVE  TypeOK'
  BY <1>2 DEF TypeOK, TooMany, Places
<1>3. ASSUME NEW r \in Requests, NEW ip \in IPs, BadRequest(r, ip)
      PROVE  TypeOK'
  <2>1. entries' \in [IPs -> Entry]
    BY <1>0, <1>3 DEF BadRequest
  <2> QED
    BY <1>3, <2>1 DEF TypeOK, BadRequest, Places
<1>4. ASSUME NEW r \in Requests, NEW place \in {"idle", "refused", "issued"},
             Finish(r, place), RollBack(r), UNCHANGED <<now, entries, crashes>>
      PROVE  TypeOK'
  <2>1. HandlersOK'
    BY <1>4, FinishType, RollBackType
  <2> QED
    BY <1>4, <2>1, RollBackType DEF TypeOK, HandlersOK
<1>5. ASSUME NEW r \in Requests, Select(r)
      PROVE  TypeOK'
  <2>1. CASE Passes(db[token[r]], now)
    BY <1>5, <2>1 DEF TypeOK, Select, Places
  <2>2. CASE ~Passes(db[token[r]], now)
    BY <1>4, <1>5, <2>2 DEF Select
  <2> QED
    BY <2>1, <2>2
<1>6. ASSUME NEW r \in Requests, Update(r)
      PROVE  TypeOK'
  <2>1. CASE MayWrite(r)
    BY <1>6, <2>1 DEF TypeOK, Update, Places
  <2>2. CASE ~MayWrite(r)
    BY <1>4, <1>6, <2>2 DEF Update
  <2> QED
    BY <2>1, <2>2
<1>7. ASSUME NEW r \in Requests, Commit(r)
      PROVE  TypeOK'
  <2>1. token[r] \in Tokens
    BY <1>7 DEF TypeOK, Commit
  <2>2. redeemed' \in [Tokens -> Nat]
    BY <1>7, <2>1 DEF TypeOK, Commit
  <2>3. stale' \in [Requests -> BOOLEAN]
    <3>1. Outdated(r) \in [Requests -> BOOLEAN] /\ stale \in [Requests -> BOOLEAN]
      BY OutdatedType DEF TypeOK
    <3>2. \/ stale' = [Outdated(r) EXCEPT ![r] = FALSE]
          \/ stale' = [stale EXCEPT ![r] = FALSE]
      BY <1>7 DEF Commit
    <3> QED
      BY <3>1, <3>2
  <2>4. Consumed(db[token[r]]) \in Row
    BY <2>1 DEF TypeOK, Consumed, Row
  <2>5. db' \in [Tokens -> Row] /\ wlock' \in Requests \cup {None}
    BY <1>7, <2>4 DEF TypeOK, Commit
  <2>6. HandlersOK'
    BY <1>7, <2>3, FinishType DEF Commit
  <2> QED
    BY <1>7, <2>2, <2>5, <2>6 DEF TypeOK, Commit, HandlersOK
<1>8. ASSUME NEW r \in Requests, TimeOut(r) \/ Disconnect(r)
      PROVE  TypeOK'
  BY <1>4, <1>8 DEF TimeOut, Disconnect
<1>9. ASSUME NEW r \in Requests, Reply(r)
      PROVE  TypeOK'
  BY <1>9 DEF TypeOK, Reply, Places
<1>10. ASSUME NEW t \in Tokens, Insert(t)
       PROVE  TypeOK'
  <2>1. PICK ttl \in TTLs :
          Write(t, [present |-> TRUE, consumed |-> FALSE,
                    revoked |-> Never, expires |-> now + ttl])
    BY <1>10 DEF Insert
  <2>2. [present |-> TRUE, consumed |-> FALSE,
         revoked |-> Never, expires |-> now + ttl] \in Row
    BY DEF TypeOK, Row, Never
  <2>3. redeemed' \in [Tokens -> Nat]
    BY <1>10 DEF TypeOK, Insert
  <2> QED
    BY <2>1, <2>2, <2>3, WriteType DEF TypeOK, HandlersOK
<1>11. ASSUME NEW t \in Tokens, Revoke(t)
       PROVE  TypeOK'
  <2>1. /\ [db[t] EXCEPT !.revoked = now] \in Row
        /\ NoRow \in Row
    BY DEF TypeOK, Row, NoRow, Never
  <2>2. UNCHANGED redeemed
    BY <1>11 DEF Revoke
  <2>3. \E row \in Row : Write(t, row)
    BY <1>11, <2>1 DEF Revoke
  <2> QED
    BY <2>2, <2>3, WriteType DEF TypeOK, HandlersOK
<1>12. CASE Tick
  BY <1>12 DEF TypeOK, Tick
<1>13. CASE Checkpoint
  BY <1>13 DEF TypeOK, Checkpoint
<1>14. CASE Crash \/ PowerLoss
  <2>1. entries' \in [IPs -> Entry]
    BY <1>14, RpsPositive DEF Crash, PowerLoss, Restart, Entry, NoEntry
  <2>2. /\ db' \in [Tokens -> Row]
        /\ crashes' \in 0..MaxCrashes
        /\ UNCHANGED <<now, disk, redeemed>>
    BY <1>14 DEF TypeOK, Crash, PowerLoss, Restart
  <2>3. Restart
    BY <1>14 DEF Crash, PowerLoss
  <2>4. HandlersOK' /\ wlock' = None
    <3>1. ASSUME NEW r \in Requests
          PROVE  pc'[r] = "idle" /\ token'[r] = None
      BY <2>3 DEF Restart
    <3>2. /\ pc' \in [Requests -> Places]
          /\ token' \in [Requests -> Tokens \cup {None}]
          /\ begun' \in [Requests -> 0..MaxTime]
          /\ stale' \in [Requests -> BOOLEAN]
          /\ wlock' = None
      BY <2>3 DEF Restart, Places
    <3> QED
      BY <3>1, <3>2 DEF HandlersOK
  <2> QED
    BY <2>1, <2>2, <2>4 DEF TypeOK, HandlersOK
<1>15. CASE UNCHANGED vars
  BY <1>15 DEF TypeOK, vars
<1> QED
  BY <1>1, <1>2, <1>3, <1>5, <1>6, <1>7, <1>8, <1>9, <1>10, <1>11, <1>12,
     <1>13, <1>14, <1>15 DEF Next, Handle

(* No interleaving of handlers, writers and restarts takes a variable out  *)
(* of its type; in particular a handler holds a token exactly while it     *)
(* works on it, and no window of the limiter counts more than the rate.    *)
THEOREM TypeCorrect == Spec => []TypeOK
  BY TypeInit, TypeStep, PTL DEF Spec

-----------------------------------------------------------------------------
(* Why the exchange is single-use: only the holder of the write lock has   *)
(* updated; its snapshot, like every snapshot nobody has committed since,  *)
(* is the database as it stands; and an unconsumed row has given no key    *)
(* that an outage has not forgotten.                                       *)
LockInv ==
    \A r \in Requests : /\ pc[r] = "updated" <=> wlock = r
                        /\ pc[r] = "updated" => ~stale[r]

SnapshotInv ==
    \A r \in Requests :
        pc[r] \in {"valid", "updated"} /\ ~stale[r] =>
            /\ db[token[r]].present
            /\ ~db[token[r]].consumed
            /\ db[token[r]].revoked = Never
            /\ begun[r] <= db[token[r]].expires

LedgerInv ==
    ConsumeOnIssue =>
        \A t \in Tokens :
            /\ redeemed[t] <= 1 + Outages
            /\ db[t].present /\ ~db[t].consumed => redeemed[t] <= Outages

BegunInv == \A r \in Requests : begun[r] <= now

ExchangeInv == TypeOK /\ LockInv /\ SnapshotInv /\ LedgerInv /\ BegunInv

LEMMA ExchangeInit == Init => ExchangeInv
<1> SUFFICES ASSUME Init PROVE ExchangeInv
  OBVIOUS
<1>1. TypeOK
  BY TypeInit
<1>2. Outages = 0
  BY DEF Init, Outages
<1>3. LockInv /\ SnapshotInv /\ BegunInv
  BY NoneIsNobody DEF Init, LockInv, SnapshotInv, BegunInv
<1>4. LedgerInv
  BY <1>2 DEF Init, LedgerInv
<1> QED
  BY <1>1, <1>3, <1>4 DEF ExchangeInv

(* A request that fails, times out or loses its client takes only itself   *)
(* out of the picture.                                                     *)
LEMMA EndKeepsInv ==
  ASSUME ExchangeInv, NEW r \in Requests, NEW place \in {"idle", "refused", "issued"},
         Finish(r, place), RollBack(r), UNCHANGED <<now, entries, crashes>>
  PROVE  LockInv' /\ SnapshotInv' /\ LedgerInv' /\ BegunInv'
<1>1. ASSUME NEW q \in Requests, q # r
      PROVE  /\ pc'[q] = pc[q]
             /\ token'[q] = token[q]
             /\ begun'[q] = begun[q]
             /\ stale'[q] = stale[q]
             /\ wlock' = q <=> wlock = q
  BY <1>1, NoneIsNobody DEF ExchangeInv, TypeOK, Finish, RollBack
<1>2. /\ pc'[r] = place
      /\ begun'[r] = 0
      /\ wlock' # r
  BY NoneIsNobody DEF ExchangeInv, TypeOK, Finish, RollBack
<1>3. /\ UNCHANGED <<db, redeemed, now>>
      /\ Outages' = Outages
  BY DEF RollBack, Outages
<1>4. LockInv'
  BY <1>1, <1>2 DEF ExchangeInv, LockInv
<1>5. SnapshotInv'
  BY <1>1, <1>2, <1>3 DEF ExchangeInv, SnapshotInv
<1>6. LedgerInv'
  BY <1>3 DEF ExchangeInv, LedgerInv
<1>7. BegunInv'
  BY <1>1, <1>2, <1>3 DEF ExchangeInv, BegunInv, TypeOK
<1> QED
  BY <1>4, <1>5, <1>6, <1>7

(* tokenctl and the operator write while nobody holds the lock, and their  *)
(* commit outdates every snapshot.                                         *)
LEMMA WriteKeepsInv ==
  ASSUME ExchangeInv, NEW t \in Tokens, NEW row \in Row, Write(t, row)
  PROVE  /\ LockInv' /\ SnapshotInv' /\ BegunInv'
         /\ Outages' = Outages
         /\ db'[t] = row
         /\ \A u \in Tokens : u # t => db'[u] = db[u]
<1>1. wlock = None /\ UNCHANGED <<now, wlock, pc, token, begun, crashes>>
  BY DEF Write
<1>2. \A q \in Requests : pc[q] # "updated"
  BY <1>1, NoneIsNobody DEF ExchangeInv, LockInv
<1>3. \A q \in Requests : pc[q] \in {"valid", "updated"} => stale'[q]
  BY NoneIsNobody DEF Write, Outdated
<1>4. LockInv'
  BY <1>1, <1>2, NoneIsNobody DEF LockInv
<1>5. SnapshotInv' /\ BegunInv'
  BY <1>1, <1>3 DEF SnapshotInv, ExchangeInv, BegunInv
<1>6. Outages' = Outages
  BY <1>1 DEF Outages
<1> QED
  BY <1>4, <1>5, <1>6 DEF Write, ExchangeInv, TypeOK

(* The commit of a consuming exchange.  Its snapshot is current, so the    *)
(* row it consumes was unconsumed and had given no key.                    *)
LEMMA CommitKeepsInv ==
  ASSUME ExchangeInv, NEW r \in Requests, Commit(r)
  PROVE  LockInv' /\ SnapshotInv' /\ LedgerInv' /\ BegunInv'
<1> USE NoneIsNobody
<1>1. /\ pc'[r] = "issued" /\ begun'[r] = 0
      /\ \A q \in Requests : q # r => /\ pc'[q] = pc[q]
                                      /\ token'[q] = token[q]
                                      /\ begun'[q] = begun[q]
      /\ UNCHANGED <<now, crashes>>
      /\ token[r] \in Tokens
  BY DEF ExchangeInv, TypeOK, Commit, Finish
<1>2. Outages' = Outages /\ Outages \in Nat
  BY <1>1 DEF Outages, ExchangeInv, TypeOK
<1>3. BegunInv'
  BY <1>1 DEF ExchangeInv, BegunInv, TypeOK
<1>4. CASE ConsumeOnIssue
  <2>1. /\ pc[r] = "updated" /\ wlock = r /\ ~stale[r]
        /\ \A q \in Requests : q # r => pc[q] # "updated"
    BY <1>4 DEF Commit, ExchangeInv, LockInv
  <2>2. /\ wlock' = None
        /\ \A q \in Requests : q # r /\ pc[q] \in {"valid", "updated"} => stale'[q]
    <3>1. Outdated(r) \in [Requests -> BOOLEAN] /\ stale' = [Outdated(r) EXCEPT ![r] = FALSE]
      BY <1>4, OutdatedType DEF Commit, ExchangeInv
    <3>2. \A q \in Requests : q # r => stale'[q] = Outdated(r)[q]
      BY <3>1
    <3> QED
      BY <1>4, <3>2 DEF Commit, Outdated
  <2>3. LockInv'
    BY <1>1, <2>1, <2>2 DEF LockInv
  <2>4. SnapshotInv'
    BY <1>1, <2>2 DEF SnapshotInv
  <2>5. db[token[r]].present /\ ~db[token[r]].consumed
    BY <2>1 DEF ExchangeInv, SnapshotInv
  <2>6. redeemed[token[r]] <= Outages
    BY <1>1, <1>4, <2>5 DEF ExchangeInv, LedgerInv
  <2>7. /\ db'[token[r]].consumed
        /\ redeemed'[token[r]] = redeemed[token[r]] + 1
        /\ \A u \in Tokens : u # token[r] => db'[u] = db[u] /\ redeemed'[u] = redeemed[u]
    <3>1. db' = [db EXCEPT ![token[r]] = Consumed(db[token[r]])]
      BY <1>4 DEF Commit
    <3>2. Consumed(db[token[r]]).consumed
      BY <1>1, <2>5 DEF Consumed, ExchangeInv, TypeOK, Row
    <3> QED
      BY <1>1, <3>1, <3>2 DEF Commit, ExchangeInv, TypeOK
  <2>8. redeemed[token[r]] \in Nat
    BY <1>1 DEF ExchangeInv, TypeOK
  <2>9. ASSUME NEW u \in Tokens
        PROVE  /\ redeemed'[u] <= 1 + Outages'
               /\ db'[u].present /\ ~db'[u].consumed => redeemed'[u] <= Outages'
    <3>1. CASE u = token[r]
      BY <1>2, <2>6, <2>7, <2>8, <3>1
    <3>2. CASE u # token[r]
      BY <1>2, <1>4, <2>7, <3>2 DEF ExchangeInv, LedgerInv
    <3> QED
      BY <3>1, <3>2
  <2>10. LedgerInv'
    BY <2>9 DEF LedgerInv
  <2> QED
    BY <1>3, <2>3, <2>4, <2>10
<1>5. CASE ~ConsumeOnIssue
  <2>1. /\ pc[r] = "valid" /\ UNCHANGED <<db, wlock>>
        /\ \A q \in Requests : q # r => stale'[q] = stale[q]
    BY <1>5 DEF Commit, ExchangeInv, TypeOK
  <2>2. wlock # r
    BY <2>1 DEF ExchangeInv, LockInv
  <2>3. LockInv'
    BY <1>1, <2>1, <2>2 DEF ExchangeInv, LockInv
  <2>4. SnapshotInv'
    BY <1>1, <2>1 DEF ExchangeInv, SnapshotInv
  <2>5. LedgerInv'
    BY <1>5 DEF LedgerInv
  <2> QED
    BY <1>3, <2>3, <2>4, <2>5
<1> QED
  BY <1>4, <1>5

LEMMA ExchangeStep == ExchangeInv /\ [Next]_vars => ExchangeInv'
<1> SUFFICES ASSUME ExchangeInv, [Next]_vars
             PROVE  LockInv' /\ SnapshotInv' /\ LedgerInv' /\ BegunInv'
  BY TypeStep DEF ExchangeInv
<1> USE NoneIsNobody
<1> USE DEF rows, handlers
<1>1. ASSUME NEW r \in Requests, NEW ip \in IPs, NEW t \in Tokens, Arrive(r, ip, t)
      PROVE  LockInv' /\ SnapshotInv' /\ LedgerInv' /\ BegunInv'
  <2>1. pc[r] = "idle" /\ pc'[r] = "validate" /\ begun'[r] = now /\ wlock # r
    BY <1>1 DEF Arrive, ExchangeInv, TypeOK, LockInv
  <2>2. \A q \in Requests : q # r => /\ pc'[q] = pc[q]
                                     /\ token'[q] = token[q]
                                     /\ begun'[q] = begun[q]
    BY <1>1 DEF Arrive, ExchangeInv, TypeOK
  <2>3. UNCHANGED <<now, db, wlock, redeemed, stale, crashes>>
    BY <1>1 DEF Arrive
  <2>4. LockInv' /\ SnapshotInv'
    BY <2>1, <2>2, <2>3 DEF ExchangeInv, LockInv, SnapshotInv
  <2>5. LedgerInv'
    BY <2>3 DEF ExchangeInv, LedgerInv, Outages
  <2>6. BegunInv'
    BY <2>1, <2>2, <2>3 DEF ExchangeInv, BegunInv, TypeOK
  <2> QED
    BY <2>4, <2>5, <2>6
<1>2. ASSUME NEW r \in Requests,
             NEW place \in {"idle", "refused"},
             pc[r] \in {"idle", "refused", "issued"},
             pc' = [pc EXCEPT ![r] = place],
             UNCHANGED <<now, rows, token, begun, stale, crashes>>
      PROVE  LockInv' /\ SnapshotInv' /\ LedgerInv' /\ BegunInv'
  <2>1. pc'[r] = place /\ \A q \in Requests : q # r => pc'[q] = pc[q]
    BY <1>2 DEF ExchangeInv, TypeOK
  <2>2. LockInv' /\ SnapshotInv'
    BY <1>2, <2>1 DEF ExchangeInv, LockInv, SnapshotInv
  <2>3. LedgerInv' /\ BegunInv'
    BY <1>2 DEF ExchangeInv, LedgerInv, BegunInv, Outages
  <2> QED
    BY <2>2, <2>3
<1>3. ASSUME NEW r \in Requests, NEW ip \in IPs, TooMany(r, ip) \/ BadRequest(r, ip)
      PROVE  LockInv' /\ SnapshotInv' /\ LedgerInv' /\ BegunInv'
  BY <1>2, <1>3 DEF TooMany, BadRequest
<1>4. ASSUME NEW r \in Requests, Reply(r)
      PROVE  LockInv' /\ SnapshotInv' /\ LedgerInv' /\ BegunInv'
  BY <1>2, <1>4 DEF Reply
<1>5. ASSUME NEW r \in Requests, Select(r)
      PROVE  LockInv' /\ SnapshotInv' /\ LedgerInv' /\ BegunInv'
  <2>1. CASE Passes(db[token[r]], now)
    <3>1. /\ pc[r] = "validate" /\ pc'[r] = "valid" /\ wlock # r
          /\ UNCHANGED <<now, rows, token, begun, stale, crashes>>
      BY <1>5, <2>1 DEF Select, ExchangeInv, TypeOK, LockInv
    <3>2. \A q \in Requests : q # r => pc'[q] = pc[q]
      BY <1>5, <2>1 DEF Select, ExchangeInv, TypeOK
    <3>3. LockInv'
      BY <3>1, <3>2 DEF ExchangeInv, LockInv
    <3>4. /\ db[token[r]].present
          /\ ~db[token[r]].consumed
          /\ db[token[r]].revoked = Never
          /\ begun[r] <= db[token[r]].expires
      <4>1. token[r] \in Tokens
        BY <3>1 DEF ExchangeInv, TypeOK
      <4>2. db[token[r]].expires \in Int /\ now \in Nat /\ begun[r] \in Nat /\ begun[r] <= now
        BY <4>1 DEF ExchangeInv, TypeOK, Row, BegunInv
      <4> QED
        BY <2>1, <4>2 DEF Passes
    <3>5. SnapshotInv'
      BY <3>1, <3>2, <3>4 DEF ExchangeInv, SnapshotInv
    <3>6. LedgerInv' /\ BegunInv'
      BY <3>1 DEF ExchangeInv, LedgerInv, BegunInv, Outages
    <3> QED
      BY <3>3, <3>5, <3>6
  <2>2. CASE ~Passes(db[token[r]], now)
    BY <1>5, <2>2, EndKeepsInv DEF Select
  <2> QED
    BY <2>1, <2>2
<1>6. ASSUME NEW r \in Requests, Update(r)
      PROVE  LockInv' /\ SnapshotInv' /\ LedgerInv' /\ BegunInv'
  <2>1. CASE MayWrite(r)
    <3>1. /\ wlock = None /\ ~stale[r]
          /\ wlock' = r
          /\ pc[r] = "valid" /\ pc'[r] = "updated"
          /\ UNCHANGED <<now, db, redeemed, token, begun, stale, crashes>>
      BY <1>6, <2>1 DEF Update, MayWrite, ExchangeInv, TypeOK
    <3>2. \A q \in Requests : q # r => pc'[q] = pc[q]
      BY <1>6, <2>1 DEF Update, ExchangeInv, TypeOK
    <3>3. LockInv' /\ SnapshotInv'
      BY <3>1, <3>2 DEF ExchangeInv, LockInv, SnapshotInv
    <3>4. LedgerInv' /\ BegunInv'
      BY <3>1 DEF ExchangeInv, LedgerInv, BegunInv, Outages
    <3> QED
      BY <3>3, <3>4
  <2>2. CASE ~MayWrite(r)
    BY <1>6, <2>2, EndKeepsInv DEF Update
  <2> QED
    BY <2>1, <2>2
<1>7. ASSUME NEW r \in Requests, Commit(r)
      PROVE  LockInv' /\ SnapshotInv' /\ LedgerInv' /\ BegunInv'
  BY <1>7, CommitKeepsInv
<1>8. ASSUME NEW r \in Requests, TimeOut(r) \/ Disconnect(r)
      PROVE  LockInv' /\ SnapshotInv' /\ LedgerInv' /\ BegunInv'
  BY <1>8, EndKeepsInv DEF TimeOut, Disconnect
<1>9. ASSUME NEW t \in Tokens, Insert(t)
      PROVE  LockInv' /\ SnapshotInv' /\ LedgerInv' /\ BegunInv'
  <2>1. \E row \in Row : Write(t, row)
    <3>1. \A ttl \in TTLs : [present |-> TRUE, consumed |-> FALSE,
                             revoked |-> Never, expires |-> now + ttl] \in Row
      BY AuthAssumption DEF ExchangeInv, TypeOK, Row, Never
    <3> QED
      BY <1>9, <3>1 DEF Insert
  <2>2. /\ LockInv' /\ SnapshotInv' /\ BegunInv'
        /\ Outages' = Outages
        /\ \A u \in Tokens : u # t => db'[u] = db[u]
    BY <2>1, WriteKeepsInv
  <2>3. redeemed'[t] = 0 /\ \A u \in Tokens : u # t => redeemed'[u] = redeemed[u]
    BY <1>9 DEF Insert, ExchangeInv, TypeOK
  <2>4. Outages \in Nat
    BY DEF Outages, ExchangeInv, TypeOK
  <2>5. LedgerInv'
    BY <2>2, <2>3, <2>4 DEF ExchangeInv, LedgerInv
  <2> QED
    BY <2>2, <2>5
<1>10. ASSUME NEW t \in Tokens, Revoke(t)
       PROVE  LockInv' /\ SnapshotInv' /\ LedgerInv' /\ BegunInv'
  <2>1. PICK row \in Row : /\ Write(t, row)
                           /\ row.present => /\ db[t].present
                                             /\ row.consumed = db[t].consumed
    <3>1. [db[t] EXCEPT !.revoked = now] \in Row /\ NoRow \in Row /\ ~NoRow.present
      BY AuthAssumption DEF ExchangeInv, TypeOK, Row, NoRow, Never
    <3>2. /\ [db[t] EXCEPT !.revoked = now].present = db[t].present
          /\ [db[t] EXCEPT !.revoked = now].consumed = db[t].consumed
      BY DEF ExchangeInv, TypeOK, Row
    <3> QED
      BY <1>10, <3>1, <3>2 DEF Revoke
  <2>2. /\ LockInv' /\ SnapshotInv' /\ BegunInv'
        /\ Outages' = Outages
        /\ db'[t] = row
        /\ \A u \in Tokens : u # t => db'[u] = db[u]
    BY <2>1, WriteKeepsInv
  <2>3. UNCHANGED redeemed
    BY <1>10 DEF Revoke
  <2>4. LedgerInv'
    BY <2>1, <2>2, <2>3 DEF ExchangeInv, LedgerInv
  <2> QED
    BY <2>2, <2>4
<1>11. CASE Tick
  <2>1. UNCHANGED <<rows, handlers, crashes>> /\ now' = now + 1
    BY <1>11 DEF Tick
  <2>2. BegunInv'
    BY <2>1 DEF ExchangeInv, BegunInv, TypeOK
  <2> QED
    BY <2>1, <2>2 DEF ExchangeInv, LockInv, SnapshotInv, LedgerInv, Outages
<1>12. CASE Checkpoint
  BY <1>12 DEF Checkpoint, ExchangeInv, LockInv, SnapshotInv, LedgerInv, BegunInv, Outages
<1>13. CASE Crash \/ PowerLoss
  <2>1. /\ \A r \in Requests : pc'[r] = "idle" /\ begun'[r] = 0
        /\ wlock' = None
        /\ crashes' = crashes + 1
        /\ UNCHANGED <<now, redeemed>>
        /\ UNCHANGED db \/ PowerFails
    BY <1>13 DEF Crash, PowerLoss, Restart
  <2>2. LockInv' /\ SnapshotInv'
    BY <2>1 DEF LockInv, SnapshotInv
  <2>3. BegunInv'
    BY <2>1 DEF BegunInv, ExchangeInv, TypeOK
  <2>4. crashes \in Nat /\ \A t \in Tokens : redeemed[t] \in Nat
    BY DEF ExchangeInv, TypeOK
  <2>5. LedgerInv'
    <3>1. CASE PowerFails
      BY <2>1, <2>4, <3>1 DEF ExchangeInv, LedgerInv, Outages
    <3>2. CASE ~PowerFails
      BY <2>1, <3>2 DEF ExchangeInv, LedgerInv, Outages
    <3> QED
      BY <3>1, <3>2
  <2> QED
    BY <2>2, <2>3, <2>5
<1>14. CASE UNCHANGED vars
  BY <1>14 DEF vars, ExchangeInv, LockInv, SnapshotInv, LedgerInv, BegunInv, Outages
<1> QED
  BY <1>1, <1>3, <1>4, <1>5, <1>6, <1>7, <1>8, <1>9, <1>10, <1>11, <1>12,
     <1>13, <1>14 DEF Next, Handle

THEOREM ExchangeInvariant == Spec => []ExchangeInv
  BY ExchangeInit, ExchangeStep, PTL DEF Spec

(* One invitation, one session key, for any number of concurrent requests, *)
(* tokens, writers and restarts of authd, and one more per power failure:  *)
(* the UPDATE whose row count the code does not look at never misses its   *)
(* row.                                                                    *)
THEOREM SingleUseHolds == Spec => []SingleUse
<1>1. ExchangeInv => SingleUse
  BY DEF ExchangeInv, LedgerInv, SingleUse
<1> QED
  BY <1>1, ExchangeInvariant, PTL

-----------------------------------------------------------------------------
(* Why a revocation takes hold.  The commit does not look at the row again *)
(* (it cannot, when nothing is consumed), and the row may have been        *)
(* written since the SELECT; but a request under way began before whatever *)
(* now speaks against its token: revocations and expiries are dated no     *)
(* earlier than they are written, and power failures leave no request.     *)

(* A request that began at time b may go on with this row: if the row is   *)
(* expired or revoked, it became so at b or later.                         *)
MayGoOn(row, b) ==
    row.present => /\ b <= row.expires
                   /\ row.revoked # Never => b <= row.revoked

GraceInv ==
    \A r \in Requests :
        pc[r] \in {"valid", "updated"} => MayGoOn(db[token[r]], begun[r])

(* A step on which no request newly passes its check and no row changes    *)
(* but by being consumed.                                                  *)
LEMMA GraceKept ==
  ASSUME GraceInv,
         \A q \in Requests :
            pc'[q] \in {"valid", "updated"} =>
               /\ pc[q] \in {"valid", "updated"}
               /\ token'[q] = token[q] /\ begun'[q] = begun[q]
               /\ db'[token[q]] \in {db[token[q]], Consumed(db[token[q]])}
  PROVE  GraceInv'
<1> SUFFICES ASSUME NEW q \in Requests, pc'[q] \in {"valid", "updated"}
             PROVE  MayGoOn(db'[token'[q]], begun'[q])
  BY DEF GraceInv
<1>1. /\ MayGoOn(db[token[q]], begun[q])
      /\ token'[q] = token[q] /\ begun'[q] = begun[q]
      /\ db'[token[q]] \in {db[token[q]], Consumed(db[token[q]])}
  BY DEF GraceInv
<1>2. ASSUME NEW row, NEW b, MayGoOn(row, b)
      PROVE  MayGoOn(Consumed(row), b)
  BY <1>2 DEF MayGoOn, Consumed
<1> QED
  BY <1>1, <1>2

(* tokenctl and the operator date what they write now or later, and every  *)
(* request began before.                                                   *)
LEMMA GraceWritten ==
  ASSUME ExchangeInv, GraceInv, NEW t \in Tokens, NEW row, Write(t, row),
         \A q \in Requests :
            pc[q] \in {"valid", "updated"} /\ token[q] = t =>
               MayGoOn(row, begun[q])
  PROVE  GraceInv'
<1> SUFFICES ASSUME NEW q \in Requests, pc[q] \in {"valid", "updated"}
             PROVE  MayGoOn(db'[token[q]], begun[q])
  BY DEF GraceInv, Write
<1>1. db' = [db EXCEPT ![t] = row] /\ db \in [Tokens -> Row]
  BY DEF Write, ExchangeInv, TypeOK
<1>2. token[q] \in Tokens
  BY DEF ExchangeInv, TypeOK
<1>3. CASE token[q] = t
  BY <1>1, <1>3
<1>4. CASE token[q] # t
  BY <1>1, <1>2, <1>4 DEF GraceInv
<1> QED
  BY <1>3, <1>4

LEMMA GraceStep == ExchangeInv /\ GraceInv /\ [Next]_vars => GraceInv'
<1> SUFFICES ASSUME ExchangeInv, GraceInv, [Next]_vars PROVE GraceInv'
  OBVIOUS
<1> USE DEF rows, handlers
<1>1. TypeOK
  BY DEF ExchangeInv
<1>2. ASSUME NEW r \in Requests, NEW place \in {"idle", "refused", "issued"},
             Finish(r, place), UNCHANGED db
      PROVE  GraceInv'
  BY <1>1, <1>2, GraceKept DEF TypeOK, Finish
<1>3. ASSUME NEW r \in Requests,
             \/ \E ip \in IPs : \/ \E t \in Tokens : Arrive(r, ip, t)
                               \/ TooMany(r, ip)
                               \/ BadRequest(r, ip)
             \/ Reply(r)
      PROVE  GraceInv'
  <2>1. PICK place \in {"validate", "refused", "idle"} :
           pc' = [pc EXCEPT ![r] = place]
    BY <1>3 DEF Arrive, TooMany, BadRequest, Reply
  <2>2. /\ UNCHANGED db
        /\ \A q \in Requests : q # r => token'[q] = token[q] /\ begun'[q] = begun[q]
    BY <1>1, <1>3 DEF TypeOK, Arrive, TooMany, BadRequest, Reply
  <2> QED
    BY <1>1, <2>1, <2>2, GraceKept DEF TypeOK
<1>4. ASSUME NEW r \in Requests, Select(r)
      PROVE  GraceInv'
  <2>1. CASE Passes(db[token[r]], now)
    <3>1. /\ pc[r] = "validate" /\ UNCHANGED <<token, begun, db>>
          /\ \A q \in Requests : q # r => pc'[q] = pc[q]
      BY <1>1, <1>4, <2>1 DEF Select, TypeOK
    <3>2. MayGoOn(db[token[r]], begun[r])
      <4>1. token[r] \in Tokens
        BY <1>1, <3>1 DEF TypeOK
      <4>2. /\ db[token[r]].expires \in Int /\ now \in Nat
            /\ begun[r] \in Nat /\ begun[r] <= now
        BY <4>1, AuthAssumption DEF ExchangeInv, TypeOK, Row, BegunInv
      <4> QED
        BY <2>1, <4>2 DEF Passes, MayGoOn
    <3> QED
      BY <3>1, <3>2 DEF GraceInv
  <2>2. CASE ~Passes(db[token[r]], now)
    BY <1>2, <1>4, <2>2 DEF Select, RollBack
  <2> QED
    BY <2>1, <2>2
<1>5. ASSUME NEW r \in Requests, Update(r)
      PROVE  GraceInv'
  <2>1. CASE MayWrite(r)
    BY <1>1, <1>5, <2>1, GraceKept DEF Update, TypeOK
  <2>2. CASE ~MayWrite(r)
    BY <1>2, <1>5, <2>2 DEF Update, RollBack
  <2> QED
    BY <2>1, <2>2
<1>6. ASSUME NEW r \in Requests, Commit(r)
      PROVE  GraceInv'
  <2>1. CASE ConsumeOnIssue
    <3>1. /\ Finish(r, "issued")
          /\ db' = [db EXCEPT ![token[r]] = Consumed(db[token[r]])]
      BY <1>6, <2>1 DEF Commit
    <3>2. \A q \in Requests :
             pc'[q] \in {"valid", "updated"} =>
                /\ pc[q] \in {"valid", "updated"}
                /\ token'[q] = token[q] /\ begun'[q] = begun[q]
                /\ token[q] \in Tokens
      BY <1>1, <3>1 DEF TypeOK, Finish
    <3>3. \A t \in Tokens : db'[t] \in {db[t], Consumed(db[t])}
      BY <1>1, <3>1 DEF TypeOK
    <3> QED
      BY <3>2, <3>3, GraceKept
  <2>2. CASE ~ConsumeOnIssue
    BY <1>2, <1>6, <2>2 DEF Commit
  <2> QED
    BY <2>1, <2>2
<1>7. ASSUME NEW r \in Requests, TimeOut(r) \/ Disconnect(r)
      PROVE  GraceInv'
  BY <1>2, <1>7 DEF TimeOut, Disconnect, RollBack
<1>8. \A q \in Requests : begun[q] \in Nat /\ begun[q] <= now /\ now \in Nat
  BY AuthAssumption DEF ExchangeInv, BegunInv, TypeOK
<1>9. ASSUME NEW t \in Tokens, Insert(t)
      PROVE  GraceInv'
  <2>1. PICK ttl \in TTLs :
          Write(t, [present |-> TRUE, consumed |-> FALSE,
                    revoked |-> Never, expires |-> now + ttl])
    BY <1>9 DEF Insert
  <2>2. \A q \in Requests :
           MayGoOn([present |-> TRUE, consumed |-> FALSE,
                    revoked |-> Never, expires |-> now + ttl], begun[q])
    BY <1>8, AuthAssumption DEF MayGoOn
  <2> QED
    BY <2>1, <2>2, GraceWritten
<1>10. ASSUME NEW t \in Tokens, Revoke(t)
       PROVE  GraceInv'
  <2>1. CASE Write(t, NoRow)
    BY <2>1, GraceWritten DEF MayGoOn, NoRow
  <2>2. CASE db[t].revoked = Never /\ Write(t, [db[t] EXCEPT !.revoked = now])
    <3>1. \A q \in Requests :
             pc[q] \in {"valid", "updated"} /\ token[q] = t =>
                MayGoOn([db[t] EXCEPT !.revoked = now], begun[q])
      BY <1>1, <1>8 DEF GraceInv, MayGoOn, TypeOK, Row
    <3> QED
      BY <2>2, <3>1, GraceWritten
  <2> QED
    BY <1>10, <2>1, <2>2 DEF Revoke
<1>11. CASE Tick \/ Checkpoint \/ UNCHANGED vars
  BY <1>11, GraceKept DEF Tick, Checkpoint, vars
<1>12. CASE Crash \/ PowerLoss
  BY <1>12 DEF Crash, PowerLoss, Restart, GraceInv
<1> QED
  BY <1>3, <1>4, <1>5, <1>6, <1>7, <1>9, <1>10, <1>11, <1>12 DEF Next, Handle

(* Without --consume-on-issue as with it, and whatever power failures undo:*)
(* a session key is granted for a revoked or expired row only to a request *)
(* that had begun before, hence within Deadline of the revocation or of    *)
(* the expiry.                                                             *)
THEOREM RevocationHolds == Spec => RevocationTakesHold
<1> DEFINE InGrace(t) ==
             db[t].present =>
                /\ db[t].revoked # Never => now <= db[t].revoked + Deadline
                /\ now <= db[t].expires + Deadline
<1>1. ASSUME ExchangeInv, GraceInv, NEW r \in Requests, Commit(r)
      PROVE  InGrace(token[r])
  <2>1. /\ pc[r] \in {"valid", "updated"} /\ now <= begun[r] + Deadline
        /\ token[r] \in Tokens
    BY <1>1 DEF Commit, InTime, ExchangeInv, TypeOK
  <2>2. MayGoOn(db[token[r]], begun[r])
    BY <1>1, <2>1 DEF GraceInv
  <2>3. /\ now \in Nat /\ begun[r] \in Nat /\ Deadline \in Nat
        /\ db[token[r]].expires \in Int /\ db[token[r]].revoked \in Int
    BY <1>1, <2>1, AuthAssumption DEF ExchangeInv, TypeOK, Row
  <2> QED
    BY <2>1, <2>2, <2>3 DEF MayGoOn
<1>2. ASSUME ExchangeInv, [Next]_vars, NEW t \in Tokens, redeemed'[t] > redeemed[t]
      PROVE  \E r \in Requests : Commit(r) /\ token[r] = t
  <2> USE DEF rows, handlers
  <2>1. redeemed \in [Tokens -> Nat]
    BY <1>2 DEF ExchangeInv, TypeOK
  <2>2. redeemed' # redeemed
    BY <1>2, <2>1
  <2>3. ASSUME NEW u \in Tokens, Insert(u) PROVE FALSE
    BY <1>2, <2>1, <2>3 DEF Insert
  <2>4. ASSUME NEW u \in Tokens, Revoke(u) PROVE FALSE
    BY <2>2, <2>4 DEF Revoke
  <2>5. ~Tick /\ ~Checkpoint /\ ~Crash /\ ~PowerLoss /\ ~UNCHANGED vars
    BY <2>2 DEF Tick, Checkpoint, Crash, PowerLoss, Restart, vars
  <2>6. PICK r \in Requests : Handle(r)
    BY <1>2, <2>3, <2>4, <2>5 DEF Next
  <2>7. Commit(r)
    BY <2>2, <2>6 DEF Handle, Arrive, TooMany, BadRequest, Select, Update,
                      TimeOut, Disconnect, Reply, RollBack
  <2>8. redeemed' = [redeemed EXCEPT ![token[r]] = @ + 1]
    BY <2>7 DEF Commit
  <2>9. token[r] = t
    BY <1>2, <2>1, <2>8
  <2> QED
    BY <2>7, <2>9
<1> HIDE DEF InGrace
<1>3. ExchangeInv /\ GraceInv /\ [Next]_vars =>
         \A t \in Tokens : redeemed'[t] > redeemed[t] => InGrace(t)
  BY <1>1, <1>2
<1>4. ExchangeInv /\ GraceInv /\ [Next]_vars =>
         [\A t \in Tokens :
            redeemed'[t] > redeemed[t] /\ db[t].present =>
               /\ db[t].revoked # Never => now <= db[t].revoked + Deadline
               /\ now <= db[t].expires + Deadline]_vars
  BY <1>3 DEF InGrace
<1>5. Init => GraceInv
  BY DEF Init, GraceInv
<1> QED
  BY <1>4, <1>5, GraceStep, ExchangeInvariant, PTL DEF Spec, RevocationTakesHold

-----------------------------------------------------------------------------
(* Why a request is refused in time.  A token that passes is, and then the *)
(* UPDATE is what fails: another exchange holds the write lock, or somebody*)
(* has committed since the SELECT.                                         *)
Conflict(r) ==
    /\ ConsumeOnIssue /\ pc[r] = "valid"
    /\ stale[r] \/ \E q \in Requests \ {r} : wlock = q /\ pc[q] = "updated"

LEMMA RefusalStep ==
  ASSUME ExchangeInv, [Next]_vars, NEW r \in Requests,
         pc[r] \in {"validate", "valid"}, pc'[r] = "refused",
         now < begun[r] + Deadline
  PROVE  ~Passes(db[token[r]], now) \/ Conflict(r)
<1> USE DEF rows, handlers
<1>1. pc \in [Requests -> Places] /\ now \in Nat /\ begun[r] \in Nat /\ Deadline \in Nat
  BY AuthAssumption DEF ExchangeInv, TypeOK
<1>2. \E q \in Requests : Handle(q)
  BY <1>1 DEF Next, Insert, Revoke, Write, Tick, Checkpoint, Crash, PowerLoss, Restart, vars
<1>3. PICK q \in Requests : Handle(q)
  BY <1>2
<1>4. q = r
  BY <1>1, <1>3 DEF Handle, Arrive, TooMany, BadRequest, Select, Update, Commit, TimeOut,
                    Disconnect, Reply, Finish
<1>5. Select(r) \/ Update(r)
  BY <1>1, <1>3, <1>4 DEF Handle, Arrive, TooMany, BadRequest, Commit, TimeOut,
                          Disconnect, Reply, Finish
<1>6. CASE Select(r)
  BY <1>1, <1>6 DEF Select
<1>7. CASE Update(r)
  <2>1. ConsumeOnIssue /\ pc[r] = "valid" /\ ~MayWrite(r)
    BY <1>1, <1>7 DEF Update
  <2>2. stale[r] \/ wlock # None
    BY <2>1 DEF MayWrite
  <2>3. wlock # None => wlock \in Requests \ {r} /\ pc[wlock] = "updated"
    BY <2>1 DEF ExchangeInv, LockInv, TypeOK
  <2> QED
    BY <2>1, <2>2, <2>3 DEF Conflict
<1> QED
  BY <1>5, <1>6, <1>7

(* A token that passes is refused in time only by a conflict with another  *)
(* writer: never for the rate limit once admitted, a restart, a request    *)
(* that leaves or a transaction somebody left open.                        *)
THEOREM RefusedByConflict ==
  Spec => [][\A r \in Requests :
               /\ pc[r] \in {"validate", "valid"}
               /\ pc'[r] = "refused"
               /\ now < begun[r] + Deadline
               => ~Passes(db[token[r]], now) \/ Conflict(r)]_vars
<1>1. ExchangeInv /\ [Next]_vars =>
         [\A r \in Requests :
            /\ pc[r] \in {"validate", "valid"}
            /\ pc'[r] = "refused"
            /\ now < begun[r] + Deadline
            => ~Passes(db[token[r]], now) \/ Conflict(r)]_vars
  BY RefusalStep
<1> QED
  BY <1>1, ExchangeInvariant, PTL DEF Spec

(* Without --consume-on-issue an exchange writes nothing and conflicts with*)
(* nobody, and system-architecture.md:78 is right.                         *)
THEOREM GoodTokensPass ==
  ASSUME ~ConsumeOnIssue
  PROVE  Spec => OnlyBadTokensRefused
<1>1. ExchangeInv /\ [Next]_vars =>
         [\A r \in Requests :
            /\ pc[r] \in {"validate", "valid"}
            /\ pc'[r] = "refused"
            /\ now < begun[r] + Deadline
            => ~Passes(db[token[r]], now)]_vars
  BY RefusalStep DEF Conflict
<1> QED
  BY <1>1, ExchangeInvariant, PTL DEF Spec, OnlyBadTokensRefused

-----------------------------------------------------------------------------
(* The refinement.  A row that changes changes the abstract state of its   *)
(* token only.                                                             *)
AbsExpires(row) == IF AbsState(row) = "active" THEN row.expires ELSE 0

LEMMA RowMaps ==
  ASSUME TypeOK, NEW t \in Tokens, NEW row, db' = [db EXCEPT ![t] = row]
  PROVE  /\ [u \in Tokens |-> AbsState(db'[u])]
              = [[u \in Tokens |-> AbsState(db[u])] EXCEPT ![t] = AbsState(row)]
         /\ [u \in Tokens |-> AbsExpires(db'[u])]
              = [[u \in Tokens |-> AbsExpires(db[u])] EXCEPT ![t] = AbsExpires(row)]
  BY DEF TypeOK

(* A step that leaves the clock, the rows and the keys alone is invisible. *)
LEMMA Invisible ==
  ASSUME UNCHANGED <<now, db, redeemed>>
  PROVE  UNCHANGED Allowlist!vars
  BY DEF Allowlist!vars

(* The commit of a consuming exchange is the atomic redemption.            *)
LEMMA CommitRedeems ==
  ASSUME ConsumeOnIssue, ExchangeInv, NEW r \in Requests, Commit(r),
         NEW t \in Tokens, t = token[r]
  PROVE  Allowlist!Redeem(t)
<1>1. /\ pc[r] = "updated"
      /\ ~stale[r]
      /\ UNCHANGED now
      /\ db' = [db EXCEPT ![t] = Consumed(db[t])]
      /\ redeemed' = [redeemed EXCEPT ![t] = @ + 1]
      /\ now <= begun[r] + Deadline
  BY DEF Commit, InTime, ExchangeInv, TypeOK, LockInv
<1>2. /\ AbsState(db[t]) = "active"
      /\ db[t].present
      /\ begun[r] <= db[t].expires
  BY <1>1 DEF ExchangeInv, SnapshotInv, AbsState
<1>3. AbsState(Consumed(db[t])) = "spent"
  BY <1>1, <1>2 DEF AbsState, Consumed, ExchangeInv, TypeOK, Row
<1>4. AbsExpires(Consumed(db[t])) = 0
  BY <1>3 DEF AbsExpires
<1>5. now <= db[t].expires + Deadline
  <2>1. /\ begun[r] \in Nat /\ now \in Nat /\ Deadline \in Nat
        /\ db[t].expires \in Int
    BY <1>1, AuthAssumption DEF ExchangeInv, TypeOK, Row
  <2> QED
    BY <1>1, <1>2, <2>1
<1>6. /\ [u \in Tokens |-> AbsState(db'[u])]
              = [[u \in Tokens |-> AbsState(db[u])] EXCEPT ![t] = "spent"]
      /\ [u \in Tokens |-> AbsExpires(db'[u])]
              = [[u \in Tokens |-> AbsExpires(db[u])] EXCEPT ![t] = 0]
  <2>1. PICK row : row = Consumed(db[t])
    OBVIOUS
  <2>2. /\ db' = [db EXCEPT ![t] = row]
        /\ AbsState(row) = "spent" /\ AbsExpires(row) = 0
    BY <1>1, <1>3, <1>4, <2>1
  <2> QED
    BY <2>2, RowMaps DEF ExchangeInv
<1>7. /\ [u \in Tokens |-> AbsState(db[u])][t] = "active"
      /\ [u \in Tokens |-> AbsExpires(db[u])][t] = db[t].expires
  BY <1>1, <1>2 DEF AbsExpires
<1> QED
  BY <1>1, <1>5, <1>6, <1>7 DEF Allowlist!Redeem, AbsExpires

LEMMA InsertInvites ==
  ASSUME ExchangeInv, NEW t \in Tokens, Insert(t)
  PROVE  Allowlist!Invite(t)
<1>1. PICK ttl \in TTLs :
        Write(t, [present |-> TRUE, consumed |-> FALSE,
                  revoked |-> Never, expires |-> now + ttl])
  BY DEF Insert
<1> DEFINE row == [present |-> TRUE, consumed |-> FALSE,
                   revoked |-> Never, expires |-> now + ttl]
<1>2. AbsState(row) = "active" /\ AbsExpires(row) = now + ttl
  BY DEF AbsState, AbsExpires
<1>3. db' = [db EXCEPT ![t] = row] /\ UNCHANGED now
  BY <1>1 DEF Write
<1> HIDE DEF row
<1>4. redeemed' = [redeemed EXCEPT ![t] = 0]
  BY DEF Insert
<1> QED
  BY <1>2, <1>3, <1>4, RowMaps DEF Allowlist!Invite, ExchangeInv, AbsExpires

LEMMA RevokeWithdraws ==
  ASSUME ExchangeInv, NEW t \in Tokens, Revoke(t)
  PROVE  Allowlist!Withdraw(t)
<1>1. PICK row : /\ Write(t, row)
                 /\ AbsState(row) = "none"
  <2>1. AbsState(NoRow) = "none"
    BY DEF AbsState, NoRow
  <2>2. AbsState([db[t] EXCEPT !.revoked = now]) = "none"
    BY DEF AbsState, ExchangeInv, TypeOK, Row, Never
  <2> QED
    BY <2>1, <2>2 DEF Revoke
<1>2. AbsExpires(row) = 0
  BY <1>1 DEF AbsExpires
<1>3. db' = [db EXCEPT ![t] = row] /\ UNCHANGED <<now, redeemed>>
  BY <1>1 DEF Write, Revoke
<1> QED
  BY <1>1, <1>2, <1>3, RowMaps DEF Allowlist!Withdraw, ExchangeInv, AbsExpires

(* Every step of the exchange, of another writer or of the environment is  *)
(* a step of the atomic allowlist or invisible to it.                      *)
LEMMA StepRefines ==
  ASSUME ConsumeOnIssue, ~PowerFails, ExchangeInv, [Next]_vars
  PROVE  [Allowlist!Next]_Allowlist!vars
<1> USE DEF rows, handlers
<1>1. ASSUME NEW r \in Requests, Commit(r)
      PROVE  Allowlist!Next
  <2>1. PICK t \in Tokens : t = token[r]
    BY <1>1 DEF Commit, ExchangeInv, TypeOK
  <2>2. Allowlist!Redeem(t)
    BY <1>1, <2>1, CommitRedeems
  <2> QED
    BY <2>2 DEF Allowlist!Next
<1>2. ASSUME NEW r \in Requests, Handle(r), ~Commit(r)
      PROVE  UNCHANGED <<now, db, redeemed>>
  BY <1>2 DEF Handle, Arrive, TooMany, BadRequest, Select, Update, TimeOut,
              Disconnect, Reply, RollBack
<1>3. ASSUME NEW t \in Tokens, Insert(t) \/ Revoke(t)
      PROVE  Allowlist!Next
  BY <1>3, InsertInvites, RevokeWithdraws DEF Allowlist!Next
<1>4. CASE Tick
  BY <1>4 DEF Tick, Allowlist!Next, Allowlist!Tick
<1>5. CASE Checkpoint \/ Crash
  BY <1>5, Invisible DEF Checkpoint, Crash, Restart
<1>6. CASE UNCHANGED vars
  BY <1>6, Invisible DEF vars
<1>7. ~PowerLoss
  BY DEF PowerLoss
<1> QED
  BY <1>1, <1>2, <1>3, <1>4, <1>5, <1>6, <1>7, Invisible DEF Next

(* Consuming exchanges are linearizable: authd, tokenctl and the operator, *)
(* with all their interleavings and restarts, behave like an allowlist     *)
(* whose every operation is one indivisible step.                          *)
THEOREM Refinement ==
  ASSUME ConsumeOnIssue, ~PowerFails
  PROVE  Spec => ImplementsAllowlist
<1>1. Init => Allowlist!Init
  BY DEF Init, Allowlist!Init, AbsState, NoRow
<1>2. ExchangeInv /\ [Next]_vars => [Allowlist!Next]_Allowlist!vars
  BY StepRefines
<1> QED
  BY <1>1, <1>2, ExchangeInvariant, PTL
     DEF Spec, ImplementsAllowlist, Allowlist!Spec
=============================================================================
