---------------------------- MODULE RateLimiter -----------------------------
(***************************************************************************)
(* RateLimiter of authd: one Allow call per token-exchange request, under  *)
(* a mutex, so each call is one step.  The history variables log and       *)
(* verdict record what callers were told; the limiter never reads them.    *)
(***************************************************************************)
EXTENDS LimiterEntry, Sequences

CONSTANTS IPs,       \* the keys: the host part of r.RemoteAddr
          MaxTime    \* bound: the clock stops here

ASSUME RateLimiterAssumption == MaxTime \in Nat

VARIABLES now,       \* time.Now()
          entries,   \* r.entries
          log,       \* history: the times at which a key was granted
          verdict    \* history: the last answer Allow gave a key

vars == <<now, entries, log, verdict>>

TypeOK ==
    /\ now \in 0..MaxTime
    /\ entries \in [IPs -> Entry]
    /\ log \in [IPs -> Seq(0..MaxTime)]
    /\ verdict \in [IPs -> {"none", "granted", "denied"}]

Init ==
    /\ now = 0
    /\ entries = [ip \in IPs |-> NoEntry]
    /\ log = [ip \in IPs |-> <<>>]
    /\ verdict = [ip \in IPs |-> "none"]

(* Mutant: the count is checked but never charged.                         *)
GrantUncharged(ip) ==
    /\ Admits(entries[ip], now)
    /\ entries' = [entries EXCEPT ![ip] =
                     IF WindowOver(@, now) THEN Charge(@, now) ELSE @]
    /\ log' = [log EXCEPT ![ip] = Append(@, now)]
    /\ verdict' = [verdict EXCEPT ![ip] = "granted"]
    /\ UNCHANGED now

(* Allow returning true. *)
Grant(ip) ==
    /\ Admits(entries[ip], now)
    /\ entries' = [entries EXCEPT ![ip] = Charge(@, now)]
    /\ log' = [log EXCEPT ![ip] = Append(@, now)]
    /\ verdict' = [verdict EXCEPT ![ip] = "granted"]
    /\ UNCHANGED now

(* Mutant: the denial also stands once the window is over.                 *)
DenyForever(ip) ==
    /\ entries[ip].count >= Rps
    /\ verdict' = [verdict EXCEPT ![ip] = "denied"]
    /\ UNCHANGED <<now, entries, log>>

(* Allow returning false: the map is left alone. *)
Deny(ip) ==
    /\ ~Admits(entries[ip], now)
    /\ verdict' = [verdict EXCEPT ![ip] = "denied"]
    /\ UNCHANGED <<now, entries, log>>

Tick ==
    /\ now < MaxTime
    /\ now' = now + 1
    /\ UNCHANGED <<entries, log, verdict>>

Next == Tick \/ \E ip \in IPs : Grant(ip) \/ Deny(ip)

Spec == Init /\ [][Next]_vars

-----------------------------------------------------------------------------
(* Two adjacent windows are as much as one second can touch: any 2*Rps + 1 *)
(* consecutive grants to a key take more than a second.  This is the cap   *)
(* the fixed window really enforces on token-exchange attempts.            *)
BurstBound ==
    \A ip \in IPs : \A i \in 1..Len(log[ip]) :
        i + 2 * Rps <= Len(log[ip]) =>
            log[ip][i + 2 * Rps] - log[ip][i] > Second

(* A caller is denied only when it has had Rps grants within the last      *)
(* second: the limiter never locks out a client that keeps to the rate.    *)
DeniedOnlyAtTheRate ==
    [][\A ip \in IPs :
         verdict[ip] # "denied" /\ verdict'[ip] = "denied" =>
            /\ Len(log[ip]) >= Rps
            /\ now - log[ip][Len(log[ip]) - Rps + 1] <= Second]_vars
=============================================================================
