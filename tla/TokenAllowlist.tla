--------------------------- MODULE TokenAllowlist ---------------------------
(***************************************************************************)
(* What the invite-token allowlist promises when authd consumes tokens:    *)
(* every operation on a token is one indivisible step, and an invitation   *)
(* is redeemed at most once, while it stands and (up to the grace a slow   *)
(* request gets) before it expires.                                        *)
(***************************************************************************)
EXTENDS Integers

CONSTANTS Tokens,    \* invite tokens (the program stores their HMACs)
          TTLs,      \* the lifetimes an invitation can be given
          Grace      \* how long a request may take

VARIABLES now,       \* the clock
          state,     \* state[t]: none (never invited, or withdrawn), active, spent
          expires,   \* expires[t]: the last second of an active invitation
          redeemed   \* redeemed[t]: session keys issued for the latest invitation

vars == <<now, state, expires, redeemed>>

Init ==
    /\ now = 0
    /\ state = [t \in Tokens |-> "none"]
    /\ expires = [t \in Tokens |-> 0]
    /\ redeemed = [t \in Tokens |-> 0]

Invite(t) ==
    /\ state' = [state EXCEPT ![t] = "active"]
    /\ \E ttl \in TTLs : expires' = [expires EXCEPT ![t] = now + ttl]
    /\ redeemed' = [redeemed EXCEPT ![t] = 0]
    /\ UNCHANGED now

Withdraw(t) ==
    /\ state' = [state EXCEPT ![t] = "none"]
    /\ expires' = [expires EXCEPT ![t] = 0]
    /\ UNCHANGED <<now, redeemed>>

Redeem(t) ==
    /\ state[t] = "active"
    /\ now <= expires[t] + Grace
    /\ state' = [state EXCEPT ![t] = "spent"]
    /\ expires' = [expires EXCEPT ![t] = 0]
    /\ redeemed' = [redeemed EXCEPT ![t] = @ + 1]
    /\ UNCHANGED now

Tick ==
    /\ now' = now + 1
    /\ UNCHANGED <<state, expires, redeemed>>

Next == Tick \/ \E t \in Tokens : Invite(t) \/ Withdraw(t) \/ Redeem(t)

Spec == Init /\ [][Next]_vars
=============================================================================
