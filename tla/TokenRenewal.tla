---------------------------- MODULE TokenRenewal ----------------------------
(***************************************************************************)
(* The background goroutines that keep a KeyStore logged in:               *)
(* vault/client.go (CheckStatus, RenewToken), gemalto/client.go            *)
(* (RenewAuthToken) and entrust/keycontrol.go (refreshToken).              *)
(*                                                                         *)
(* Time passes in ticks while the goroutine waits; requests take less than *)
(* a tick.  What is measured in time is the number of ticks left: of the   *)
(* token's life, and until the timer fires.  The service is external: it   *)
(* may be down or sealed for any time, and then requests fail.             *)
(***************************************************************************)
EXTENDS Integers

CONSTANTS
    Kinds,        \* the KeyStores considered
    TTLs,         \* how long tokens may live
    Delay,        \* Vault: wait before a new token is used (30s)
    Pause,        \* Vault: wait before the next attempt (3s), or while sealed (1s)
    Retry         \* Gemalto: login.Retry (5s)

(* 80 * (ttl / 100), and min((ttl-renewIn)/2, Delay)                       *)
RenewIn(t) == (80 * t) \div 100

(* Mutant of DelayFor: it lasts until the token has expired.               *)
DelayForWhole(t) == t - RenewIn(t)

(* Mutant of DelayFor: the operands are swapped.                           *)
DelayForSwapped(t) == LET d == (RenewIn(t) - t) \div 2 IN IF d < Delay THEN d ELSE Delay

DelayFor(t) == LET d == (t - RenewIn(t)) \div 2 IN IF d < Delay THEN d ELSE Delay

ASSUME KindsAssumption == Kinds \subseteq {"vault", "gemalto", "entrust"}
ASSUME TimesAssumption ==
    TTLs \subseteq Nat /\ Delay \in Nat /\ Pause \in Nat \ {0} /\ Retry \in Nat \ {0}
(* A token lives longer than a Pause.                                      *)
ASSUME TTLAssumption == \A t \in TTLs : t > 1 /\ t > Pause

VARIABLES
    kind,        \* the KeyStore
    life,        \* the life of its tokens
    renewable,   \* Vault: tokens can be renewed
    svc,         \* the service: "ok", "down" or "sealed"
    faultless,   \* history: the service has always been ok
    sealed,      \* client.sealed
    closed,      \* the context is done
    pc,          \* where the goroutine is
    ttl,         \* the variable ttl of RenewToken
    delay,       \* the variable delay of RenewToken
    timer,       \* until the timer fires
    armed,       \* whether it will
    left,        \* the life left of the token in use
    next         \* the life left of the token to be used next

conf == <<kind, life, renewable>>
service == <<svc, faultless>>
tokens == <<left, next>>
vars == <<conf, service, sealed, closed, pc, ttl, delay, timer, armed, tokens>>

Waiting == pc \in {"pause", "renewWait", "delayWait", "wait"}
Fired == armed /\ timer = 0

TypeOK ==
    /\ kind \in Kinds /\ life \in TTLs
    /\ renewable \in BOOLEAN /\ faultless \in BOOLEAN /\ sealed \in BOOLEAN
    /\ closed \in BOOLEAN /\ armed \in BOOLEAN
    /\ svc \in {"ok", "down", "sealed"}
    /\ pc \in {"top", "pause", "reauth", "renewWait", "renew", "delayWait", "wait", "ended"}
    /\ ttl \in Nat /\ delay \in Nat /\ timer \in Nat /\ left \in Nat /\ next \in Nat

(* The KeyStore has just logged in and started the goroutine.              *)
Init ==
    /\ kind \in Kinds
    /\ life \in TTLs
    /\ renewable \in (IF kind = "vault" THEN BOOLEAN ELSE {FALSE})
    /\ svc = "ok" /\ faultless = TRUE
    /\ sealed = FALSE
    /\ closed = FALSE
    /\ pc = IF kind = "vault" THEN "top" ELSE "wait"
    /\ ttl = life
    /\ delay = 0
    /\ timer = IF kind = "vault" THEN 0 ELSE life \div 2
    /\ armed = TRUE
    /\ left = life
    /\ next = 0

-----------------------------------------------------------------------------
Less(n) == IF n > 0 THEN n - 1 ELSE 0

(* Time passes while the goroutine waits.                                  *)
Tick ==
    /\ Waiting
    /\ ~Fired
    /\ timer' = Less(timer)
    /\ left' = Less(left)
    /\ next' = Less(next)
    /\ UNCHANGED <<conf, service, sealed, closed, pc, ttl, delay, armed>>

ServiceChanges ==
    /\ svc' \in {"ok", "down"} \cup (IF kind = "vault" THEN {"sealed"} ELSE {})
    /\ svc' # svc
    /\ faultless' = FALSE
    /\ UNCHANGED <<conf, sealed, closed, pc, ttl, delay, timer, armed, tokens>>

(* Requests have the goroutine's context.                                  *)
Succeeds == svc = "ok" /\ ~closed

Wait(ticks, where) ==
    /\ timer' = ticks
    /\ armed' = TRUE
    /\ pc' = where

-----------------------------------------------------------------------------
(* CheckStatus: every so often the health of Vault, if it answers.         *)
CheckStatus ==
    /\ kind = "vault"
    /\ svc # "down" /\ ~closed
    /\ sealed' = (svc = "sealed")
    /\ UNCHANGED <<conf, service, closed, pc, ttl, delay, timer, armed, tokens>>

(***************************************************************************)
(* RenewToken.  The loop's head: wait while Vault is sealed, log in again  *)
(* at once if the token is about to expire or there is none, or wait until *)
(* it is time to renew it.                                                 *)
(***************************************************************************)
VaultTop ==
    /\ kind = "vault" /\ pc = "top"
    /\ \/ /\ sealed
          /\ Wait(1, "pause")
          /\ UNCHANGED <<ttl, delay>>
       \/ /\ ~sealed
          /\ ttl < Delay
          /\ pc' = "reauth"
          /\ UNCHANGED <<ttl, delay, timer, armed>>
       \/ /\ ~sealed
          /\ ttl >= Delay
          /\ Wait(RenewIn(ttl), "renewWait")
          /\ delay' = DelayFor(ttl)
          /\ ttl' = 0
    /\ UNCHANGED <<conf, service, sealed, closed, tokens>>

VaultPaused ==
    /\ pc = "pause" /\ Fired
    /\ pc' = "top"
    /\ UNCHANGED <<conf, service, sealed, closed, ttl, delay, timer, armed, tokens>>

VaultReauth ==
    /\ pc = "reauth"
    /\ IF Succeeds THEN ttl' = life /\ left' = life ELSE UNCHANGED <<ttl, left>>
    /\ Wait(Pause, "pause")
    /\ UNCHANGED <<conf, service, sealed, closed, delay, next>>

(* RenewSelf prolongs the token in use if that is still valid.  If all the *)
(* attempts fail, or the token is not renewable, authenticate fetches a    *)
(* new one, to be used after a delay.                                      *)
VaultRenew ==
    /\ pc = "renewWait" /\ Fired
    /\ IF Succeeds
       THEN /\ ttl' = life
            /\ next' = life
            /\ left' \in {left} \cup (IF renewable /\ left > 0 THEN {life} ELSE {})
            /\ Wait(delay, "delayWait")
       ELSE /\ pc' = "top"
            /\ UNCHANGED <<ttl, tokens, timer, armed>>
    /\ UNCHANGED <<conf, service, sealed, closed, delay>>

VaultSetToken ==
    /\ pc = "delayWait" /\ Fired
    /\ left' = next
    /\ next' = 0
    /\ pc' = "top"
    /\ UNCHANGED <<conf, service, sealed, closed, ttl, delay, timer, armed>>

-----------------------------------------------------------------------------
(* Mutant of GemaltoRenew: no attempt follows one that failed.             *)
GemaltoRenewOnce ==
    /\ kind = "gemalto" /\ pc = "renew"
    /\ IF Succeeds THEN left' = life /\ Wait(life \div 2, "wait")
                   ELSE armed' = FALSE /\ pc' = "wait" /\ UNCHANGED <<left, timer>>
    /\ UNCHANGED <<conf, service, sealed, closed, ttl, delay, next>>

(* RenewAuthToken and refreshToken wait for half of the token's life.      *)
RenewalDue ==
    /\ pc = "wait" /\ Fired
    /\ pc' = "renew"
    /\ UNCHANGED <<conf, service, sealed, closed, ttl, delay, timer, armed, tokens>>

GemaltoRenew ==
    /\ kind = "gemalto" /\ pc = "renew"
    /\ IF Succeeds THEN left' = life /\ Wait(life \div 2, "wait")
                   ELSE Wait(Retry, "wait") /\ UNCHANGED left
    /\ UNCHANGED <<conf, service, sealed, closed, ttl, delay, next>>

(* renewToken, and login if that fails.  The timer is reset on success.    *)
EntrustRenew ==
    /\ kind = "entrust" /\ pc = "renew"
    /\ IF Succeeds THEN left' = life /\ Wait(life \div 2, "wait")
                   ELSE armed' = FALSE /\ pc' = "wait" /\ UNCHANGED <<left, timer>>
    /\ UNCHANGED <<conf, service, sealed, closed, ttl, delay, next>>

-----------------------------------------------------------------------------
(* Close cancels the context, and every select watches it.                 *)
Close ==
    /\ ~closed
    /\ closed' = TRUE
    /\ UNCHANGED <<conf, service, sealed, pc, ttl, delay, timer, armed, tokens>>

End ==
    /\ closed /\ Waiting
    /\ pc' = "ended"
    /\ UNCHANGED <<conf, service, sealed, closed, ttl, delay, timer, armed, tokens>>

Loop ==
    \/ VaultTop \/ VaultPaused \/ VaultReauth \/ VaultRenew \/ VaultSetToken
    \/ RenewalDue \/ GemaltoRenew \/ EntrustRenew

Next == Tick \/ Loop \/ CheckStatus \/ Close \/ End \/ ServiceChanges

Spec == Init /\ [][Next]_vars

(* Time passes, the goroutines run, the ticker of CheckStatus ticks, and a *)
(* select between a timer and a canceled context takes the latter at some  *)
(* time.  The service need not recover, and nobody has to call Close.      *)
Fairness ==
    /\ WF_vars(Tick)
    /\ WF_vars(Loop)
    /\ WF_vars(CheckStatus)
    /\ SF_vars(End)

FairSpec == Spec /\ Fairness

-----------------------------------------------------------------------------
(* Vault's tokens of 30 seconds to 5 minutes are short of time: they are   *)
(* not replaced at once, and what is left of them after the time to renew  *)
(* is at most two Delays.  Half of it is spent before a token is used, and *)
(* the other half after its successor was fetched.                         *)
Tight ==
    kind = "vault" /\ life >= Delay /\ life - RenewIn(life) <= 2 * Delay

(* The delay of a tight token is over and its successor not in use yet.    *)
Handover == Tight /\ pc = "delayWait" /\ Fired

(* As long as the service works, the token in use does not expire before   *)
(* its successor can replace it, for all lives: "Delay usage of renewed    *)
(* token but not beyond expiry" and "we must not wait longer than the      *)
(* remaining lifetime of the currently used token" (vault/client.go).      *)
(* This is true to the tick and no better: a tight token, from the second  *)
(* on, expires with the end of the delay, although it should outlive it,   *)
(* and the time the requests took comes on top.                            *)
NeverExpired == faultless /\ ~closed => left > 0 \/ Handover

(* Vault and Gemalto log in again however long the service was down or     *)
(* sealed, and whatever was tried meanwhile: once it stays up the token is *)
(* valid for good, but for the handover of tight ones.  After Close the    *)
(* goroutines end.                                                         *)
Settles ==
    /\ kind # "entrust" /\ <>[](svc = "ok") => <>[](left > 0 \/ Handover \/ closed)
    /\ closed ~> pc = "ended"

(* "refreshToken starts to periodically renew the KeyControl               *)
(* authentication token until ctx.Done() returns" (keycontrol.go).         *)
RenewsUntilDone == pc = "wait" ~> pc = "renew" \/ closed
=============================================================================
