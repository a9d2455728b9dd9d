------------------------- MODULE TokenRenewalProofs -------------------------
(***************************************************************************)
(* While the service works and the KeyStore is not closed, the token in    *)
(* use does not expire before its successor can replace it, for every life *)
(* of the tokens.                                                          *)
(***************************************************************************)
EXTENDS TokenRenewal, TLAPS

(* Which loop a goroutine is in, and what its variables hold.              *)
LoopInv ==
    /\ kind = "vault" => pc \in {"top", "pause", "reauth", "renewWait", "delayWait", "ended"}
    /\ kind # "vault" => pc \in {"wait", "renew", "ended"}
    /\ ttl \in {0, life}
    /\ faultless => svc = "ok" /\ sealed = FALSE

(* What is left of a token that was used after the delay, once the delay   *)
(* of its successor is over as well.                                       *)
Slack == life - RenewIn(life) - 2 * DelayFor(life)

(* How much of the token's life is left in each state: enough for the wait *)
(* under way and, before a renewal, for the delay that follows it.  A new  *)
(* token has aged by the delay when it is used.                            *)
LifeInv ==
    faultless /\ ~closed =>
        /\ left > 0 \/ Handover
        /\ pc # "ended"
        /\ pc = "top" => ttl = life /\ (life >= Delay => left >= life - DelayFor(life))
        /\ pc = "reauth" => life < Delay
        /\ pc = "pause" => armed /\ ttl = life /\ life < Delay /\ left > timer
        /\ pc = "renewWait" => /\ armed /\ life >= Delay /\ delay = DelayFor(life)
                               /\ left >= timer + DelayFor(life) + Slack
        /\ pc = "delayWait" => /\ armed /\ ttl = life /\ life >= Delay
                               /\ left >= timer + Slack /\ next >= life - DelayFor(life) + timer
        /\ pc = "wait" => armed /\ left > timer

IInv == TypeOK /\ LoopInv /\ LifeInv

(* What the times of the code amount to: after the time to renew a token   *)
(* two delays remain, and more unless it is tight.                         *)
LEMMA TimesFacts ==
    ASSUME NEW t \in TTLs
    PROVE  /\ t \in Nat /\ t > 1 /\ t > Pause
           /\ RenewIn(t) \in Nat /\ DelayFor(t) \in Nat
           /\ t - RenewIn(t) - 2 * DelayFor(t) >= 0
           /\ t - RenewIn(t) > 2 * Delay => t - RenewIn(t) - 2 * DelayFor(t) > 0
           /\ t - RenewIn(t) - DelayFor(t) > 0
           /\ t \div 2 \in Nat /\ t \div 2 < t
<1>1. t \in Nat /\ t > 1 /\ t > Pause
  BY TimesAssumption, TTLAssumption
<1>2. RenewIn(t) \in Nat /\ RenewIn(t) < t
  BY <1>1 DEF RenewIn
<1>3. /\ DelayFor(t) \in Nat /\ DelayFor(t) <= Delay
      /\ 2 * DelayFor(t) <= t - RenewIn(t)
  BY <1>1, <1>2, TimesAssumption DEF DelayFor
<1>4. t \div 2 \in Nat /\ t \div 2 < t
  BY <1>1
<1> QED  BY <1>1, <1>2, <1>3, <1>4, TimesAssumption

(* The invariant holds when the KeyStore has logged in.                    *)
LEMMA InitInv == Init => IInv
<1> SUFFICES ASSUME Init PROVE IInv
  OBVIOUS
<1>1. life \in TTLs /\ Delay \in Nat
  BY TimesAssumption DEF Init
<1>2. life \in Nat /\ life > 1 /\ life \div 2 \in Nat /\ life \div 2 < life
  BY <1>1, TimesFacts
<1>3. TypeOK
  BY <1>1, <1>2 DEF Init, TypeOK
<1>4. LoopInv
  BY <1>1, <1>2, KindsAssumption DEF Init, LoopInv
<1>5. LifeInv
  <2>1. life - DelayFor(life) <= life
    BY <1>1, <1>2, TimesFacts
  <2> QED
    BY <1>1, <1>2, <2>1 DEF Init, LifeInv
<1> QED  BY <1>3, <1>4, <1>5 DEF IInv

(* Every step preserves it.                                                *)
LEMMA NextInv == IInv /\ [Next]_vars => IInv'
<1> SUFFICES ASSUME IInv, [Next]_vars PROVE IInv'
  OBVIOUS
<1> USE DEF IInv
<1>0. /\ life \in TTLs /\ Delay \in Nat /\ Pause \in Nat \ {0} /\ Retry \in Nat \ {0}
      /\ life \in Nat /\ life > 1 /\ life > Pause
      /\ RenewIn(life) \in Nat /\ DelayFor(life) \in Nat
      /\ Slack \in Nat /\ DelayFor(life) + Slack > 0
      /\ life = RenewIn(life) + 2 * DelayFor(life) + Slack
      /\ kind = "vault" /\ life >= Delay /\ Slack = 0 => Tight
      /\ life \div 2 \in Nat /\ life \div 2 < life
  BY TimesAssumption, TimesFacts DEF TypeOK, Slack, Tight
<1>00. /\ UNCHANGED conf => Slack' = Slack /\ (Tight' <=> Tight) /\ DelayFor(life') = DelayFor(life)
       /\ UNCHANGED vars => UNCHANGED conf
  BY DEF conf, Slack, Tight, vars
<1>1. CASE Tick
  <2>1. TypeOK'
    BY <1>1 DEF Tick, Less, TypeOK, conf, service
  <2>2. LoopInv'
    BY <1>1 DEF Tick, LoopInv, conf, service
  <2>3. LifeInv'
    <3> SUFFICES ASSUME faultless, ~closed PROVE LifeInv'
      BY <1>1 DEF Tick, LifeInv, service
    <3>1. /\ Slack' = Slack /\ (Tight' <=> Tight) /\ DelayFor(life') = DelayFor(life) /\ life' = life
          /\ left > 0 /\ timer > 0 /\ armed /\ armed' = armed
          /\ timer' = timer - 1 /\ left' = left - 1 /\ next' = (IF next > 0 THEN next - 1 ELSE 0)
          /\ UNCHANGED <<pc, ttl, delay, kind>>
      BY <1>0, <1>00, <1>1 DEF Tick, Less, Fired, Handover, Waiting, TypeOK, LifeInv, LoopInv, conf
    <3>2. pc = "delayWait" => left' > 0 \/ Handover'
      BY <1>0, <3>1 DEF LifeInv, LoopInv, TypeOK, Handover, Fired
    <3>3. pc # "delayWait" => left' > 0
      BY <1>0, <1>1, <3>1 DEF LifeInv, TypeOK, Tick, Waiting
    <3>4. pc = "delayWait" => next' >= life' - DelayFor(life') + timer'
      BY <1>0, <3>1 DEF LifeInv, TypeOK
    <3> QED
      BY <1>0, <1>1, <3>1, <3>2, <3>3, <3>4 DEF LifeInv, TypeOK, Tick, Waiting
  <2> QED  BY <2>1, <2>2, <2>3
<1>2. CASE VaultTop
  <2>1. CASE sealed
    BY <1>0, <1>00, <1>2, <2>1 DEF VaultTop, Wait, TypeOK, LoopInv, LifeInv, Handover, conf, service, tokens
  <2>2. CASE ~sealed /\ ttl < Delay
    BY <1>0, <1>00, <1>2, <2>2 DEF VaultTop, TypeOK, LoopInv, LifeInv, Handover, conf, service, tokens
  <2>3. CASE ~sealed /\ ttl >= Delay
    <3>1. /\ timer' = RenewIn(ttl) /\ armed' = TRUE /\ pc' = "renewWait"
          /\ delay' = DelayFor(ttl) /\ ttl' = 0
          /\ UNCHANGED <<conf, service, sealed, closed, tokens>>
      BY <1>0, <1>2, <2>3 DEF VaultTop, Wait, TypeOK
    <3>2. RenewIn(ttl) \in Nat /\ DelayFor(ttl) \in Nat
      <4>1. CASE ttl = life
        BY <4>1, <1>0
      <4>2. CASE ttl = 0
        BY <4>2, <1>0 DEF RenewIn, DelayFor
      <4> QED  BY <4>1, <4>2 DEF LoopInv
    <3>3. TypeOK' /\ LoopInv'
      BY <1>0, <1>2, <3>1, <3>2 DEF VaultTop, TypeOK, LoopInv, conf, service, tokens
    <3>4. LifeInv'
      <4> SUFFICES ASSUME faultless, ~closed PROVE LifeInv'
        BY <3>1 DEF LifeInv, service
      <4>1. /\ Slack' = Slack /\ DelayFor(life') = DelayFor(life) /\ life' = life
            /\ pc = "top" /\ ttl = life /\ left >= life - DelayFor(life) /\ life >= Delay /\ left > 0
            /\ left' = left
        BY <1>00, <1>2, <2>3, <3>1 DEF VaultTop, LifeInv, Handover, conf, tokens
      <4> QED
        BY <1>0, <3>1, <4>1 DEF LifeInv, TypeOK
    <3> QED  BY <3>3, <3>4
  <2> QED  BY <1>0, <2>1, <2>2, <2>3 DEF TypeOK
<1>3. CASE VaultPaused
  BY <1>0, <1>3 DEF VaultPaused, Fired, TypeOK, LoopInv, LifeInv, conf, service, tokens
<1>4. CASE VaultReauth
  BY <1>0, <1>4 DEF VaultReauth, Succeeds, Wait, TypeOK, LoopInv, LifeInv, conf, service
<1>5. CASE VaultRenew
  <2>1. TypeOK' /\ LoopInv'
    BY <1>0, <1>5 DEF VaultRenew, Wait, TypeOK, LoopInv, conf, service, tokens
  <2>2. LifeInv'
    <3> SUFFICES ASSUME faultless, ~closed PROVE LifeInv'
      BY <1>5 DEF VaultRenew, LifeInv, service
    <3>1. /\ Slack' = Slack /\ DelayFor(life') = DelayFor(life) /\ life' = life
          /\ Succeeds /\ life >= Delay /\ delay = DelayFor(life) /\ left >= DelayFor(life) + Slack
      BY <1>0, <1>00, <1>5 DEF VaultRenew, Succeeds, Fired, LoopInv, LifeInv, TypeOK, conf
    <3>2. /\ ttl' = life /\ next' = life /\ left' \in {left, life} /\ timer' = delay
          /\ armed' = TRUE /\ pc' = "delayWait"
      BY <1>5, <3>1 DEF VaultRenew, Wait
    <3> QED
      BY <1>0, <3>1, <3>2 DEF LifeInv, TypeOK
  <2> QED  BY <2>1, <2>2
<1>6. CASE VaultSetToken
  BY <1>0, <1>00, <1>6 DEF VaultSetToken, Fired, Handover, TypeOK, LoopInv, LifeInv, conf, service
<1>7. CASE RenewalDue
  BY <1>0, <1>7 DEF RenewalDue, Fired, TypeOK, LoopInv, LifeInv, conf, service, tokens
<1>8. CASE GemaltoRenew
  <2> DEFINE half == life \div 2
  <2>1. half \in Nat /\ half < life
    BY <1>0
  <2>2. /\ kind = "gemalto" /\ pc = "renew" /\ pc' = "wait"
        /\ \/ left' = life /\ timer' = half /\ armed' = TRUE
           \/ ~Succeeds /\ UNCHANGED left /\ timer' = Retry /\ armed' = TRUE
        /\ UNCHANGED <<conf, service, sealed, closed, ttl, delay, next>>
    BY <1>8 DEF GemaltoRenew, Wait
  <2> HIDE DEF half
  <2>3. TypeOK' /\ LoopInv'
    BY <1>0, <2>1, <2>2 DEF TypeOK, LoopInv, conf, service
  <2>4. LifeInv'
    BY <1>0, <2>1, <2>2 DEF Succeeds, TypeOK, LoopInv, LifeInv, conf, service
  <2> QED  BY <2>3, <2>4
<1>9. CASE EntrustRenew
  <2> DEFINE half == life \div 2
  <2>1. half \in Nat /\ half < life
    BY <1>0
  <2>2. /\ kind = "entrust" /\ pc = "renew" /\ pc' = "wait"
        /\ \/ left' = life /\ timer' = half /\ armed' = TRUE
           \/ ~Succeeds /\ UNCHANGED left /\ UNCHANGED timer /\ armed' = FALSE
        /\ UNCHANGED <<conf, service, sealed, closed, ttl, delay, next>>
    BY <1>9 DEF EntrustRenew, Wait
  <2> HIDE DEF half
  <2>3. TypeOK' /\ LoopInv'
    BY <1>0, <2>1, <2>2 DEF TypeOK, LoopInv, conf, service
  <2>4. LifeInv'
    BY <1>0, <2>1, <2>2 DEF Succeeds, TypeOK, LoopInv, LifeInv, conf, service
  <2> QED  BY <2>3, <2>4
<1>10. CASE CheckStatus
  BY <1>00, <1>10 DEF CheckStatus, Handover, Fired, TypeOK, LoopInv, LifeInv, conf, service, tokens
<1>11. CASE Close
  BY <1>11 DEF Close, TypeOK, LoopInv, LifeInv, conf, service, tokens
<1>12. CASE End
  BY <1>12 DEF End, TypeOK, LoopInv, LifeInv, conf, service, tokens
<1>13. CASE ServiceChanges
  BY <1>13 DEF ServiceChanges, TypeOK, LoopInv, LifeInv, conf, tokens
<1>14. CASE UNCHANGED vars
  BY <1>00, <1>14 DEF vars, Handover, Fired, TypeOK, LoopInv, LifeInv, conf, service, tokens
<1> QED
  BY <1>1, <1>2, <1>3, <1>4, <1>5, <1>6, <1>7, <1>8, <1>9, <1>10, <1>11, <1>12, <1>13, <1>14
     DEF Next, Loop

(* The timers, waits and remaining lives of the three renewal loops stay   *)
(* natural numbers, for all lives and delays.                              *)
THEOREM TypeCorrect == Spec => []TypeOK
<1>1. IInv => TypeOK
  BY DEF IInv
<1> QED  BY <1>1, InitInv, NextInv, PTL DEF Spec

(* The loops of RenewToken, RenewAuthToken and refreshToken keep a valid   *)
(* token in use as long as no request fails; a tight one of Vault's lasts  *)
(* until the delay of its successor is over and not longer.                *)
THEOREM InTime == Spec => []NeverExpired
<1>1. IInv => NeverExpired
  BY DEF IInv, LifeInv, NeverExpired
<1> QED  BY <1>1, InitInv, NextInv, PTL DEF Spec
=============================================================================
