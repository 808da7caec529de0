-------------------------- MODULE TokenRotationProofs --------------------------
(***************************************************************************)
(* Proofs about TokenRotation: TokensOK is inductive, a burned family      *)
(* stays dead, and a phone that hears every answer keeps its session.      *)
(***************************************************************************)
EXTENDS TokenRotation, TLAPS

LEMMA TokensInit == Init => TokensOK
  BY TokenAssumption DEF Init, TokensOK, TokensTyped, OnlyIssuedAreUsed, IssuedHaveFamily,
    RotationsLock, OneLivePerFamily, Labels, Presenting, Live


LEMMA TokensStep == TokensOK /\ [Next]_vars => TokensOK'
<1> SUFFICES ASSUME TokensOK, [Next]_vars
             PROVE  TokensOK'
  OBVIOUS
<1>0. Nil \notin Token /\ Nil \notin Family /\ Nil \notin Call
  BY TokenAssumption
<1> USE <1>0
<1> USE DEF TokensOK, TokensTyped, OnlyIssuedAreUsed, IssuedHaveFamily, RotationsLock,
            OneLivePerFamily, Labels, Presenting, Live
<1>1. CASE UNCHANGED vars
  BY <1>1 DEF vars, tokenVars, callVars, phoneVars
<1>2. ASSUME NEW c \in Call, PhoneSignsIn(c)
      PROVE  TokensOK'
  BY <1>2 DEF PhoneSignsIn, Sends, Goto, tokenVars, phoneVars
<1>3. ASSUME NEW c \in Call, PhoneRefreshes(c)
      PROVE  TokensOK'
  BY <1>3 DEF PhoneRefreshes, Sends, Goto, tokenVars
<1>4. ASSUME NEW c \in Call, PhoneSignsOut(c)
      PROVE  TokensOK'
  BY <1>4 DEF PhoneSignsOut, Sends, Goto, tokenVars
<1>5. ASSUME NEW c \in Call, NEW t \in Token, NEW f \in Family, IssueTokenPair(c, t, f)
      PROVE  TokensOK'
  <2> DEFINE kept == [u \in Token |-> IF Expired(u) THEN "gone" ELSE status[u]]
  <2>1. /\ status[t] = "unissued" /\ \A u \in Token : family[u] # f
        /\ status' = [kept EXCEPT ![t] = "live"]
        /\ family' = [family EXCEPT ![t] = f]
        /\ result' = [result EXCEPT ![c] = t]
        /\ pc[c] = "signInSent" /\ pc' = [pc EXCEPT ![c] = "answered"]
        /\ UNCHANGED <<arg, held, stored, late>>
    BY <1>5 DEF IssueTokenPair, IsNext, Unissued, Goto, phoneVars
  <2>2. \A u \in Token : /\ kept[u] \in {status[u], "gone"}
                         /\ kept[u] = "unissued" <=> status[u] = "unissued"
    BY DEF Expired
  <2>3. \A u \in Token \ {t} : status'[u] = kept[u] /\ family'[u] = family[u]
    BY <2>1
  <2>4. status'[t] = "live" /\ family'[t] = f
    BY <2>1
  <2>5. TokensTyped'
    BY <2>1, <2>2
  <2>6. OnlyIssuedAreUsed'
    BY <2>1, <2>2, <2>3, <2>4
  <2>7. IssuedHaveFamily'
    BY <2>2, <2>3, <2>4
  <2>8. OneLivePerFamily'
    BY <2>1, <2>2, <2>3, <2>4
  <2>9. RotationsLock'
    <3>1. ASSUME NEW d \in Call, pc'[d] = "rotate"
          PROVE  held'[d] = arg'[d] /\ Live(arg[d])'
      <4>1. d # c /\ pc[d] = "rotate"
        BY <2>1, <3>1
      <4>2. held[d] = arg[d] /\ arg[d] \in Token /\ status[arg[d]] = "live"
        BY <4>1
      <4>3. ~ Expired(arg[d])
        BY <1>5, <4>1, <4>2 DEF IssueTokenPair, LockedByOther
      <4>4. arg[d] # t /\ kept[arg[d]] = "live"
        BY <2>1, <4>2, <4>3
      <4>5. QED
        BY <2>1, <2>3, <4>2, <4>4
    <3>2. QED
      BY <2>1, <3>1
  <2>10. QED
    BY <2>5, <2>6, <2>7, <2>8, <2>9
<1>6. ASSUME NEW c \in Call, SelectForUpdate(c)
      PROVE  TokensOK'
  BY <1>6 DEF SelectForUpdate, LockedByOther, Goto, tokenVars, phoneVars
<1>7. ASSUME NEW c \in Call, NEW n \in Token, Rotate(c, n)
      PROVE  TokensOK'
  <2> DEFINE t == arg[c]
  <2>1. /\ t \in Token /\ status[t] = "live" /\ held[c] = t /\ status[n] = "unissued"
        /\ n # t
        /\ status' = [status EXCEPT ![t] = "revoked", ![n] = "live"]
        /\ family' = [family EXCEPT ![n] = family[t]]
        /\ result' = [result EXCEPT ![c] = n]
        /\ held' = [held EXCEPT ![c] = Nil]
        /\ pc[c] = "rotate" /\ pc' = [pc EXCEPT ![c] = "answered"]
        /\ UNCHANGED <<arg, stored, late>>
    BY <1>7 DEF Rotate, IsNext, Unissued, Goto, phoneVars
  <2>2. \A u \in Token \ {t, n} : status'[u] = status[u] /\ family'[u] = family[u]
    BY <2>1
  <2>3. /\ status'[t] = "revoked" /\ status'[n] = "live"
        /\ family'[t] = family[t] /\ family'[n] = family[t] /\ family[t] \in Family
    BY <2>1
  <2>4. TokensTyped'
    BY <2>1
  <2>5. OnlyIssuedAreUsed'
    BY <2>1, <2>2, <2>3
  <2>6. IssuedHaveFamily'
    BY <2>2, <2>3
  <2>7. OneLivePerFamily'
    BY <2>1, <2>2, <2>3
  <2>8. RotationsLock'
    BY <2>1, <2>2, <2>3
  <2>9. QED
    BY <2>4, <2>5, <2>6, <2>7, <2>8
<1>8. ASSUME NEW c \in Call, RevokeFamily(c)
      PROVE  TokensOK'
  <2> DEFINE seen == {t \in Token : family[t] = family[arg[c]] /\ Live(t)}
  <2>1. CASE \E t \in seen : LockedByOther(c, t)
    BY <1>8, <2>1 DEF RevokeFamily, Goto, phoneVars
  <2>2. CASE \A t \in seen : ~ LockedByOther(c, t)
    <3>1. /\ status' = [t \in Token |-> IF t \in seen THEN "revoked" ELSE status[t]]
          /\ held' = [held EXCEPT ![c] = Nil]
          /\ pc[c] = "reuse" /\ pc' = [pc EXCEPT ![c] = "rejected"]
          /\ UNCHANGED <<family, arg, result, stored, late>>
      BY <1>8, <2>2 DEF RevokeFamily, Goto, phoneVars
    <3>2. \A t \in Token : /\ status'[t] = "unissued" <=> status[t] = "unissued"
                           /\ status'[t] = "live" => status[t] = "live"
      <4> TAKE t \in Token
      <4>1. status'[t] = IF t \in seen THEN "revoked" ELSE status[t]
        BY <3>1
      <4>2. t \in seen => status[t] = "live"
        OBVIOUS
      <4> HIDE DEF seen
      <4>3. QED
        BY <4>1, <4>2
    <3>3. \A d \in Call : pc'[d] = "rotate" => d # c /\ arg[d] \notin seen
      BY <2>2, <3>1 DEF LockedByOther
    <3>4. TokensTyped'
      BY <3>1
    <3>5. RotationsLock'
      BY <3>1, <3>3
    <3>6. OnlyIssuedAreUsed' /\ IssuedHaveFamily' /\ OneLivePerFamily'
      BY <3>1, <3>2
    <3>7. QED
      BY <3>4, <3>5, <3>6
  <2>3. QED
    BY <2>1, <2>2
<1>9. ASSUME NEW c \in Call, RevokeWoken(c)
      PROVE  TokensOK'
  <2>1. /\ \A t \in targets[c] : ~ LockedByOther(c, t)
        /\ status' = [t \in Token |-> IF t \in targets[c] /\ Live(t) THEN "revoked"
                                      ELSE status[t]]
        /\ held' = [held EXCEPT ![c] = Nil]
        /\ pc[c] = "reuseWaits" /\ pc' = [pc EXCEPT ![c] = "rejected"]
        /\ UNCHANGED <<family, arg, result, stored, late>>
    BY <1>9 DEF RevokeWoken, Goto, phoneVars
  <2>2. \A t \in Token : /\ status'[t] = "unissued" <=> status[t] = "unissued"
                         /\ status'[t] = "live" => status[t] = "live"
    <3> TAKE t \in Token
    <3>1. status'[t] = IF t \in targets[c] /\ Live(t) THEN "revoked" ELSE status[t]
      BY <2>1
    <3>2. QED
      BY ONLY <3>1 DEF Live
  <2>3. \A d \in Call : pc'[d] = "rotate" => d # c /\ arg[d] \notin targets[c]
    BY <2>1 DEF LockedByOther
  <2>4. TokensTyped'
    BY <2>1
  <2>5. RotationsLock'
    BY <2>1, <2>3
  <2>6. OnlyIssuedAreUsed' /\ IssuedHaveFamily' /\ OneLivePerFamily'
    BY <2>1, <2>2
  <2>7. QED
    BY <2>4, <2>5, <2>6
<1>10. ASSUME NEW c \in Call, LogoutSelect(c)
       PROVE  TokensOK'
  BY <1>10 DEF LogoutSelect, Goto, tokenVars, phoneVars
<1>11. ASSUME NEW c \in Call, LogoutRevoke(c)
       PROVE  TokensOK'
  BY <1>11 DEF LogoutRevoke, LockedByOther, Goto, phoneVars
<1>12. ASSUME NEW c \in Call, Answer(c)
       PROVE  TokensOK'
  BY <1>12 DEF Answer, Finishes, Goto, tokenVars
<1>13. ASSUME NEW c \in Call, Rejected(c)
       PROVE  TokensOK'
  BY <1>13 DEF Rejected, Finishes, Goto, tokenVars
<1>14. ASSUME NEW c \in Call, Lose(c)
       PROVE  TokensOK'
  BY <1>14 DEF Lose, Finishes, Goto, tokenVars
<1>a. ASSUME NEW c \in Call, Unheard(c)
       PROVE  TokensOK'
  BY <1>a DEF Unheard, Finishes, Goto, tokenVars
<1>15. ASSUME NEW t \in Token, Ages(t)
       PROVE  TokensOK'
  BY <1>15 DEF Ages, callVars, phoneVars
<1>16. CASE TimePasses
  BY <1>16 DEF TimePasses, tokenVars, callVars, phoneVars
<1>17. QED
  BY <1>1, <1>2, <1>3, <1>4, <1>5, <1>6, <1>7, <1>8, <1>9, <1>10, <1>11, <1>12, <1>13,
     <1>14, <1>15, <1>16, <1>a DEF Next

(* However many sign-ins, refreshes, reuses and logouts run at the same time,
   and wherever the server or the network cuts them off, a rotation holds the
   live row it replaces and a family never has two live refresh tokens. *)
THEOREM TokensSafe == Spec => []TokensOK
  BY TokensInit, TokensStep, PTL DEF Spec

-------------------------------------------------------------------------------
(* A burned family exists, and an UPDATE that waits has been overtaken. *)
BurnedInv ==
  /\ BurnedStaysDead
  /\ \A f \in burned : f # Nil /\ \E t \in Token : family[t] = f
  /\ \A c \in Call : pc[c] = "reuseWaits" => family[arg[c]] \in escaped

LEMMA BurnedStep == TokensOK /\ BurnedInv /\ [Next]_vars => BurnedInv'
<1> SUFFICES ASSUME TokensOK, BurnedInv, [Next]_vars
             PROVE  BurnedInv'
  OBVIOUS
<1>0. Nil \notin Token /\ Nil \notin Family /\ Nil \notin Call
  BY TokenAssumption
<1> USE <1>0
<1> USE DEF TokensOK, TokensTyped, OnlyIssuedAreUsed, IssuedHaveFamily, Presenting, Labels,
            BurnedInv, BurnedStaysDead, Live
<1>1. ASSUME UNCHANGED <<status, family, burned, escaped, arg>>,
             \A c \in Call : pc'[c] = "reuseWaits" => pc[c] = "reuseWaits"
      PROVE  BurnedInv'
  BY <1>1
<1>2. CASE UNCHANGED vars
  BY <1>2 DEF vars, tokenVars, callVars, phoneVars
<1>3. ASSUME NEW c \in Call,
             PhoneSignsIn(c) \/ PhoneRefreshes(c) \/ PhoneSignsOut(c)
      PROVE  BurnedInv'
  <2>1. CASE PhoneSignsIn(c)
    BY <1>1, <2>1 DEF PhoneSignsIn, Sends, Goto, tokenVars, phoneVars
  <2>2. CASE PhoneRefreshes(c)
    BY <2>2 DEF PhoneRefreshes, Sends, Goto, tokenVars
  <2>3. CASE PhoneSignsOut(c)
    BY <2>3 DEF PhoneSignsOut, Sends, Goto, tokenVars
  <2>4. QED
    BY <1>3, <2>1, <2>2, <2>3
<1>4. ASSUME NEW c \in Call, NEW t \in Token, NEW f \in Family, IssueTokenPair(c, t, f)
      PROVE  BurnedInv'
  <2>1. /\ status[t] = "unissued" /\ \A u \in Token : family[u] # f
        /\ \A u \in Token \ {t} : status'[u] \in {status[u], "gone"} /\ family'[u] = family[u]
        /\ status'[t] = "live" /\ family'[t] = f
        /\ pc' = [pc EXCEPT ![c] = "answered"]
        /\ UNCHANGED <<arg, burned, escaped>>
    BY <1>4 DEF IssueTokenPair, IsNext, Unissued, Expired, Goto
  <2>2. f \notin burned
    BY <2>1
  <2>3. \A d \in Call : pc'[d] = "reuseWaits" =>
         pc[d] = "reuseWaits" /\ arg[d] \in Token \ {t} /\ family[arg[d]] \in escaped
    BY <2>1
  <2>4. \A u \in Token \ {t} : family'[u] = family[u]
    BY <2>1
  <2>5. BurnedStaysDead'
    BY <2>1, <2>2
  <2>6. \A g \in burned' : g # Nil /\ \E u \in Token : family'[u] = g
    <3> TAKE g \in burned'
    <3>1. PICK u \in Token : family[u] = g /\ g # Nil
      BY <2>1
    <3>2. u # t
      BY <2>1, <3>1
    <3>3. QED
      BY <2>4, <3>1, <3>2
  <2>7. QED
    BY <2>1, <2>3, <2>4, <2>5, <2>6
<1>5. ASSUME NEW c \in Call, SelectForUpdate(c)
      PROVE  BurnedInv'
  BY <1>1, <1>5 DEF SelectForUpdate, Goto, tokenVars, phoneVars
<1>6. ASSUME NEW c \in Call, NEW n \in Token, Rotate(c, n)
      PROVE  BurnedInv'
  <2> DEFINE t == arg[c]
  <2>1. /\ t \in Token /\ status[t] = "live" /\ status[n] = "unissued"
        /\ \A u \in Token \ {t, n} : status'[u] = status[u] /\ family'[u] = family[u]
        /\ status'[t] = "revoked" /\ family'[t] = family[t] /\ family'[n] = family[t]
        /\ pc' = [pc EXCEPT ![c] = "answered"]
        /\ UNCHANGED <<arg, burned, escaped>>
    BY <1>6 DEF Rotate, IsNext, Unissued, Goto, RotationsLock
  <2>3. \A d \in Call : pc'[d] = "reuseWaits" =>
         pc[d] = "reuseWaits" /\ arg[d] \in Token \ {n} /\ family[arg[d]] \in escaped
    BY <2>1
  <2>4. \A u \in Token \ {n} : family'[u] = family[u]
    BY <2>1
  <2>5. BurnedStaysDead'
    BY <2>1
  <2>6. \A g \in burned' : g # Nil /\ \E u \in Token : family'[u] = g
    <3> TAKE g \in burned'
    <3>1. PICK u \in Token : family[u] = g /\ g # Nil
      BY <2>1
    <3>2. u # n
      BY <2>1, <3>1
    <3>3. QED
      BY <2>4, <3>1, <3>2
  <2>7. QED
    BY <2>1, <2>3, <2>4, <2>5, <2>6
<1>7. ASSUME NEW c \in Call, RevokeFamily(c)
      PROVE  BurnedInv'
  <2> DEFINE f == family[arg[c]]
             seen == {t \in Token : family[t] = f /\ Live(t)}
  <2>1. CASE \E t \in seen : LockedByOther(c, t)
    BY <1>7, <2>1 DEF RevokeFamily, Goto, phoneVars
  <2>2. CASE \A t \in seen : ~ LockedByOther(c, t)
    <3>1. /\ status' = [t \in Token |-> IF t \in seen THEN "revoked" ELSE status[t]]
          /\ burned' = burned \cup {f} /\ arg[c] \in Token
          /\ pc' = [pc EXCEPT ![c] = "rejected"]
          /\ UNCHANGED <<family, arg, escaped>>
      BY <1>7, <2>2 DEF RevokeFamily, Goto
    <3>2. \A t \in Token : status'[t] = "live" => status[t] = "live" /\ family[t] # f
      BY <3>1
    <3>3. QED
      BY <3>1, <3>2
  <2>3. QED
    BY <2>1, <2>2
<1>8. ASSUME NEW c \in Call, RevokeWoken(c)
      PROVE  BurnedInv'
  <2>1. /\ status' = [t \in Token |-> IF t \in targets[c] /\ Live(t) THEN "revoked"
                                      ELSE status[t]]
        /\ burned' = burned \cup {family[arg[c]]} /\ arg[c] \in Token
        /\ family[arg[c]] \in escaped
        /\ pc' = [pc EXCEPT ![c] = "rejected"]
        /\ UNCHANGED <<family, arg, escaped>>
    BY <1>8 DEF RevokeWoken, Goto
  <2>2. \A t \in Token : status'[t] = "live" => status[t] = "live"
    BY <2>1
  <2>3. QED
    BY <2>1, <2>2
<1>9. ASSUME NEW c \in Call, LogoutSelect(c)
      PROVE  BurnedInv'
  BY <1>1, <1>9 DEF LogoutSelect, Goto, tokenVars, phoneVars
<1>10. ASSUME NEW c \in Call, LogoutRevoke(c)
       PROVE  BurnedInv'
  BY <1>10 DEF LogoutRevoke, Goto, phoneVars
<1>11. ASSUME NEW c \in Call, Answer(c)
       PROVE  BurnedInv'
  BY <1>11 DEF Answer, Finishes, Goto, tokenVars
<1>12. ASSUME NEW c \in Call, Rejected(c)
       PROVE  BurnedInv'
  BY <1>12 DEF Rejected, Finishes, Goto, tokenVars
<1>13. ASSUME NEW c \in Call, Lose(c)
       PROVE  BurnedInv'
  BY <1>13 DEF Lose, Finishes, Goto, tokenVars
<1>a. ASSUME NEW c \in Call, Unheard(c)
      PROVE  BurnedInv'
  BY <1>a DEF Unheard, Finishes, Goto, tokenVars
<1>14. ASSUME NEW t \in Token, Ages(t)
       PROVE  BurnedInv'
  BY <1>1, <1>14 DEF Ages, callVars, phoneVars
<1>15. CASE TimePasses
  BY <1>1, <1>15 DEF TimePasses, tokenVars, callVars, phoneVars
<1>16. QED
  BY <1>2, <1>3, <1>4, <1>5, <1>6, <1>7, <1>8, <1>9, <1>10, <1>11, <1>12, <1>13, <1>14,
     <1>15, <1>a DEF Next

(* Once a replaced token has come back and its family is revoked, no token of
   the family is live again, unless a rotation overtook the revocation. *)
THEOREM BurnedFamiliesStayDead == Spec => []BurnedStaysDead
<1>1. Init => BurnedInv
  BY DEF Init, BurnedInv, BurnedStaysDead
<1>2. BurnedInv => BurnedStaysDead
  BY DEF BurnedInv
<1>3. QED
  BY <1>1, <1>2, TokensSafe, BurnedStep, PTL DEF Spec
-------------------------------------------------------------------------------
(* Every call of the phone that the limiter lets pass was checked: the limits
   that RateLimitProofs shows hold here. *)
THEOREM CallsAreLimited == Spec => RateSpec
<1>1. Init => RateInit
  BY DEF Init
<1>2. [Next]_vars => [RateNext]_rateVars
  <2> SUFFICES ASSUME [Next]_vars
               PROVE  RateNext \/ UNCHANGED rateVars
    OBVIOUS
  <2>1. ASSUME NEW c \in Call, PhoneSignsIn(c) \/ PhoneRefreshes(c) \/ PhoneSignsOut(c)
        PROVE  RateNext
    BY <2>1, TokenAssumption DEF PhoneSignsIn, PhoneRefreshes, PhoneSignsOut, Sends, RateNext
  <2>2. CASE TimePasses
    BY <2>2 DEF TimePasses, RateNext
  <2>3. CASE UNCHANGED vars
    BY <2>3 DEF vars
  <2>4. QED
    BY <2>1, <2>2, <2>3 DEF Next, IssueTokenPair, SelectForUpdate, Rotate, RevokeFamily, RevokeWoken,
      LogoutSelect, LogoutRevoke, Answer, Rejected, Lose, Unheard, Ages
<1>3. QED
  BY <1>1, <1>2, PTL DEF Spec, RateSpec

-------------------------------------------------------------------------------
(* The phone and its session, as long as nothing was lost. *)

LEMMA PhoneStep == TokensOK /\ PhoneInv /\ [Next]_vars => PhoneInv'
<1> SUFFICES ASSUME TokensOK, PhoneInv, [Next]_vars
             PROVE  PhoneInv'
  OBVIOUS
<1>0. Nil \notin Token /\ Nil \notin Family /\ Nil \notin Call
  BY TokenAssumption
<1>t. TokensTyped /\ OnlyIssuedAreUsed /\ IssuedHaveFamily /\ RotationsLock
  BY DEF TokensOK
<1>p. /\ age \in [Token -> 0..2] /\ lost \in Nat
      /\ lost = 0 => /\ CallsAreOrdered /\ NewTokensAreNew /\ RefreshesPresentStored
                     /\ StoredIsKept
  BY DEF PhoneInv
<1> USE <1>0, <1>t, <1>p
<1> USE DEF TokensTyped, OnlyIssuedAreUsed, IssuedHaveFamily, Presenting, Labels,
            CallsAreOrdered, NewTokensAreNew, RefreshesPresentStored, StoredIsKept,
            Refreshing, SigningOut, SignsIn, Usable, Live
<1>1. CASE UNCHANGED vars
  BY <1>1 DEF vars, tokenVars, callVars, phoneVars, PhoneInv
<1>2. ASSUME NEW c \in Call, PhoneSignsIn(c)
      PROVE  PhoneInv'
  BY <1>2 DEF PhoneSignsIn, Sends, IsNext, Goto, tokenVars, phoneVars, PhoneInv
<1>3. ASSUME NEW c \in Call, PhoneRefreshes(c)
      PROVE  PhoneInv'
  BY <1>3 DEF PhoneRefreshes, Sends, IsNext, Goto, tokenVars, PhoneInv
<1>4. ASSUME NEW c \in Call, PhoneSignsOut(c)
      PROVE  PhoneInv'
  BY <1>4 DEF PhoneSignsOut, Sends, IsNext, Goto, tokenVars, PhoneInv
<1>5. ASSUME NEW c \in Call, NEW t \in Token, NEW f \in Family, IssueTokenPair(c, t, f)
      PROVE  PhoneInv'
  BY <1>5 DEF IssueTokenPair, IsNext, Unissued, Expired, Goto, phoneVars, PhoneInv
<1>6. ASSUME NEW c \in Call, SelectForUpdate(c)
      PROVE  PhoneInv'
  BY <1>6 DEF SelectForUpdate, Goto, tokenVars, phoneVars, PhoneInv
<1>7. ASSUME NEW c \in Call, NEW n \in Token, Rotate(c, n)
      PROVE  PhoneInv'
  BY <1>7 DEF Rotate, IsNext, Unissued, Goto, phoneVars, RotationsLock, PhoneInv
<1>8. ASSUME NEW c \in Call, RevokeFamily(c)
      PROVE  PhoneInv'
  BY <1>8 DEF RevokeFamily, LockedByOther, Goto, phoneVars, PhoneInv
<1>9. ASSUME NEW c \in Call, RevokeWoken(c)
      PROVE  PhoneInv'
  BY <1>9 DEF RevokeWoken, Goto, phoneVars, PhoneInv
<1>10. ASSUME NEW c \in Call, LogoutSelect(c)
       PROVE  PhoneInv'
  BY <1>10 DEF LogoutSelect, Goto, tokenVars, phoneVars, PhoneInv
<1>11. ASSUME NEW c \in Call, LogoutRevoke(c)
       PROVE  PhoneInv'
  BY <1>11 DEF LogoutRevoke, Goto, phoneVars, PhoneInv
<1>12. ASSUME NEW c \in Call, Answer(c)
       PROVE  PhoneInv'
  <2>0. /\ pc[c] = "answered" /\ c \notin late
        /\ pc' = [pc EXCEPT ![c] = "done"] /\ arg' = [arg EXCEPT ![c] = Nil]
        /\ result' = [result EXCEPT ![c] = Nil]
        /\ flight' = IF flight = c THEN Nil ELSE flight
        /\ UNCHANGED <<status, family, age, held, lost, late>>
    BY <1>12 DEF Answer, Finishes, Goto, tokenVars
  <2>1. CASE lost # 0
    BY <2>0, <2>1 DEF PhoneInv
  <2>2. CASE lost = 0 /\ arg[c] = Nil
    <3>1. stored' = result[c] /\ result[c] # Nil /\ flight # c /\ flight' = flight
      BY <1>12, <2>0, <2>2 DEF Answer
    <3>2. CallsAreOrdered'
      BY <2>0, <2>2, <3>1
    <3>3. NewTokensAreNew'
      BY <2>0, <2>2, <3>1
    <3>4. RefreshesPresentStored' /\ StoredIsKept'
      BY <2>0, <2>2, <3>1
    <3>5. QED
      BY <2>0, <3>2, <3>3, <3>4 DEF PhoneInv
  <2>3. CASE lost = 0 /\ arg[c] # Nil /\ flight # c
    <3>1. stored' = Nil /\ flight' = flight
      BY <1>12, <2>0, <2>3 DEF Answer, SignsOut
    <3>2. CallsAreOrdered' /\ RefreshesPresentStored' /\ StoredIsKept'
      BY <2>0, <2>3, <3>1
    <3>3. NewTokensAreNew'
      BY <2>0, <2>3, <3>1
    <3>4. QED
      BY <2>0, <3>2, <3>3 DEF PhoneInv
  <2>4. CASE lost = 0 /\ arg[c] # Nil /\ flight = c
    <3>1. /\ stored' = IF stored = Nil THEN Nil ELSE result[c]
          /\ result[c] # Nil /\ flight' = Nil
      BY <1>12, <2>0, <2>4 DEF Answer, SignsOut
    <3>2. CallsAreOrdered'
      BY <2>0, <2>4, <3>1
    <3>3. RefreshesPresentStored' /\ StoredIsKept'
      BY <2>0, <2>4, <3>1
    <3>4. NewTokensAreNew'
      BY <2>0, <2>4, <3>1
    <3>5. QED
      BY <2>0, <3>2, <3>3, <3>4 DEF PhoneInv
  <2>5. QED
    BY <2>1, <2>2, <2>3, <2>4
<1>13. ASSUME NEW c \in Call, Rejected(c)
       PROVE  PhoneInv'
  <2>0. /\ pc[c] = "rejected" /\ c \notin late
        /\ flight' = IF flight = c THEN Nil ELSE flight
        /\ UNCHANGED <<status, family, age, held, stored, lost, late>>
    BY <1>13 DEF Rejected, tokenVars
  <2>1. CASE lost # 0
    BY <2>0, <2>1 DEF PhoneInv
  <2>2. CASE lost = 0 /\ stored = Nil
    BY <1>13, <2>0, <2>2 DEF Rejected, Finishes, Goto, PhoneInv
  <2>3. CASE lost = 0 /\ stored # Nil
    <3>1. /\ pc' = [pc EXCEPT ![c] = "signOutSent"] /\ arg' = [arg EXCEPT ![c] = stored]
          /\ result' = result /\ result[c] = Nil /\ flight = c /\ flight' = Nil
      BY <1>13, <2>0, <2>3 DEF Rejected, Goto
    <3>2. CallsAreOrdered'
      BY <2>0, <2>3, <3>1
    <3>3. RefreshesPresentStored' /\ StoredIsKept'
      BY <2>0, <2>3, <3>1
    <3>4. NewTokensAreNew'
      BY <2>0, <2>3, <3>1
    <3>5. QED
      BY <2>0, <3>2, <3>3, <3>4 DEF PhoneInv
  <2>4. QED
    BY <2>1, <2>2, <2>3
<1>14. ASSUME NEW c \in Call, Lose(c)
       PROVE  PhoneInv'
  BY <1>14 DEF Lose, tokenVars, PhoneInv
<1>15. ASSUME NEW c \in Call, Unheard(c)
       PROVE  PhoneInv'
  BY <1>15 DEF Unheard, Finishes, tokenVars, PhoneInv
<1>16. ASSUME NEW t \in Token, Ages(t)
       PROVE  PhoneInv'
  BY <1>16 DEF Ages, callVars, phoneVars, PhoneInv
<1>17. CASE TimePasses
  BY <1>17 DEF TimePasses, tokenVars, callVars, phoneVars, PhoneInv
<1>18. QED
  BY <1>1, <1>2, <1>3, <1>4, <1>5, <1>6, <1>7, <1>8, <1>9, <1>10, <1>11, <1>12, <1>13,
     <1>14, <1>15, <1>16, <1>17 DEF Next

(* As long as no request and no answer is lost, refreshes, sign-ins and
   sign-outs in any number and order leave the phone with a refresh token that
   is live until it ages, or whose successor is on its way. *)
THEOREM SessionIsKept == Spec => []PhoneKeepsItsSession
<1>1. Init => PhoneInv
  BY TokenAssumption DEF Init, PhoneInv, CallsAreOrdered, NewTokensAreNew,
    RefreshesPresentStored, StoredIsKept, Refreshing, SigningOut
<1>2. TokensOK /\ PhoneInv => PhoneKeepsItsSession
  BY TokenAssumption DEF TokensOK, TokensTyped, PhoneInv, CallsAreOrdered, StoredIsKept, SigningOut,
    Usable, PhoneKeepsItsSession
<1>3. QED
  BY <1>1, <1>2, TokensSafe, PhoneStep, PTL DEF Spec
===============================================================================
