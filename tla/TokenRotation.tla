----------------------------- MODULE TokenRotation -----------------------------
(***************************************************************************)
(* The refresh tokens of the backend (auth_service.py and its repository)  *)
(* and the phone that uses them (auth_repository_impl.dart and the         *)
(* interceptor's single refresh in flight).                                *)
(*                                                                         *)
(* A call is rate limited, runs as a transaction at READ COMMITTED and is  *)
(* answered; requests and answers may be lost.  refresh selects the token  *)
(* FOR UPDATE, logout does not.                                            *)
(***************************************************************************)
EXTENDS RateLimit, FiniteSets

CONSTANTS
  Token, Family, Call, \* numbers, taken in turn
  Client,  \* the key of the phone's address
  MaxLost, \* bound of the lost messages
  Nil

ASSUME TokenAssumption ==
  /\ Token \subseteq Nat /\ Family \subseteq Nat /\ Call \subseteq Nat
  /\ Nil \notin Token /\ Nil \notin Family /\ Nil \notin Call
  /\ Client \in Key /\ MaxLost \in Nat
  /\ {"login_ip", "register_ip", "refresh_ip"} \subseteq Bucket

VARIABLES
  status,  \* refresh_tokens: unissued, live, revoked (revoked_at) or gone
  family,  \* family_id
  age,     \* 0: valid, 1: expires_at has passed, 2: for longer than the retention
  pc,      \* where a call is
  arg,     \* the refresh token it presents
  held,    \* the row it holds FOR UPDATE
  targets, \* the rows that a revocation of a family waits for
  result,  \* the token it is answered
  stored,  \* the refresh token the phone stores
  flight,  \* _refreshInFlight
  lost,    \* requests and answers lost so far
  late,    \* calls that the phone has given up and the server goes on with
  burned,  \* history: families revoked because of a reuse
  escaped  \* history: ... while a rotation of them was under way
tokenVars == <<status, family, age>>
callVars == <<pc, arg, held, targets, result>>
phoneVars == <<stored, flight, lost, late>>
vars == <<tokenVars, callVars, phoneVars, burned, escaped, rateVars>>

Init ==
  /\ status = [t \in Token |-> "unissued"]
  /\ family = [t \in Token |-> Nil]
  /\ age = [t \in Token |-> 0]
  /\ pc = [c \in Call |-> "idle"]
  /\ arg = [c \in Call |-> Nil]
  /\ held = [c \in Call |-> Nil]
  /\ targets = [c \in Call |-> {}]
  /\ result = [c \in Call |-> Nil]
  /\ stored = Nil /\ flight = Nil /\ lost = 0 /\ late = {}
  /\ burned = {} /\ escaped = {}
  /\ RateInit

Goto(c, l) == pc' = [pc EXCEPT ![c] = l]
Live(t) == status[t] = "live"
Unissued(t) == status[t] = "unissued"
IsNext(x, free) == x \in free /\ \A y \in free : x <= y
LockedByOther(c, t) == \E d \in Call \ {c} : held[d] = t

-------------------------------------------------------------------------------
(* The phone sends; limit_login, limit_register and limit_refresh let the call
   pass or answer 429, which the phone takes for a passing failure. *)

Sends(c, b, l) ==
  /\ IsNext(c, {d \in Call : pc[d] = "idle"})
  /\ Check(b, Client)
  /\ Goto(c, IF Admits(b, Client) THEN l ELSE "done")

PhoneSignsIn(c) ==
  /\ stored = Nil
  /\ \A d \in Call \ late : pc[d] # "signInSent"
  /\ \E b \in {"login_ip", "register_ip"} : Sends(c, b, "signInSent")
  /\ UNCHANGED <<tokenVars, arg, held, targets, result, phoneVars, burned, escaped>>

(* Mutant: requests that are refused at the same time each refresh. *)
PhoneRefreshesTwice(c) ==
  /\ stored # Nil
  /\ Sends(c, "refresh_ip", "refreshSent")
  /\ IF pc'[c] = "done" THEN UNCHANGED <<flight, arg>>
                         ELSE flight' = c /\ arg' = [arg EXCEPT ![c] = stored]
  /\ UNCHANGED <<tokenVars, held, targets, result, stored, lost, late, burned, escaped>>

(* _refreshOnce, behind the guard. *)
PhoneRefreshes(c) ==
  /\ stored # Nil
  /\ flight = Nil
  /\ Sends(c, "refresh_ip", "refreshSent")
  /\ IF pc'[c] = "done" THEN UNCHANGED <<flight, arg>>
                         ELSE flight' = c /\ arg' = [arg EXCEPT ![c] = stored]
  /\ UNCHANGED <<tokenVars, held, targets, result, stored, lost, late, burned, escaped>>

(* The tokens are cleared when the call has ended, whatever it answered. *)
PhoneSignsOut(c) ==
  /\ stored # Nil
  /\ Sends(c, "refresh_ip", "signOutSent")
  /\ IF pc'[c] = "done" THEN stored' = Nil /\ UNCHANGED arg
                         ELSE arg' = [arg EXCEPT ![c] = stored] /\ UNCHANGED stored
  /\ UNCHANGED <<tokenVars, held, targets, result, flight, lost, late, burned, escaped>>

-------------------------------------------------------------------------------
(* The server. *)

Expired(t) == status[t] \in {"live", "revoked"} /\ age[t] = 2

(* login or register: _issue_token_pair opens a family, after delete_expired,
   which waits for the rows that are locked. *)
IssueTokenPair(c, t, f) ==
  LET kept == [u \in Token |-> IF Expired(u) THEN "gone" ELSE status[u]]
  IN /\ pc[c] = "signInSent"
     /\ \A u \in Token : Expired(u) => ~ LockedByOther(c, u)
     /\ IsNext(t, {u \in Token : Unissued(u)})
     /\ IsNext(f, {g \in Family : \A u \in Token : family[u] # g})
     /\ status' = [kept EXCEPT ![t] = "live"]
     /\ family' = [family EXCEPT ![t] = f]
     /\ result' = [result EXCEPT ![c] = t]
     /\ Goto(c, "answered")
     /\ UNCHANGED <<age, arg, held, targets, phoneVars, burned, escaped, rateVars>>

(* Mutant: the token is read without a lock. *)
SelectUnlocked(c) ==
  LET t == arg[c]
  IN /\ pc[c] = "refreshSent"
     /\ held' = [held EXCEPT ![c] = t]
     /\ Goto(c, IF status[t] = "live" /\ age[t] = 0 THEN "rotate" ELSE "rejected")
     /\ UNCHANGED <<tokenVars, arg, targets, result, phoneVars, burned, escaped, rateVars>>

(* refresh: SELECT ... FOR UPDATE waits for the row, and the checks. *)
SelectForUpdate(c) ==
  LET t == arg[c]
  IN /\ pc[c] = "refreshSent"
     /\ ~ LockedByOther(c, t)
     /\ \/ /\ status[t] = "gone" \/ (Live(t) /\ age[t] > 0)
           /\ Goto(c, "rejected")
           /\ UNCHANGED held
        \/ /\ status[t] = "revoked" \/ (Live(t) /\ age[t] = 0)
           /\ Goto(c, IF Live(t) THEN "rotate" ELSE "reuse")
           /\ held' = [held EXCEPT ![c] = t]
     /\ UNCHANGED <<tokenVars, arg, targets, result, phoneVars, burned, escaped, rateVars>>

(* The successor is inserted and the token revoked in one transaction. *)
Rotate(c, n) ==
  LET t == arg[c]
  IN /\ pc[c] = "rotate"
     /\ IsNext(n, {u \in Token : Unissued(u)})
     /\ status' = [status EXCEPT ![t] = "revoked", ![n] = "live"]
     /\ family' = [family EXCEPT ![n] = family[t]]
     /\ result' = [result EXCEPT ![c] = n]
     /\ held' = [held EXCEPT ![c] = Nil]
     /\ Goto(c, "answered")
     /\ UNCHANGED <<age, arg, targets, phoneVars, burned, escaped, rateVars>>

(* Mutant: only the presented token is refused. *)
ReuseRefused(c) ==
  /\ pc[c] = "reuse"
  /\ burned' = burned \cup {family[arg[c]]}
  /\ held' = [held EXCEPT ![c] = Nil]
  /\ Goto(c, "rejected")
  /\ UNCHANGED <<tokenVars, arg, targets, result, phoneVars, escaped, rateVars>>

(* revoke_family: an UPDATE of the live rows that it sees, after a wait for
   those that a rotation holds; it does not see what that rotation inserts. *)
RevokeFamily(c) ==
  LET f == family[arg[c]]
      seen == {t \in Token : family[t] = f /\ Live(t)}
  IN /\ pc[c] = "reuse"
     /\ IF \E t \in seen : LockedByOther(c, t)
        THEN /\ targets' = [targets EXCEPT ![c] = seen]
             /\ Goto(c, "reuseWaits")
             /\ escaped' = escaped \cup {f}
             /\ UNCHANGED <<status, held, burned>>
        ELSE /\ status' = [t \in Token |-> IF t \in seen THEN "revoked" ELSE status[t]]
             /\ burned' = burned \cup {f}
             /\ held' = [held EXCEPT ![c] = Nil]
             /\ Goto(c, "rejected")
             /\ UNCHANGED <<targets, escaped>>
     /\ UNCHANGED <<family, age, arg, result, phoneVars, rateVars>>

RevokeWoken(c) ==
  /\ pc[c] = "reuseWaits"
  /\ \A t \in targets[c] : ~ LockedByOther(c, t)
  /\ status' = [t \in Token |-> IF t \in targets[c] /\ Live(t) THEN "revoked" ELSE status[t]]
  /\ burned' = burned \cup {family[arg[c]]}
  /\ held' = [held EXCEPT ![c] = Nil]
  /\ targets' = [targets EXCEPT ![c] = {}]
  /\ Goto(c, "rejected")
  /\ UNCHANGED <<family, age, arg, result, phoneVars, escaped, rateVars>>

(* logout: a plain read, then an UPDATE that waits for the row. *)
LogoutSelect(c) ==
  /\ pc[c] = "signOutSent"
  /\ Goto(c, IF Live(arg[c]) THEN "revoke" ELSE "answered")
  /\ UNCHANGED <<tokenVars, arg, held, targets, result, phoneVars, burned, escaped, rateVars>>

LogoutRevoke(c) ==
  LET t == arg[c]
  IN /\ pc[c] = "revoke"
     /\ ~ LockedByOther(c, t)
     /\ status' = IF status[t] = "gone" THEN status ELSE [status EXCEPT ![t] = "revoked"]
     /\ Goto(c, "answered")
     /\ UNCHANGED <<family, age, arg, held, targets, result, phoneVars, burned, escaped, rateVars>>

(* expires_at, or the retention of a rotated token, passes, in a family in
   the order in which its tokens were issued. *)
Ages(t) ==
  /\ status[t] \in {"live", "revoked"} /\ age[t] < 2
  /\ \A u \in Token : u < t /\ family[u] = family[t] => age[u] > age[t]
  /\ age' = [age EXCEPT ![t] = @ + 1]
  /\ UNCHANGED <<status, family, callVars, phoneVars, burned, escaped, rateVars>>

TimePasses ==
  /\ Tick
  /\ UNCHANGED <<tokenVars, callVars, phoneVars, burned, escaped>>

-------------------------------------------------------------------------------
(* The phone gets its answer, or none. *)

SignsIn(c) == arg[c] = Nil
SignsOut(c) == arg[c] # Nil /\ flight # c

Finishes(c) ==
  /\ Goto(c, "done")
  /\ arg' = [arg EXCEPT ![c] = Nil]
  /\ result' = [result EXCEPT ![c] = Nil]

Answer(c) ==
  /\ pc[c] = "answered" /\ c \notin late
  /\ stored' = IF SignsIn(c) THEN result[c]
               ELSE IF SignsOut(c) THEN Nil
               ELSE IF stored = Nil THEN Nil ELSE result[c]
  /\ flight' = IF flight = c THEN Nil ELSE flight
  /\ Finishes(c)
  /\ UNCHANGED <<tokenVars, held, targets, lost, late, burned, escaped, rateVars>>

(* A 401 to a refresh: AuthFailure, and the phone signs out of what it has
   stored. *)
Rejected(c) ==
  /\ pc[c] = "rejected" /\ c \notin late
  /\ flight' = IF flight = c THEN Nil ELSE flight
  /\ IF stored = Nil
     THEN Finishes(c)
     ELSE /\ Goto(c, "signOutSent")
          /\ arg' = [arg EXCEPT ![c] = stored]
          /\ UNCHANGED result
  /\ UNCHANGED <<tokenVars, held, targets, stored, lost, late, burned, escaped, rateVars>>

(* The phone gives a call up, for a time-out or an error of the connection:
   the request or its answer is lost, the server has died in the transaction,
   or it goes on with it and is not heard. *)
Lose(c) ==
  /\ lost < MaxLost
  /\ pc[c] \notin {"idle", "done"} /\ c \notin late
  /\ lost' = lost + 1
  /\ stored' = IF SignsOut(c) THEN Nil ELSE stored
  /\ flight' = IF flight = c THEN Nil ELSE flight
  /\ \/ /\ held' = [held EXCEPT ![c] = Nil]
        /\ targets' = [targets EXCEPT ![c] = {}]
        /\ Finishes(c)
        /\ UNCHANGED late
     \/ /\ late' = late \cup {c}
        /\ UNCHANGED <<pc, arg, held, targets, result>>
  /\ UNCHANGED <<tokenVars, burned, escaped, rateVars>>

Unheard(c) ==
  /\ c \in late
  /\ pc[c] \in {"answered", "rejected"}
  /\ Finishes(c)
  /\ late' = late \ {c}
  /\ UNCHANGED <<tokenVars, held, targets, stored, flight, lost, burned, escaped, rateVars>>

Next ==
  \/ \E c \in Call :
       \/ PhoneSignsIn(c) \/ PhoneRefreshes(c) \/ PhoneSignsOut(c)
       \/ \E t \in Token, f \in Family : IssueTokenPair(c, t, f)
       \/ SelectForUpdate(c)
       \/ \E n \in Token : Rotate(c, n)
       \/ RevokeFamily(c) \/ RevokeWoken(c)
       \/ LogoutSelect(c) \/ LogoutRevoke(c)
       \/ Answer(c) \/ Rejected(c) \/ Lose(c) \/ Unheard(c)
  \/ \E t \in Token : Ages(t)
  \/ TimePasses

Spec == Init /\ [][Next]_vars

-------------------------------------------------------------------------------
(* Properties. *)

Labels == {"idle", "signInSent", "refreshSent", "signOutSent", "rotate", "reuse",
           "reuseWaits", "revoke", "answered", "rejected", "done"}

TokensTyped ==
  /\ status \in [Token -> {"unissued", "live", "revoked", "gone"}]
  /\ family \in [Token -> Family \cup {Nil}]
  /\ pc \in [Call -> Labels]
  /\ arg \in [Call -> Token \cup {Nil}]
  /\ held \in [Call -> Token \cup {Nil}]
  /\ result \in [Call -> Token \cup {Nil}]
  /\ stored \in Token \cup {Nil}
  /\ late \subseteq Call

Presenting == {"refreshSent", "rotate", "reuse", "reuseWaits", "signOutSent", "revoke"}

(* Whatever is stored, sent or answered is a token that was issued. *)
OnlyIssuedAreUsed ==
  /\ stored # Nil => status[stored] # "unissued"
  /\ \A c \in Call : /\ arg[c] # Nil => status[arg[c]] # "unissued"
                     /\ result[c] # Nil => status[result[c]] # "unissued"
                     /\ pc[c] \in Presenting => arg[c] # Nil

IssuedHaveFamily == \A t \in Token : status[t] = "unissued" <=> family[t] = Nil

(* A rotation holds the live row that it replaces, and nobody else does. *)
RotationsLock ==
  /\ \A c \in Call : pc[c] = "rotate" => held[c] = arg[c] /\ Live(arg[c])
  /\ \A c, d \in Call : held[c] = held[d] /\ held[c] # Nil => c = d

(* A family has one live token at most, whatever rotations, reuses, logouts
   and sign-ins run at the same time and whichever of them are cut off. *)
OneLivePerFamily ==
  \A t, u \in Token : Live(t) /\ Live(u) /\ family[t] = family[u] => t = u

(* The inductive invariant. *)
TokensOK ==
  TokensTyped /\ OnlyIssuedAreUsed /\ IssuedHaveFamily /\ RotationsLock /\ OneLivePerFamily

(* A family that was revoked because a replaced token came back has no live
   token, then and ever after, unless a rotation of the family was under way
   when the reuse was found: what it inserts is not seen by the UPDATE. *)
BurnedStaysDead ==
  \A t \in Token : family[t] \in burned \ escaped => ~ Live(t)

(* As long as no request and no answer was lost, the refresh token the phone
   stores is the live one of its family or its replacement is on the way, so
   that the phone never makes the server revoke its family. *)
PhoneKeepsItsSession ==
  /\ stored # Nil
  /\ lost = 0 /\ age[stored] = 0
  /\ \A c \in Call : pc[c] \notin {"idle", "done"} /\ arg[c] # Nil => flight = c
  => \/ Live(stored)
     \/ flight # Nil /\ arg[flight] = stored /\ pc[flight] = "answered"

(* The invariant behind it, as long as nothing was lost. *)

Refreshing == {"refreshSent", "rotate", "reuse", "rejected", "answered"}

SigningOut(c) == arg[c] # Nil /\ flight # c

(* What a call is doing follows from what it presents: one refresh at a time,
   and only a refresh holds a row. *)
CallsAreOrdered ==
  /\ late = {}
  /\ flight # Nil => flight \in Call /\ arg[flight] # Nil /\ pc[flight] \in Refreshing
  /\ \A c \in Call :
       /\ pc[c] # "reuseWaits"
       /\ held[c] # Nil => pc[c] \in {"rotate", "reuse"}
       /\ pc[c] \in Refreshing \ {"answered"} => c = flight
       /\ pc[c] \in {"idle", "done", "signInSent"} => arg[c] = Nil
       /\ SigningOut(c) => pc[c] \in {"signOutSent", "revoke", "answered"} /\ result[c] = Nil
       /\ pc[c] # "answered" => result[c] = Nil
       /\ pc[c] = "answered" /\ ~ SigningOut(c) => result[c] # Nil

(* Live until it ages. *)
Usable(t) == Live(t) \/ age[t] > 0

(* A token on its way to the phone is new: nothing that is stored, presented or
   on its way can touch it. *)
NewTokensAreNew ==
  \A c \in Call : result[c] # Nil =>
    /\ Usable(result[c]) /\ stored # result[c]
    /\ \A d \in Call :
         /\ arg[d] # result[c]
         /\ d # c /\ result[d] # Nil => family[result[d]] # family[result[c]]
         /\ SignsIn(c) /\ arg[d] # Nil => family[arg[d]] # family[result[c]]
    /\ SignsIn(c) /\ stored # Nil => family[stored] # family[result[c]]
    /\ ~ SignsIn(c) => family[result[c]] = family[arg[c]]

(* A refresh that has not been answered presents the stored token, if any of
   its family is stored, and a reuse one that is dead. *)
RefreshesPresentStored ==
  /\ \A c \in Call :
       /\ pc[c] \in Refreshing \ {"answered"} /\ stored # Nil /\ family[stored] = family[arg[c]]
          => stored = arg[c]
       /\ pc[c] = "reuse" => ~ Live(arg[c])

StoredIsKept ==
  stored # Nil =>
    \/ Usable(stored) \/ \E c \in Call : SigningOut(c)
    \/ flight # Nil /\ arg[flight] = stored /\ pc[flight] = "answered"

PhoneInv ==
  /\ age \in [Token -> 0..2] /\ lost \in Nat
  /\ lost = 0 => /\ CallsAreOrdered /\ NewTokensAreNew /\ RefreshesPresentStored
                 /\ StoredIsKept
===============================================================================
