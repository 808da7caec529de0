---------------------------- MODULE RateLimitProofs ----------------------------
(***************************************************************************)
(* Proofs about RateLimit: whatever is dropped from the events of a key    *)
(* does not count any more, so that no window has too many calls.          *)
(***************************************************************************)
EXTENDS RateLimit, WellFoundedInduction, TLAPS

(* es are the last of the calls al, and those that are missing are not younger
   than cutoff; al is ordered and ends at t or before. *)
EndOf(es, al, cutoff, t) ==
  /\ Len(es) <= Len(al)
  /\ \A i \in 1..Len(es) : es[i] = al[Len(al) - Len(es) + i]
  /\ \A i \in 1..(Len(al) - Len(es)) : al[i] <= cutoff
  /\ \A i \in 1..Len(al) : al[i] <= t
  /\ \A i, j \in 1..Len(al) : i <= j => al[i] <= al[j]

RateTyped ==
  /\ now \in Nat
  /\ events \in [Bucket \X Key -> Seq(Nat)]
  /\ allowed \in [Bucket \X Key -> Seq(Nat)]

(* The invariant: the events of a key are the last calls allowed, and what is
   missing of them is out of the window of the bucket. *)
RateInv ==
  /\ RateTyped
  /\ \A b \in Bucket, k \in Key :
       EndOf(events[<<b, k>>], allowed[<<b, k>>], now - Window[b], now)
  /\ WindowHolds

-------------------------------------------------------------------------------

(* A set of naturals that is not empty has a least element. *)
LEMMA LeastExists ==
  ASSUME NEW S \in SUBSET Nat, S # {}
  PROVE  \E i \in S : \A j \in S : i <= j
<1>1. PICK i \in S : \A j \in S : <<j, i>> \notin OpToRel(<, Nat)
  BY NatLessThanWellFounded, WFMin, Zenon
<1>2. \A j \in S : ~ (j < i)
  BY <1>1 DEF OpToRel
<1> QED
  BY <1>2

(* What the window keeps is the end of the events, what it drops is too old. *)
LEMMA RecentIsSuffix ==
  ASSUME RateAssumption, RateTyped, NEW b \in Bucket, NEW k \in Key
  PROVE  /\ Recent(b, k) \in Seq(Nat)
         /\ Len(Recent(b, k)) <= Len(events[<<b, k>>])
         /\ \A i \in 1..Len(Recent(b, k)) :
              Recent(b, k)[i] = events[<<b, k>>][Len(events[<<b, k>>]) - Len(Recent(b, k)) + i]
         /\ \A i \in 1..(Len(events[<<b, k>>]) - Len(Recent(b, k))) :
              events[<<b, k>>][i] <= now - Window[b]
<1> DEFINE es == events[<<b, k>>]
           C == Counting(b, es)
           first == CHOOSE i \in C : \A j \in C : i <= j
<1>1. es \in Seq(Nat) /\ now \in Nat
  BY DEF RateTyped
<1>2. Window[b] \in Nat
  BY DEF RateAssumption
<1>3. /\ Recent(b, k) = IF C = {} THEN <<>> ELSE SubSeq(es, first, Len(es))
      /\ C = {i \in 1..Len(es) : es[i] > now - Window[b]}
  BY DEF Recent, Counting
<1> HIDE DEF es
<1>4. C \subseteq 1..Len(es) /\ Len(es) \in Nat
  BY <1>1, <1>3
<1>5. \A i \in 1..Len(es) : i \notin C => es[i] <= now - Window[b]
  <2> SUFFICES ASSUME NEW i \in 1..Len(es), i \notin C
               PROVE  es[i] <= now - Window[b]
    OBVIOUS
  <2>1. es[i] \in Nat
    BY <1>1
  <2> QED
    BY <1>1, <1>2, <1>3, <2>1
<1>6. SUFFICES /\ Recent(b, k) \in Seq(Nat)
               /\ Len(Recent(b, k)) <= Len(es)
               /\ \A i \in 1..Len(Recent(b, k)) :
                    Recent(b, k)[i] = es[Len(es) - Len(Recent(b, k)) + i]
               /\ \A i \in 1..(Len(es) - Len(Recent(b, k))) : es[i] <= now - Window[b]
  BY DEF es
<1> HIDE DEF C, first
<1>7. CASE C = {}
  <2>1. Recent(b, k) = <<>>
    BY <1>3, <1>7
  <2> QED
    BY <2>1, <1>1, <1>4, <1>5, <1>7
<1>8. CASE C # {}
  <2>1. first \in C /\ \A j \in C : first <= j
    <3>1. C \in SUBSET Nat
      BY <1>4
    <3>2. \E i \in C : \A j \in C : i <= j
      BY <3>1, <1>8, LeastExists
    <3> QED
      BY <3>2 DEF first
  <2>2. Recent(b, k) = SubSeq(es, first, Len(es))
    BY <1>3, <1>8
  <2>3. first \in 1..Len(es)
    BY <2>1, <1>4
  <2>4. /\ Recent(b, k) \in Seq(Nat)
        /\ Len(Recent(b, k)) = Len(es) - first + 1
        /\ \A i \in 1..Len(Recent(b, k)) : Recent(b, k)[i] = es[first + i - 1]
    BY <2>2, <2>3, <1>1, <1>4
  <2>5. \A i \in 1..(first - 1) : es[i] <= now - Window[b]
    BY <2>1, <2>3, <1>4, <1>5
  <2> QED
    BY <2>3, <2>4, <2>5, <1>4
<1> QED
  BY <1>7, <1>8

-------------------------------------------------------------------------------
(* How the end of the calls is kept. *)

LEMMA EndLater ==
  ASSUME NEW es \in Seq(Nat), NEW al \in Seq(Nat), NEW c \in Int, NEW t \in Nat,
         NEW d \in Int, NEW u \in Nat, c <= d, t <= u, EndOf(es, al, c, t)
  PROVE  EndOf(es, al, d, u)
<1>1. \A i \in 1..Len(al) : al[i] \in Nat
  OBVIOUS
<1> QED
  BY <1>1 DEF EndOf

LEMMA EndDropped ==
  ASSUME NEW es \in Seq(Nat), NEW al \in Seq(Nat), NEW c \in Int, NEW t \in Nat,
         NEW rs \in Seq(Nat), EndOf(es, al, c, t), Len(rs) <= Len(es),
         \A i \in 1..Len(rs) : rs[i] = es[Len(es) - Len(rs) + i],
         \A i \in 1..(Len(es) - Len(rs)) : es[i] <= c
  PROVE  EndOf(rs, al, c, t)
<1>1. Len(es) \in Nat /\ Len(al) \in Nat /\ Len(rs) \in Nat
  OBVIOUS
<1>2. Len(rs) <= Len(al)
  BY <1>1 DEF EndOf
<1>3. ASSUME NEW i \in 1..Len(rs)
      PROVE  rs[i] = al[Len(al) - Len(rs) + i]
  <2>1. rs[i] = es[Len(es) - Len(rs) + i]
    OBVIOUS
  <2>2. Len(es) - Len(rs) + i \in 1..Len(es)
    BY <1>1
  <2>3. es[Len(es) - Len(rs) + i] = al[Len(al) - Len(es) + (Len(es) - Len(rs) + i)]
    BY <2>2 DEF EndOf
  <2>4. Len(al) - Len(es) + (Len(es) - Len(rs) + i) = Len(al) - Len(rs) + i
    BY <1>1
  <2> QED
    BY <2>1, <2>3, <2>4
<1>4. ASSUME NEW i \in 1..(Len(al) - Len(rs))
      PROVE  al[i] <= c
  <2>1. CASE i <= Len(al) - Len(es)
    BY <1>1, <2>1 DEF EndOf
  <2>2. CASE i > Len(al) - Len(es)
    <3> DEFINE j == i - (Len(al) - Len(es))
    <3>1. j \in 1..(Len(es) - Len(rs)) /\ j \in 1..Len(es) /\ Len(al) - Len(es) + j = i
      BY <1>1, <1>2, <2>2
    <3>2. es[j] <= c
      BY <3>1
    <3>3. es[j] = al[Len(al) - Len(es) + j]
      BY <3>1 DEF EndOf
    <3> QED
      BY <3>1, <3>2, <3>3
  <2> QED
    BY <1>1, <2>1, <2>2
<1> QED
  BY <1>2, <1>3, <1>4 DEF EndOf

LEMMA EndForgotten ==
  ASSUME NEW es \in Seq(Nat), NEW al \in Seq(Nat), NEW c \in Int, NEW t \in Nat,
         EndOf(es, al, c, t), es = <<>> \/ es[Len(es)] < c
  PROVE  EndOf(<<>>, al, c, t)
<1>1. Len(es) \in Nat /\ Len(al) \in Nat
  OBVIOUS
<1>2. \A i \in 1..Len(al) : al[i] \in Nat
  OBVIOUS
<1>3. ASSUME NEW i \in 1..Len(al)
      PROVE  al[i] <= c
  <2>1. CASE i <= Len(al) - Len(es)
    BY <1>1, <2>1 DEF EndOf
  <2>2. CASE i > Len(al) - Len(es)
    <3>1. Len(es) # 0
      BY <1>1, <2>2
    <3>2. es # <<>>
      BY <3>1
    <3>3. es[Len(es)] = al[Len(al)]
      BY <1>1, <3>1 DEF EndOf
    <3>4. Len(al) \in 1..Len(al) /\ i <= Len(al)
      BY <1>1
    <3>5. al[i] <= al[Len(al)]
      BY <3>4 DEF EndOf
    <3> QED
      BY <1>2, <3>2, <3>3, <3>4, <3>5
  <2> QED
    BY <1>1, <2>1, <2>2
<1>4. Len(<<>>) = 0
  OBVIOUS
<1> QED
  BY <1>1, <1>3, <1>4 DEF EndOf

LEMMA EndExtended ==
  ASSUME NEW es \in Seq(Nat), NEW al \in Seq(Nat), NEW c \in Int, NEW t \in Nat,
         EndOf(es, al, c, t)
  PROVE  EndOf(Append(es, t), Append(al, t), c, t)
<1> DEFINE fs == Append(es, t)
           bl == Append(al, t)
<1>1. Len(es) \in Nat /\ Len(al) \in Nat /\ Len(es) <= Len(al)
  BY DEF EndOf
<1>2. Len(fs) = Len(es) + 1 /\ Len(bl) = Len(al) + 1
  OBVIOUS
<1>3. fs[Len(es) + 1] = t /\ bl[Len(al) + 1] = t
  OBVIOUS
<1>4. (\A i \in 1..Len(es) : fs[i] = es[i]) /\ (\A i \in 1..Len(al) : bl[i] = al[i])
  OBVIOUS
<1> HIDE DEF fs, bl
<1>5. ASSUME NEW i \in 1..Len(fs)
      PROVE  fs[i] = bl[Len(bl) - Len(fs) + i]
  <2>1. CASE i = Len(es) + 1
    BY <1>1, <1>2, <1>3, <2>1
  <2>2. CASE i \in 1..Len(es)
    <3>1. es[i] = al[Len(al) - Len(es) + i] /\ Len(al) - Len(es) + i \in 1..Len(al)
      BY <1>1, <2>2 DEF EndOf
    <3>2. Len(bl) - Len(fs) + i = Len(al) - Len(es) + i
      BY <1>1, <1>2
    <3> QED
      BY <1>4, <2>2, <3>1, <3>2
  <2> QED
    BY <1>1, <1>2, <2>1, <2>2
<1>6. ASSUME NEW i \in 1..(Len(bl) - Len(fs))
      PROVE  bl[i] <= c
  <2>1. i \in 1..(Len(al) - Len(es)) /\ i \in 1..Len(al)
    BY <1>1, <1>2
  <2> QED
    BY <1>4, <2>1 DEF EndOf
<1>7. ASSUME NEW i \in 1..Len(bl)
      PROVE  bl[i] <= t /\ (i = Len(al) + 1 \/ i \in 1..Len(al))
  <2>1. i = Len(al) + 1 \/ i \in 1..Len(al)
    BY <1>1, <1>2
  <2>2. CASE i = Len(al) + 1
    BY <1>3, <2>2
  <2>3. CASE i \in 1..Len(al)
    BY <1>4, <2>3 DEF EndOf
  <2> QED
    BY <2>1, <2>2, <2>3
<1>8. ASSUME NEW i \in 1..Len(bl), NEW j \in 1..Len(bl), i <= j
      PROVE  bl[i] <= bl[j]
  <2>1. CASE j = Len(al) + 1
    BY <1>3, <1>7, <2>1
  <2>2. CASE j # Len(al) + 1
    <3>1. j \in 1..Len(al)
      BY <1>7, <2>2
    <3>2. i \in 1..Len(al)
      BY <1>1, <1>7, <1>8, <3>1
    <3> QED
      BY <1>4, <1>8, <3>1, <3>2 DEF EndOf
  <2> QED
    BY <2>1, <2>2
<1>9. Len(fs) <= Len(bl)
  BY <1>1, <1>2
<1>10. EndOf(fs, bl, c, t)
  BY <1>5, <1>6, <1>7, <1>8, <1>9 DEF EndOf
<1> QED
  BY <1>10 DEF fs, bl

-------------------------------------------------------------------------------
(* The operations of the module keep the invariant. *)

LEMMA RateInitOK == RateAssumption /\ RateInit => RateInv
<1> SUFFICES ASSUME RateAssumption, RateInit
             PROVE  RateInv
  OBVIOUS
<1>1. now = 0 /\ \A b \in Bucket, k \in Key :
        events[<<b, k>>] = <<>> /\ allowed[<<b, k>>] = <<>>
  BY DEF RateInit
<1>2. RateTyped
  BY DEF RateInit, RateTyped
<1>3. Len(<<>>) = 0
  OBVIOUS
<1>4. ASSUME NEW b \in Bucket, NEW k \in Key
      PROVE  EndOf(events[<<b, k>>], allowed[<<b, k>>], now - Window[b], now)
  <2>1. EndOf(<<>>, <<>>, now - Window[b], now)
    BY <1>3 DEF EndOf
  <2> QED
    BY <1>1, <2>1
<1>5. \A b \in Bucket : Limit[b] \in Nat \ {0}
  BY DEF RateAssumption
<1>6. WindowHolds
  BY <1>1, <1>3, <1>5 DEF WindowHolds
<1> QED
  BY <1>2, <1>4, <1>6 DEF RateInv

LEMMA TickOK == RateAssumption /\ RateInv /\ Tick => RateInv'
<1> SUFFICES ASSUME RateAssumption, RateInv, Tick
             PROVE  RateInv'
  OBVIOUS
<1>1. now \in Nat /\ now' \in Nat /\ now <= now' /\ UNCHANGED <<events, allowed>>
  BY DEF Tick, RateInv, RateTyped, RateAssumption
<1>2. RateTyped'
  BY <1>1 DEF RateInv, RateTyped
<1>3. ASSUME NEW b \in Bucket, NEW k \in Key
      PROVE  EndOf(events[<<b, k>>], allowed[<<b, k>>], now - Window[b], now)'
  <2>1. allowed[<<b, k>>] \in Seq(Nat) /\ events[<<b, k>>] \in Seq(Nat)
    BY DEF RateInv, RateTyped
  <2>2. Window[b] \in Nat
    BY DEF RateAssumption
  <2>3. now - Window[b] \in Int /\ now' - Window[b] \in Int
        /\ now - Window[b] <= now' - Window[b]
    BY <1>1, <2>2
  <2>4. EndOf(events[<<b, k>>], allowed[<<b, k>>], now - Window[b], now)
    BY DEF RateInv
  <2>5. EndOf(events[<<b, k>>], allowed[<<b, k>>], now' - Window[b], now')
    BY <1>1, <2>1, <2>3, <2>4, EndLater
  <2> QED
    BY <1>1, <2>5
<1>4. WindowHolds'
  BY <1>1 DEF RateInv, WindowHolds
<1> QED
  BY <1>2, <1>3, <1>4 DEF RateInv

(* What a check makes of the events of a key before the sweep. *)
Counted(b, k) ==
  [events EXCEPT ![<<b, k>>] = IF Admits(b, k) THEN Append(Recent(b, k), now)
                                               ELSE Recent(b, k)]

LEMMA CheckOK ==
  ASSUME RateAssumption, RateInv, NEW b \in Bucket, NEW k \in Key, Check(b, k)
  PROVE  RateInv'
<1> DEFINE rs == Recent(b, k)
           es == events[<<b, k>>]
           al == allowed[<<b, k>>]
           counted == Counted(b, k)
<1>1. /\ now \in Nat /\ now' = now
      /\ events \in [Bucket \X Key -> Seq(Nat)]
      /\ allowed \in [Bucket \X Key -> Seq(Nat)]
  BY DEF RateInv, RateTyped, Check
<1>2. \A c \in Bucket : Window[c] \in Nat /\ now - Window[c] \in Int /\ Limit[c] \in Nat \ {0}
  BY <1>1 DEF RateAssumption
<1>3. \A c \in Bucket, l \in Key :
        EndOf(events[<<c, l>>], allowed[<<c, l>>], now - Window[c], now)
  BY DEF RateInv
<1>4. /\ rs \in Seq(Nat) /\ Len(rs) <= Len(es)
      /\ \A i \in 1..Len(rs) : rs[i] = es[Len(es) - Len(rs) + i]
      /\ \A i \in 1..(Len(es) - Len(rs)) : es[i] <= now - Window[b]
  BY RecentIsSuffix DEF RateInv
<1>5. es \in Seq(Nat) /\ al \in Seq(Nat)
  BY <1>1
<1>6. /\ allowed' = IF Admits(b, k) THEN [allowed EXCEPT ![<<b, k>>] = Append(al, now)]
                                    ELSE allowed
      /\ \/ events' = counted
         \/ events' = [x \in DOMAIN counted |->
                         IF Stale(x[1], counted[x]) THEN <<>> ELSE counted[x]]
  BY DEF Check, Counted
<1>7. EndOf(rs, al, now - Window[b], now)
  <2>1. EndOf(es, al, now - Window[b], now)
    BY <1>3
  <2> HIDE DEF rs, es, al
  <2> QED
    BY <1>1, <1>2, <1>4, <1>5, <2>1, EndDropped
<1>8. counted = [events EXCEPT ![<<b, k>>] = IF Admits(b, k) THEN Append(rs, now) ELSE rs]
  BY DEF Counted
<1> HIDE DEF rs, es, counted
<1>9. Append(rs, now) \in Seq(Nat) /\ Append(al, now) \in Seq(Nat)
  BY <1>1, <1>4, <1>5
<1>10. counted \in [Bucket \X Key -> Seq(Nat)] /\ allowed' \in [Bucket \X Key -> Seq(Nat)]
  BY <1>1, <1>4, <1>6, <1>8, <1>9
<1>11. ASSUME NEW c \in Bucket, NEW l \in Key
       PROVE  EndOf(counted[<<c, l>>], allowed'[<<c, l>>], now - Window[c], now)
  <2>1. CASE <<c, l>> # <<b, k>>
    <3>1. counted[<<c, l>>] = events[<<c, l>>] /\ allowed'[<<c, l>>] = allowed[<<c, l>>]
      BY <1>1, <1>6, <1>8, <2>1
    <3> QED
      BY <1>3, <3>1
  <2>2. CASE <<c, l>> = <<b, k>> /\ Admits(b, k)
    <3>1. counted[<<b, k>>] = Append(rs, now) /\ allowed'[<<b, k>>] = Append(al, now)
      BY <1>1, <1>6, <1>8, <2>2
    <3>2. EndOf(Append(rs, now), Append(al, now), now - Window[b], now)
      <4> HIDE DEF al
      <4> QED
        BY <1>1, <1>2, <1>4, <1>5, <1>7, EndExtended
    <3> QED
      BY <2>2, <3>1, <3>2
  <2>3. CASE <<c, l>> = <<b, k>> /\ ~ Admits(b, k)
    <3>1. counted[<<b, k>>] = rs /\ allowed'[<<b, k>>] = al
      BY <1>1, <1>6, <1>8, <2>3
    <3> QED
      BY <1>7, <2>3, <3>1
  <2> QED
    BY <2>1, <2>2, <2>3
<1>12. events' \in [Bucket \X Key -> Seq(Nat)]
  <2>1. CASE events' = counted
    BY <1>10, <2>1
  <2>2. CASE events' = [x \in DOMAIN counted |->
                          IF Stale(x[1], counted[x]) THEN <<>> ELSE counted[x]]
    <3>1. <<>> \in Seq(Nat) /\ DOMAIN counted = Bucket \X Key
      BY <1>10
    <3> QED
      BY <1>10, <2>2, <3>1
  <2> QED
    BY <1>6, <2>1, <2>2
<1>13. ASSUME NEW c \in Bucket, NEW l \in Key
       PROVE  EndOf(events'[<<c, l>>], allowed'[<<c, l>>], now - Window[c], now)
  <2>1. \/ events'[<<c, l>>] = counted[<<c, l>>]
        \/ Stale(c, counted[<<c, l>>]) /\ events'[<<c, l>>] = <<>>
    <3>1. <<c, l>> \in DOMAIN counted /\ <<c, l>>[1] = c
      BY <1>10
    <3> QED
      BY <1>6, <3>1
  <2>2. CASE events'[<<c, l>>] = counted[<<c, l>>]
    BY <1>11, <2>2
  <2>3. CASE Stale(c, counted[<<c, l>>]) /\ events'[<<c, l>>] = <<>>
    <3> DEFINE fs == counted[<<c, l>>]
               bl == allowed'[<<c, l>>]
    <3>1. fs \in Seq(Nat) /\ bl \in Seq(Nat)
      BY <1>10
    <3>2. fs = <<>> \/ fs[Len(fs)] < now - Window[c]
      BY <2>3 DEF Stale
    <3>3. EndOf(fs, bl, now - Window[c], now)
      BY <1>11
    <3>4. now - Window[c] \in Int
      BY <1>2
    <3> HIDE DEF fs, bl
    <3>5. EndOf(<<>>, bl, now - Window[c], now)
      BY <1>1, <3>1, <3>2, <3>3, <3>4, EndForgotten
    <3> QED
      BY <2>3, <3>5 DEF bl
  <2> QED
    BY <2>1, <2>2, <2>3
<1>14. WindowHolds'
  <2> SUFFICES ASSUME NEW c \in Bucket, NEW l \in Key,
                      NEW i \in 1..(Len(allowed'[<<c, l>>]) - Limit[c])
               PROVE  allowed'[<<c, l>>][i + Limit[c]] - allowed'[<<c, l>>][i] >= Window[c]
    BY DEF WindowHolds
  <2>1. CASE allowed'[<<c, l>>] = allowed[<<c, l>>]
    BY <2>1 DEF RateInv, WindowHolds
  <2>2. CASE <<c, l>> = <<b, k>> /\ Admits(b, k)
    <3>1. allowed'[<<c, l>>] = Append(al, now) /\ c = b /\ l = k
      BY <1>1, <1>6, <2>2
    <3>2. Len(rs) < Limit[b]
      BY <2>2 DEF Admits, rs
    <3>3. Limit[b] \in Nat /\ Limit[b] # 0 /\ Window[b] \in Nat
      BY <1>2
    <3>4. WindowHolds
      BY DEF RateInv
    <3>5. \A j \in 1..(Len(al) - Limit[b]) : al[j + Limit[b]] - al[j] >= Window[b]
      BY <3>4 DEF WindowHolds
    <3> HIDE DEF al
    <3>6. Len(al) \in Nat /\ Len(rs) \in Nat /\ \A j \in 1..Len(al) : al[j] \in Nat
      <4>1. al \in Seq(Nat)
        BY <1>5
      <4>2. Len(al) \in Nat /\ \A j \in 1..Len(al) : al[j] \in Nat
        BY <4>1
      <4>3. Len(rs) \in Nat
        BY <1>4
      <4> QED
        BY <4>2, <4>3
    <3>7. Len(Append(al, now)) = Len(al) + 1 /\ Append(al, now)[Len(al) + 1] = now
      BY <1>1, <1>5
    <3>8. \A j \in 1..Len(al) : Append(al, now)[j] = al[j]
      BY <1>1, <1>5
    <3>9. i \in 1..(Len(al) + 1 - Limit[b]) /\ i \in 1..Len(al)
      BY <3>1, <3>3, <3>6, <3>7
    <3>10. CASE i + Limit[b] <= Len(al)
      <4>1. i \in 1..(Len(al) - Limit[b]) /\ i + Limit[b] \in 1..Len(al)
        BY <3>3, <3>6, <3>9, <3>10
      <4> QED
        BY <3>1, <3>5, <3>8, <3>9, <4>1
    <3>11. CASE i + Limit[b] = Len(al) + 1
      <4>1. i \in 1..(Len(al) - Len(rs))
        BY <3>2, <3>3, <3>6, <3>9, <3>11
      <4>2. al[i] <= now - Window[b] /\ al[i] \in Nat
        BY <1>7, <3>6, <3>9, <4>1 DEF EndOf
      <4>3. Append(al, now)[i + Limit[b]] = now /\ Append(al, now)[i] = al[i]
        BY <3>7, <3>8, <3>9, <3>11
      <4>4. now - al[i] >= Window[b]
        BY <1>1, <3>3, <4>2
      <4> QED
        BY <3>1, <4>3, <4>4
    <3>12. i + Limit[b] <= Len(al) \/ i + Limit[b] = Len(al) + 1
      BY <3>3, <3>6, <3>9
    <3> QED
      BY <3>10, <3>11, <3>12
  <2> QED
    BY <1>1, <1>6, <2>1, <2>2
<1> QED
  BY <1>1, <1>10, <1>12, <1>13, <1>14 DEF RateInv, RateTyped


(* Whichever keys and buckets are checked and whenever the sweep comes, no
   window of a key holds more allowed calls than the limit of its bucket. *)
THEOREM LimitsHold == RateSpec => []WindowHolds
<1>1. RateInit => RateInv
  BY RateAssumption, RateInitOK
<1>2. RateInv /\ [RateNext]_rateVars => RateInv'
  <2>1. RateInv /\ UNCHANGED rateVars => RateInv'
    BY DEF RateInv, RateTyped, WindowHolds, rateVars
  <2>2. QED
    BY <2>1, RateAssumption, TickOK, CheckOK DEF RateNext
<1>3. RateInv => WindowHolds
  BY DEF RateInv
<1>4. QED
  BY <1>1, <1>2, <1>3, PTL DEF RateSpec
===============================================================================
