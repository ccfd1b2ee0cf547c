------------------------ MODULE SmartProtect_proofs ------------------------
(***************************************************************************)
(* What holds of Smart Protect for every number of clients, requests and   *)
(* policies, every cap and every setting: its types, the lock-free count,  *)
(* the caps, silence while a block is in force, that a block is made only  *)
(* by refusals that fit in the window, and that with room for every client *)
(* no refusal goes uncounted.                                              *)
(***************************************************************************)
EXTENDS SmartProtect, FiniteSetTheorems, SequenceTheorems, TLAPS

-----------------------------------------------------------------------------
(* The tables are finite. *)

\* A table's keys are finitely many, so it has a size (State.blocks.len() and
\* SlidingCounter's events.len()).
LEMMA KeyFinite == IsFiniteSet(Key)
BY CapsAssumption, FS_Product DEF Key

\* So blocks.len() is a number ...
LEMMA HeldFinite ==
  ASSUME NEW b
  PROVE  IsFiniteSet(Held(b)) /\ Cardinality(Held(b)) \in Nat
<1>1. Held(b) \subseteq Key
  BY DEF Held
<1>2. IsFiniteSet(Held(b))
  BY <1>1, KeyFinite, FS_Subset
<1> QED
  BY <1>2, FS_CardinalityType

\* ... and so is events.len().
LEMMA TrackedFinite ==
  ASSUME NEW ev
  PROVE  IsFiniteSet(Tracked(ev)) /\ Cardinality(Tracked(ev)) \in Nat
<1>1. Tracked(ev) \subseteq Key
  BY DEF Tracked
<1>2. IsFiniteSet(Tracked(ev))
  BY <1>1, KeyFinite, FS_Subset
<1> QED
  BY <1>2, FS_CardinalityType

-----------------------------------------------------------------------------
(* The operators offence_at is built from. *)

\* What is left of a queue when its front has been dropped (pop_front in record).
LEMMA FromHere ==
  ASSUME NEW S, NEW s \in Seq(S), NEW a \in 1 .. Len(s) + 1
  PROVE  /\ SubSeq(s, a, Len(s)) \in Seq(S)
         /\ Len(SubSeq(s, a, Len(s))) = Len(s) + 1 - a
         /\ \A i \in 1 .. Len(s) + 1 - a : SubSeq(s, a, Len(s))[i] = s[a + i - 1]
OBVIOUS

\* SlidingCounter::record leaves the times of its key as a non-empty sequence
\* of at most `keep`, the last of them the one it recorded, and the others a
\* run of the times it found that starts no earlier than an unexpired one.
LEMMA RecordResult ==
  ASSUME NEW times \in Seq(Nat), NEW t \in Nat, NEW window \in Nat \ {0},
         NEW keep \in Nat \ {0},
         NEW r \in Record(times, t, window, keep)
  PROVE  LET d == Len(r) - 1
         IN /\ r \in Seq(Nat)
            /\ d \in 0 .. keep - 1
            /\ d <= Len(times)
            /\ r[d + 1] = t
            /\ \A i \in 1 .. d : r[i] = times[Len(times) - d + i]
            /\ d > 0 => \E m \in 1 .. Len(times) - d + 1 : t - times[m] < window
<1>1. PICK m \in FirstKept(times, t, window) :
         r = Newest(Append(SubSeq(times, m, Len(times)), t), keep)
  BY DEF Record
<1>2. m \in 1 .. Len(times) + 1 /\ (m <= Len(times) => t - times[m] < window)
  BY <1>1 DEF FirstKept
<1> DEFINE kept == SubSeq(times, m, Len(times))
           all == Append(kept, t)
           n == Len(times) + 1 - m
<1>3. /\ kept \in Seq(Nat)
      /\ Len(kept) = n
      /\ \A i \in 1 .. n : kept[i] = times[m + i - 1]
  BY <1>2, FromHere
<1>n. n \in Nat /\ n = Len(times) + 1 - m
  BY <1>2
<1> HIDE DEF kept, n
<1>4. /\ all \in Seq(Nat)
      /\ Len(all) = n + 1
      /\ all[n + 1] = t
      /\ \A i \in 1 .. n : all[i] = times[m + i - 1]
  BY <1>3, <1>n
<1>a. r = Newest(all, keep)
  BY <1>1 DEF kept
<1>b. Len(all) = n + 1
  BY <1>4
<1> HIDE DEF all
<1>5. CASE n >= keep
  <2> DEFINE d == keep - 1
             low == Len(all) - keep + 1
  <2>1. d \in 0 .. keep - 1 /\ d < n /\ low \in 1 .. Len(all) + 1 /\ low = n - d + 1
    <3>1. keep \in Nat \ {0} /\ n \in Nat
      BY <1>n
    <3>2. d \in 0 .. keep - 1 /\ d < n
      BY ONLY <1>5, <3>1
    <3>3. low = n - d + 1 /\ low \in 1 .. Len(all) + 1
      BY ONLY <1>5, <1>b, <3>1
    <3> QED
      BY <3>2, <3>3
  <2>2. Len(all) > keep
    BY <1>5, <1>n, <1>b
  <2>3. r = SubSeq(all, low, Len(all))
    BY <1>a, <2>2 DEF Newest
  <2>4. Len(all) + 1 - low = d + 1
    BY <1>5, <1>n, <1>4
  <2> HIDE DEF low, d
  <2>5. /\ r \in Seq(Nat)
        /\ Len(r) = d + 1
        /\ \A i \in 1 .. d + 1 : r[i] = all[low + i - 1]
    <3>1. low \in 1 .. Len(all) + 1 /\ all \in Seq(Nat)
      BY <1>4, <2>1
    <3>2. /\ SubSeq(all, low, Len(all)) \in Seq(Nat)
          /\ Len(SubSeq(all, low, Len(all))) = Len(all) + 1 - low
          /\ \A i \in 1 .. Len(all) + 1 - low : SubSeq(all, low, Len(all))[i] = all[low + i - 1]
      BY <3>1, FromHere
    <3> QED
      BY <3>2, <2>3, <2>4
  <2>6. r[d + 1] = t
    <3>1. low + (d + 1) - 1 = n + 1 /\ d + 1 \in 1 .. d + 1
      BY <2>1, <1>n
    <3>2. r[d + 1] = all[low + (d + 1) - 1]
      BY <2>5, <3>1
    <3>3. all[n + 1] = t
      BY <1>4
    <3> QED
      BY ONLY <3>1, <3>2, <3>3
  <2>7. ASSUME NEW i \in 1 .. d
        PROVE  r[i] = times[Len(times) - d + i]
    <3>1. /\ i \in 1 .. d + 1
          /\ low + i - 1 \in 1 .. n
          /\ m + (low + i - 1) - 1 = Len(times) - d + i
      BY <2>1, <1>n, <1>2
    <3>2. r[i] = all[low + i - 1]
      BY <3>1, <2>5
    <3>3. all[low + i - 1] = times[m + (low + i - 1) - 1]
      BY <3>1, <1>4
    <3> QED
      BY <3>1, <3>2, <3>3
  <2>8. m \in 1 .. Len(times) - d + 1 /\ t - times[m] < window /\ d <= Len(times)
    BY <1>2, <1>n, <2>1
  <2>9. Len(r) - 1 = d
    BY <2>1, <2>5
  <2> QED
    BY <2>1, <2>5, <2>6, <2>7, <2>8, <2>9
<1>6. CASE n < keep
  <2>1. ~(Len(all) > keep)
    BY <1>4, <1>6, <1>n
  <2>2. r = all
    BY <1>a, <2>1 DEF Newest
  <2>3. n \in 0 .. keep - 1 /\ n <= Len(times)
    BY <1>2, <1>6, <1>n
  <2>4. \A i \in 1 .. n : m + i - 1 = Len(times) - n + i
    BY <1>n, <1>2
  <2>5. n > 0 => m \in 1 .. Len(times) - n + 1 /\ t - times[m] < window
    BY <1>2, <1>n
  <2>6. Len(r) - 1 = n
    BY <2>2, <1>4, <1>n
  <2>7. \A i \in 1 .. n : r[i] = times[Len(times) - n + i]
    BY <2>2, <2>4, <1>4
  <2> QED
    BY <2>2, <2>3, <2>5, <2>6, <2>7, <1>4
<1> QED
  BY <1>5, <1>6, <1>n

\* The refusal that completes a count of `keep` finds keep - 1 others, and the
\* oldest of them, or one kept before it, has not expired.
LEMMA FullRecord ==
  ASSUME NEW times \in Seq(Nat), NEW t \in Nat, NEW window \in Nat \ {0},
         NEW keep \in Nat \ {0}, keep > 1,
         NEW r \in Record(times, t, window, keep), Len(r) >= keep
  PROVE  /\ keep - 1 <= Len(times)
         /\ \E m \in 1 .. Len(times) - (keep - 1) + 1 : t - times[m] < window
<1>1. Len(r) - 1 = keep - 1 /\ keep - 1 > 0 /\ keep - 1 <= Len(times)
  BY RecordResult
<1>2. Len(r) - 1 > 0
  BY <1>1
<1>3. PICK m \in 1 .. Len(times) - (Len(r) - 1) + 1 : t - times[m] < window
  BY <1>2, RecordResult
<1> QED
  BY <1>1, <1>3

\* What a refusal does to the times and to the history once there is room: it is
\* added to both, or completes the count.
Recorded(ev, k, times, t, num) ==
    /\ events' = [ev EXCEPT ![k] = times]
    /\ log' = [StillCounted(ev) EXCEPT ![k] = Append(@, [stamp |-> t, at |-> now, numbers |-> num])]
Spends(ev, k) == events' = [ev EXCEPT ![k] = <<>>] /\ log' = [StillCounted(ev) EXCEPT ![k] = <<>>]

\* e is ev without some of its entries, and r is b without some of its blocks.
Thinned(ev, e) == e \in [Key -> Seq(Nat)] /\ \A j \in Key : e[j] = ev[j] \/ e[j] = <<>>
Freed(b, r) == r \in [Key -> Nat] /\ \A j \in Key : r[j] = b[j] \/ r[j] = 0

\* Making room drops whole entries and touches none of the others.
LEMMA RoomForResult ==
  ASSUME NEW ev \in [Key -> Seq(Nat)], NEW k \in Key, NEW t, NEW window,
         NEW e \in RoomFor(ev, k, t, window)
  PROVE  Thinned(ev, e)
<1> SUFFICES /\ e \in [Key -> Seq(Nat)]
             /\ \A j \in Key : e[j] = ev[j] \/ e[j] = <<>>
  BY DEF Thinned
<1>1. <<>> \in Seq(Nat)
  OBVIOUS
<1> DEFINE fresh == StillInWindow(ev, t, window)
<1>2. /\ fresh \in [Key -> Seq(Nat)]
      /\ \A j \in Key : fresh[j] = ev[j] \/ fresh[j] = <<>>
  BY <1>1 DEF StillInWindow
<1> HIDE DEF fresh
<1>3. ASSUME NEW c
      PROVE  /\ SeenAfter(fresh, c) \in [Key -> Seq(Nat)]
             /\ \A j \in Key : SeenAfter(fresh, c)[j] = ev[j] \/ SeenAfter(fresh, c)[j] = <<>>
  BY <1>1, <1>2 DEF SeenAfter
<1>4. CASE e = ev
  BY <1>4
<1>5. CASE e \in MakeRoom(ev, t, window)
  <2>1. e = fresh \/ \E c \in Median(fresh) : e = SeenAfter(fresh, c)
    BY <1>5 DEF MakeRoom, fresh
  <2> QED
    BY <2>1, <1>2, <1>3
<1>6. e = ev \/ e \in MakeRoom(ev, t, window)
  BY DEF RoomFor
<1> QED
  BY <1>4, <1>5, <1>6

\* Making room for a block only removes blocks.
LEMMA BlocksWithRoomResult ==
  ASSUME NEW b \in [Key -> Nat], NEW t, NEW r \in BlocksWithRoom(b, t)
  PROVE  Freed(b, r)
<1> SUFFICES /\ r \in [Key -> Nat]
             /\ \A j \in Key : r[j] = b[j] \/ r[j] = 0
  BY DEF Freed
<1> DEFINE live == [k \in Key |-> IF b[k] > t THEN b[k] ELSE 0]
<1>1. /\ live \in [Key -> Nat]
      /\ \A j \in Key : live[j] = b[j] \/ live[j] = 0
  OBVIOUS
<1>2. r = b \/ r = live \/ \E k \in Key : r = [live EXCEPT ![k] = 0]
  BY DEF BlocksWithRoom, Held
<1> HIDE DEF live
<1> QED
  BY <1>1, <1>2

-----------------------------------------------------------------------------
(* Types. *)

\* What a request that is about to take the lock carries.
LEMMA RefusedRequest ==
  ASSUME TypeOK, NEW r \in Requests, req[r].step = "refused"
  PROVE  /\ req[r].key \in Key
         /\ req[r].stamp \in Nat
         /\ req[r].numbers \in Numbers
         /\ req[r].numbers.refusals \in Nat \ {0, 1}
         /\ req[r].numbers.window \in Nat \ {0}
         /\ req[r].numbers.block \in Nat \ {0}
<1>1. req[r] \in [step : {"refused"}, key : Key, stamp : Nat, numbers : Numbers]
  BY DEF TypeOK, Request, Idle
<1>2. req[r].numbers \in Numbers
  BY <1>1
<1>3. /\ req[r].numbers.refusals \in Refusals
      /\ req[r].numbers.window \in Windows
      /\ req[r].numbers.block \in Lengths
  BY <1>2 DEF Numbers
<1>4. \A v \in Refusals : v \in Nat \ {0, 1}
  BY NumbersAssumption
<1>5. req[r].key \in Key /\ req[r].stamp \in Nat
  BY <1>1
<1> QED
  BY <1>2, <1>3, <1>4, <1>5, NumbersAssumption

\* A request that is being inspected is of a client and a policy.
LEMMA InspectingRequest ==
  ASSUME TypeOK, NEW r \in Requests, req[r].step = "inspecting"
  PROVE  req[r].key \in Key
BY DEF TypeOK, Request, Idle

\* A request slot that goes idle is a request slot still.
LEMMA IdleAgain ==
  ASSUME TypeOK, NEW r \in Requests, req' = [req EXCEPT ![r] = Idle]
  PROVE  req' \in [Requests -> Request]
BY DEF TypeOK, Request

\* Whoever is dropped starts over with an empty history.
LEMMA StillCountedTyped ==
  ASSUME log \in [Key -> Seq(Counted)], NEW ev
  PROVE  StillCounted(ev) \in [Key -> Seq(Counted)]
<1>1. <<>> \in Seq(Counted)
  OBVIOUS
<1> QED
  BY <1>1 DEF StillCounted

\* The state keeps its shape through every operation of Smart Protect.
THEOREM TypeCorrect == Spec => []TypeOK
<1>1. Init => TypeOK
  <2> SUFFICES ASSUME Init PROVE TypeOK
    OBVIOUS
  <2>1. <<>> \in Seq(Nat) /\ <<>> \in Seq(Counted) /\ 0 \in Nat
    OBVIOUS
  <2> QED
    BY <2>1 DEF Init, TypeOK, Request
<1>2. TypeOK /\ [Next]_vars => TypeOK'
  <2> SUFFICES ASSUME TypeOK, [Next]_vars PROVE TypeOK'
    OBVIOUS
  <2>0. <<>> \in Seq(Nat) /\ <<>> \in Seq(Counted)
    OBVIOUS
  <2>c. ASSUME NEW b PROVE Cardinality(Held(b)) \in Nat
    BY HeldFinite
  <2>1. CASE Tick
    BY <2>1 DEF Tick, TypeOK
  <2>2. ASSUME NEW r \in Requests, NEW k \in Key, BeginUnblocked(r, k) PROVE TypeOK'
    <3>1. [step |-> "inspecting", key |-> k] \in Request
      BY DEF Request
    <3>2. req' \in [Requests -> Request]
      BY <2>2, <3>1 DEF BeginUnblocked, TypeOK
    <3>3. blocks' \in [Key -> Nat] /\ blockCount' \in Nat
      <4>1. CASE blockCount # 0 /\ blocks[k] # 0
        BY <4>1, <2>2, <2>c DEF BeginUnblocked, TypeOK
      <4>2. CASE ~(blockCount # 0 /\ blocks[k] # 0)
        BY <4>2, <2>2 DEF BeginUnblocked, TypeOK
      <4> QED
        BY <4>1, <4>2
    <3> QED
      BY <2>2, <3>2, <3>3 DEF BeginUnblocked, TypeOK
  <2>3. ASSUME NEW r \in Requests, Pass(r) PROVE TypeOK'
    <3>1. req' \in [Requests -> Request]
      BY <2>3, IdleAgain DEF Pass
    <3> QED
      BY <2>3, <3>1 DEF Pass, TypeOK
  <2>4. ASSUME NEW r \in Requests, Refuse(r) PROVE TypeOK'
    <3>1. req[r].key \in Key
      BY <2>4, InspectingRequest DEF Refuse
    <3>2. [step |-> "refused", key |-> req[r].key, stamp |-> now, numbers |-> numbers] \in Request
      BY <3>1 DEF Request, TypeOK
    <3> QED
      BY <2>4, <3>2 DEF Refuse, TypeOK
  <2>5. ASSUME NEW r \in Requests, OffenceWhileBlocked(r) PROVE TypeOK'
    <3>1. req' \in [Requests -> Request]
      BY <2>5, IdleAgain DEF OffenceWhileBlocked
    <3> QED
      BY <2>5, <3>1 DEF OffenceWhileBlocked, TypeOK
  <2>6. ASSUME NEW r \in Requests, OffenceCounted(r) PROVE TypeOK'
    <3> DEFINE k == req[r].key
               t == req[r].stamp
               n == req[r].numbers
    <3>1. /\ k \in Key /\ t \in Nat /\ n \in Numbers
          /\ n.window \in Nat \ {0} /\ n.refusals \in Nat \ {0}
      BY <2>6, RefusedRequest DEF OffenceCounted
    <3>2. PICK ev \in RoomFor(events, k, t, n.window) :
             \E times \in Record(ev[k], t, n.window, n.refusals) : Recorded(ev, k, times, t, n)
      BY <2>6 DEF OffenceCounted, Recorded
    <3>3. ev \in [Key -> Seq(Nat)]
      <4>r. Thinned(events, ev)
        BY <3>1, <3>2, RoomForResult DEF TypeOK
      <4> QED
        BY <4>r DEF Thinned
    <3>4. PICK times \in Record(ev[k], t, n.window, n.refusals) : Recorded(ev, k, times, t, n)
      BY <3>2
    <3>5. times \in Seq(Nat)
      BY <3>1, <3>3, <3>4, RecordResult
    <3>6. events' \in [Key -> Seq(Nat)]
      BY <3>3, <3>4, <3>5 DEF Recorded
    <3>7. [stamp |-> t, at |-> now, numbers |-> n] \in Counted
      BY <3>1 DEF Counted, TypeOK
    <3>8. log' \in [Key -> Seq(Counted)]
      <4> DEFINE counted == StillCounted(ev)
      <4>1. counted \in [Key -> Seq(Counted)] /\ counted[k] \in Seq(Counted)
        BY <3>1, StillCountedTyped DEF TypeOK
      <4>2. Append(counted[k], [stamp |-> t, at |-> now, numbers |-> n]) \in Seq(Counted)
        BY <4>1, <3>7
      <4>3. log' = [counted EXCEPT ![k] = Append(counted[k], [stamp |-> t, at |-> now, numbers |-> n])]
        BY <3>4 DEF Recorded
      <4> HIDE DEF counted
      <4> QED
        BY <4>1, <4>2, <4>3
    <3>9. req' \in [Requests -> Request]
      BY <2>6, IdleAgain DEF OffenceCounted
    <3> QED
      BY <2>6, <3>6, <3>8, <3>9 DEF OffenceCounted, TypeOK
  <2>7. ASSUME NEW r \in Requests, OffenceBlocks(r) PROVE TypeOK'
    <3> DEFINE k == req[r].key
               t == req[r].stamp
               n == req[r].numbers
    <3>1. k \in Key /\ t \in Nat /\ n.block \in Nat
      BY <2>7, RefusedRequest DEF OffenceBlocks
    <3>2. PICK ev \in RoomFor(events, k, t, n.window) : Spends(ev, k)
      BY <2>7 DEF OffenceBlocks, Spends
    <3>3. ev \in [Key -> Seq(Nat)]
      <4>r. Thinned(events, ev)
        BY <3>1, <3>2, RoomForResult DEF TypeOK
      <4> QED
        BY <4>r DEF Thinned
    <3>4. events' \in [Key -> Seq(Nat)]
      BY <2>0, <3>2, <3>3 DEF Spends
    <3>5. PICK b \in BlocksWithRoom(blocks, t) : blocks' = [b EXCEPT ![k] = t + n.block]
      BY <2>7 DEF OffenceBlocks
    <3>6. blocks' \in [Key -> Nat]
      <4>1. b \in [Key -> Nat]
        <5>r. Freed(blocks, b)
          BY <3>5, BlocksWithRoomResult DEF TypeOK
        <5> QED
          BY <5>r DEF Freed
      <4>2. t + n.block \in Nat
        BY <3>1
      <4> QED
        BY <4>1, <4>2, <3>5
    <3>7. log' \in [Key -> Seq(Counted)]
      BY <2>0, <3>2, StillCountedTyped DEF Spends, TypeOK
    <3>8. req' \in [Requests -> Request]
      BY <2>7, IdleAgain DEF OffenceBlocks
    <3> QED
      BY <2>7, <2>c, <3>4, <3>6, <3>7, <3>8 DEF OffenceBlocks, TypeOK
  <2>8. CASE StoreNumber
    <3>1. numbers' \in Numbers
      BY <2>8 DEF StoreNumber, TypeOK, Numbers
    <3> QED
      BY <2>8, <3>1 DEF StoreNumber, TypeOK
  <2>9. CASE ListBlocks
    <3>1. blocks' \in [Key -> Nat]
      BY <2>9 DEF ListBlocks, TypeOK
    <3> QED
      BY <2>9, <2>c, <3>1 DEF ListBlocks, TypeOK
  <2>10. ASSUME NEW k \in Key, Unblock(k) PROVE TypeOK'
    BY <2>10, <2>0, <2>c DEF Unblock, TypeOK
  <2>11. ASSUME NEW p \in Policies, SwitchOn(p) \/ SwitchOff(p) PROVE TypeOK'
    BY <2>11 DEF SwitchOn, SwitchOff, TypeOK
  <2>12. ASSUME NEW p \in Policies, ForgetPolicy(p) PROVE TypeOK'
    BY <2>12, <2>0, <2>c DEF ForgetPolicy, TypeOK
  <2>13. CASE ReloadSites
    BY <2>13 DEF ReloadSites, TypeOK
  <2>14. CASE UNCHANGED vars
    BY <2>14 DEF vars, TypeOK
  <2> QED
    BY <2>1, <2>2, <2>3, <2>4, <2>5, <2>6, <2>7, <2>8, <2>9, <2>10, <2>11, <2>12, <2>13, <2>14
    DEF Next, RequestStep, AdminStep
<1> QED
  BY <1>1, <1>2, PTL DEF Spec

-----------------------------------------------------------------------------
(* The count that is read without the lock. *)

\* Whatever changes the table of blocks stores its size before it gives up the
\* lock, so BLOCK_COUNT is never wrong while the lock is free.
THEOREM CountCorrect == Spec => []CountMatches
<1>1. Init => CountMatches
  <2> SUFFICES ASSUME Init PROVE CountMatches
    OBVIOUS
  <2>1. Held(blocks) = {}
    BY DEF Init, Held
  <2> QED
    BY <2>1, FS_EmptySet DEF Init, CountMatches
<1>2. CountMatches /\ [Next]_vars => CountMatches'
  <2> SUFFICES ASSUME CountMatches, [Next]_vars PROVE CountMatches'
    OBVIOUS
  <2>1. UNCHANGED <<blocks, blockCount>> \/ blockCount' = Cardinality(Held(blocks'))
    BY DEF Next, RequestStep, AdminStep, Tick, BeginUnblocked, Pass, Refuse,
           OffenceWhileBlocked, OffenceCounted, OffenceBlocks, StoreNumber,
           ListBlocks, Unblock, SwitchOn, SwitchOff, ForgetPolicy, ReloadSites, vars
  <2> QED
    BY <2>1 DEF CountMatches, Held
<1> QED
  BY <1>1, <1>2, PTL DEF Spec

-----------------------------------------------------------------------------
(* Blocks in force. *)

\* A refusal carries a clock reading that is not ahead of the clock (Instant
\* is monotonic), and nothing is counted for a client whose block is in force.
QuietInv ==
    /\ \A r \in Requests : req[r].step = "refused" => req[r].stamp <= now
    /\ QuietWhileBlocked

\* Each step keeps QuietInv: a refusal is counted under the clock reading it carries,
\* and offence_at looks for a block at that reading.
LEMMA QuietStep == TypeOK /\ QuietInv /\ [Next]_vars => QuietInv'
<1> SUFFICES ASSUME TypeOK, QuietInv, [Next]_vars PROVE QuietInv'
  OBVIOUS
<1> USE DEF QuietInv, QuietWhileBlocked, Live
<1>n. now \in Nat /\ events \in [Key -> Seq(Nat)] /\ blocks \in [Key -> Nat]
  BY DEF TypeOK
<1>s. \A r \in Requests : req[r].step = "refused" => req[r].stamp \in Nat /\ req[r].key \in Key
  BY RefusedRequest
<1>1. CASE Tick
  BY <1>1, <1>n, <1>s DEF Tick
<1>2. ASSUME NEW r \in Requests, NEW k \in Key, BeginUnblocked(r, k) PROVE QuietInv'
  <2>1. \A j \in Key : blocks'[j] = blocks[j] \/ blocks'[j] = 0
    BY <1>2, <1>n DEF BeginUnblocked
  <2>2. \A s \in Requests : req'[s].step = "refused" => req'[s] = req[s]
    BY <1>2 DEF BeginUnblocked, TypeOK
  <2> QED
    BY <1>2, <2>1, <2>2, <1>n DEF BeginUnblocked
<1>3. ASSUME NEW r \in Requests, Pass(r) \/ OffenceWhileBlocked(r) PROVE QuietInv'
  <2>1. \A s \in Requests : req'[s].step = "refused" => req'[s] = req[s]
    BY <1>3 DEF Pass, OffenceWhileBlocked, TypeOK, Idle
  <2> QED
    BY <1>3, <2>1 DEF Pass, OffenceWhileBlocked
<1>4. ASSUME NEW r \in Requests, Refuse(r) PROVE QuietInv'
  <2>1. \A s \in Requests : req'[s] = req[s] \/ req'[s].stamp = now
    BY <1>4 DEF Refuse, TypeOK
  <2> QED
    BY <1>4, <2>1, <1>n DEF Refuse
<1>5. ASSUME NEW r \in Requests, OffenceCounted(r) PROVE QuietInv'
  <2> DEFINE k == req[r].key
  <2>1. k \in Key /\ req[r].stamp \in Nat /\ req[r].stamp <= now /\ blocks[k] <= req[r].stamp
    BY <1>5, <1>n, <1>s DEF OffenceCounted, BlockedAt
  <2>2. ~Live(k)
    BY <2>1, <1>n
  <2>3. PICK ev \in RoomFor(events, k, req[r].stamp, req[r].numbers.window) :
           \E times : events' = [ev EXCEPT ![k] = times]
    BY <1>5 DEF OffenceCounted
  <2>4. ev \in [Key -> Seq(Nat)] /\ \A j \in Key : ev[j] = events[j] \/ ev[j] = <<>>
    <3>r. Thinned(events, ev)
      BY <2>1, <2>3, <1>n, RoomForResult
    <3> QED
      BY <3>r DEF Thinned
  <2>5. \A j \in Key \ {k} : events'[j] = events[j] \/ events'[j] = <<>>
    BY <2>3, <2>4
  <2>6. \A s \in Requests : req'[s].step = "refused" => req'[s] = req[s]
    BY <1>5 DEF OffenceCounted, TypeOK, Idle
  <2>7. now' = now /\ blocks' = blocks
    BY <1>5 DEF OffenceCounted
  <2>8. \A j \in Key : Live(j)' => events'[j] = <<>>
    BY <2>2, <2>5, <2>7
  <2>9. \A s \in Requests : req'[s].step = "refused" => req'[s].stamp <= now'
    BY <2>6, <2>7
  <2> QED
    BY <2>8, <2>9
<1>6. ASSUME NEW r \in Requests, OffenceBlocks(r) PROVE QuietInv'
  <2> DEFINE k == req[r].key
  <2>1. k \in Key
    BY <1>6, <1>s DEF OffenceBlocks
  <2>2. PICK ev \in RoomFor(events, k, req[r].stamp, req[r].numbers.window) :
           events' = [ev EXCEPT ![k] = <<>>]
    BY <1>6 DEF OffenceBlocks
  <2>3. ev \in [Key -> Seq(Nat)] /\ \A j \in Key : ev[j] = events[j] \/ ev[j] = <<>>
    <3>1. ev \in RoomFor(events, k, req[r].stamp, req[r].numbers.window)
      BY <2>2
    <3> HIDE DEF k
    <3>r. Thinned(events, ev)
      BY <2>1, <3>1, <1>n, RoomForResult
    <3> QED
      BY <3>r DEF Thinned
  <2>4. events'[k] = <<>> /\ \A j \in Key \ {k} : events'[j] = events[j] \/ events'[j] = <<>>
    <3> HIDE DEF k
    <3>1. events' = [ev EXCEPT ![k] = <<>>]
      BY <2>2
    <3> QED
      BY <2>1, <2>3, <3>1
  <2>5. PICK b \in BlocksWithRoom(blocks, req[r].stamp) :
           blocks' = [b EXCEPT ![k] = req[r].stamp + req[r].numbers.block]
    BY <1>6 DEF OffenceBlocks
  <2>6. b \in [Key -> Nat] /\ \A j \in Key : b[j] = blocks[j] \/ b[j] = 0
    <3>r. Freed(blocks, b)
      BY <2>5, <1>n, BlocksWithRoomResult
    <3> QED
      BY <3>r DEF Freed
  <2>7. \A j \in Key \ {k} : blocks'[j] = blocks[j] \/ blocks'[j] = 0
    BY <2>5, <2>6
  <2>8. \A s \in Requests : req'[s].step = "refused" => req'[s] = req[s]
    BY <1>6 DEF OffenceBlocks, TypeOK, Idle
  <2>9. now' = now
    BY <1>6 DEF OffenceBlocks
  <2>10. ASSUME NEW j \in Key, Live(j)' PROVE events'[j] = <<>>
    <3> HIDE DEF k
    <3>1. CASE j = k
      BY <2>4, <3>1
    <3>2. CASE j # k
      <4>1. blocks'[j] = blocks[j]
        BY <2>7, <2>9, <2>10, <3>2, <1>n
      <4>2. events[j] = <<>>
        BY <2>9, <2>10, <4>1
      <4> QED
        BY <2>4, <3>2, <4>2
    <3> QED
      BY <3>1, <3>2
  <2>11. \A s \in Requests : req'[s].step = "refused" => req'[s].stamp <= now'
    BY <2>8, <2>9
  <2> QED
    BY <2>10, <2>11
<1>7. CASE StoreNumber
  BY <1>7 DEF StoreNumber
<1>8. CASE ListBlocks
  BY <1>8, <1>n DEF ListBlocks
<1>9. ASSUME NEW k \in Key, Unblock(k) PROVE QuietInv'
  BY <1>9, <1>n DEF Unblock
<1>10. ASSUME NEW p \in Policies, SwitchOn(p) \/ SwitchOff(p) PROVE QuietInv'
  BY <1>10 DEF SwitchOn, SwitchOff
<1>11. ASSUME NEW p \in Policies, ForgetPolicy(p) PROVE QuietInv'
  BY <1>11, <1>n DEF ForgetPolicy
<1>12. CASE ReloadSites
  BY <1>12 DEF ReloadSites
<1>13. CASE UNCHANGED vars
  BY <1>13 DEF vars
<1> QED
  BY <1>1, <1>2, <1>3, <1>4, <1>5, <1>6, <1>7, <1>8, <1>9, <1>10, <1>11, <1>12, <1>13
  DEF Next, RequestStep, AdminStep

\* In every reachable state QuietInv holds.
LEMMA QuietAlways == Spec => []QuietInv
<1>1. Init => QuietInv
  BY DEF Init, QuietInv, QuietWhileBlocked, Live, Idle
<1> QED
  BY <1>1, QuietStep, TypeCorrect, PTL DEF Spec

\* While a block is in force nothing is counted towards the next one, for any
\* number of requests in flight and any order of their clock readings.
THEOREM QuietCorrect == Spec => []QuietWhileBlocked
<1>1. QuietInv => QuietWhileBlocked
  BY DEF QuietInv
<1> QED
  BY <1>1, QuietAlways, PTL

-----------------------------------------------------------------------------
(* The caps. *)

\* A table with one key more than another has at most one entry more.
LEMMA OneMore ==
  ASSUME NEW S, NEW T, NEW x, IsFiniteSet(S), T \subseteq S \cup {x}
  PROVE  Cardinality(T) <= Cardinality(S) + 1
<1>1. /\ IsFiniteSet(S \cup {x})
      /\ Cardinality(S \cup {x}) = IF x \in S THEN Cardinality(S) ELSE Cardinality(S) + 1
  BY FS_AddElement
<1>2. IsFiniteSet(T) /\ Cardinality(T) <= Cardinality(S \cup {x})
  BY <1>1, FS_Subset
<1>3. /\ Cardinality(S) \in Nat
      /\ Cardinality(T) \in Nat
      /\ Cardinality(S \cup {x}) \in Nat
  BY <1>1, <1>2, FS_CardinalityType
<1> QED
  BY <1>1, <1>2, <1>3

\* The same table without a key it held has fewer.
LEMMA OneFewer ==
  ASSUME NEW S, NEW T, NEW x \in S, IsFiniteSet(S), T \subseteq S \ {x}
  PROVE  Cardinality(T) < Cardinality(S)
<1>1. IsFiniteSet(S \ {x}) /\ Cardinality(S \ {x}) = Cardinality(S) - 1
  BY FS_RemoveElement
<1>2. Cardinality(T) <= Cardinality(S \ {x})
  BY <1>1, FS_Subset
<1> QED
  BY <1>1, <1>2, FS_CardinalityType, FS_Subset

\* offence_at leaves room for one block more.
LEMMA BlocksHaveRoom ==
  ASSUME NEW b, Cardinality(Held(b)) <= MaxBlocks, NEW t, NEW r \in BlocksWithRoom(b, t)
  PROVE  Cardinality(Held(r)) < MaxBlocks
<1> DEFINE live == [k \in Key |-> IF b[k] > t THEN b[k] ELSE 0]
           soonest == {k \in Held(live) : \A j \in Held(live) : live[k] <= live[j]}
<1>m. MaxBlocks \in Nat
  BY CapsAssumption
<1>1. Cardinality(Held(b)) \in Nat /\ Cardinality(Held(live)) \in Nat
  BY HeldFinite
<1>2. CASE Cardinality(Held(b)) < MaxBlocks
  BY <1>2 DEF BlocksWithRoom
<1>3. CASE ~(Cardinality(Held(b)) < MaxBlocks) /\ Cardinality(Held(live)) < MaxBlocks
  BY <1>3 DEF BlocksWithRoom
<1>4. CASE ~(Cardinality(Held(b)) < MaxBlocks) /\ ~(Cardinality(Held(live)) < MaxBlocks)
  <2>1. PICK k \in Held(live) : r = [live EXCEPT ![k] = 0]
    BY <1>4 DEF BlocksWithRoom
  <2>2. Held(r) \subseteq Held(live) \ {k}
    BY <2>1 DEF Held
  <2>3. Cardinality(Held(r)) < Cardinality(Held(live))
    BY <2>2, HeldFinite, OneFewer
  <2>4. Held(live) \subseteq Held(b)
    BY DEF Held
  <2>5. Cardinality(Held(live)) <= Cardinality(Held(b))
    BY <2>4, HeldFinite, FS_Subset
  <2>6. Cardinality(Held(r)) \in Nat
    BY HeldFinite
  <2> HIDE DEF live
  <2> QED
    BY <2>3, <2>5, <2>6, <1>m, <1>1
<1> QED
  BY <1>2, <1>3, <1>4

\* record() either has an entry to add to or has room for one more: make_room
\* frees at least one entry, the one whose last time is the cutoff.
LEMMA CountsHaveRoom ==
  ASSUME NEW ev \in [Key -> Seq(Nat)], Cardinality(Tracked(ev)) <= MaxCounted,
         NEW k \in Key, NEW t, NEW window, NEW e \in RoomFor(ev, k, t, window)
  PROVE  (e = ev /\ ev[k] # <<>>) \/ Cardinality(Tracked(e)) < MaxCounted
<1> DEFINE fresh == StillInWindow(ev, t, window)
<1>m. MaxCounted \in Nat
  BY CapsAssumption
<1>1. CASE ~(ev[k] = <<>> /\ Cardinality(Tracked(ev)) >= MaxCounted)
  <2>1. e = ev
    BY <1>1 DEF RoomFor
  <2>2. Cardinality(Tracked(ev)) \in Nat
    BY TrackedFinite
  <2> QED
    BY <1>1, <1>m, <2>1, <2>2
<1>2. CASE ev[k] = <<>> /\ Cardinality(Tracked(ev)) >= MaxCounted
  <2>1. e \in MakeRoom(ev, t, window)
    BY <1>2 DEF RoomFor
  <2>2. CASE Cardinality(Tracked(fresh)) < MaxCounted
    BY <2>1, <2>2 DEF MakeRoom
  <2>3. CASE ~(Cardinality(Tracked(fresh)) < MaxCounted)
    <3>1. PICK c \in Median(fresh) : e = SeenAfter(fresh, c)
      BY <2>1, <2>3 DEF MakeRoom
    <3>2. PICK j \in Tracked(fresh) : c = Last(fresh[j])
      BY <3>1 DEF Median
    <3>3. Tracked(fresh) \subseteq Tracked(ev)
      BY DEF Tracked, StillInWindow
    <3>4. Last(fresh[j]) \in Nat
      <4>1. j \in Key /\ fresh[j] # <<>> /\ fresh[j] = ev[j]
        BY DEF Tracked, StillInWindow
      <4>2. fresh[j] \in Seq(Nat) /\ fresh[j] # <<>>
        BY <4>1
      <4> QED
        BY <4>2 DEF Last
    <3>5. Tracked(e) \subseteq Tracked(fresh) \ {j}
      <4> HIDE DEF fresh
      <4> QED
        BY <3>1, <3>2, <3>4 DEF Tracked, SeenAfter
    <3>6. Cardinality(Tracked(e)) < Cardinality(Tracked(fresh))
      BY <3>2, <3>5, TrackedFinite, OneFewer
    <3>7. Cardinality(Tracked(fresh)) <= Cardinality(Tracked(ev))
      BY <3>3, TrackedFinite, FS_Subset
    <3>8. /\ Cardinality(Tracked(e)) \in Nat
          /\ Cardinality(Tracked(fresh)) \in Nat
          /\ Cardinality(Tracked(ev)) \in Nat
      BY TrackedFinite
    <3> HIDE DEF fresh
    <3> QED
      BY <3>6, <3>7, <3>8, <1>m
  <2> QED
    BY <2>2, <2>3
<1> QED
  BY <1>1, <1>2

\* Neither table outgrows its cap: MAX_COUNTED keys counted, MAX_BLOCKS held.
THEOREM CapsCorrect == Spec => []WithinCaps
<1>1. Init => WithinCaps
  <2> SUFFICES ASSUME Init PROVE WithinCaps
    OBVIOUS
  <2>1. Held(blocks) = {} /\ Tracked(events) = {}
    BY DEF Init, Held, Tracked
  <2>2. Cardinality(Held(blocks)) = 0 /\ Cardinality(Tracked(events)) = 0
    BY <2>1, FS_EmptySet
  <2> QED
    BY <2>2, CapsAssumption DEF WithinCaps
<1>2. TypeOK /\ WithinCaps /\ [Next]_vars => WithinCaps'
  <2> SUFFICES ASSUME TypeOK, WithinCaps, [Next]_vars PROVE WithinCaps'
    OBVIOUS
  <2>n. events \in [Key -> Seq(Nat)] /\ blocks \in [Key -> Nat]
    BY DEF TypeOK
  <2>m. MaxBlocks \in Nat \ {0} /\ MaxCounted \in Nat \ {0}
    BY CapsAssumption
  <2>f. /\ IsFiniteSet(Held(blocks)) /\ IsFiniteSet(Held(blocks'))
        /\ IsFiniteSet(Tracked(events)) /\ IsFiniteSet(Tracked(events'))
        /\ Cardinality(Held(blocks)) \in Nat /\ Cardinality(Held(blocks')) \in Nat
        /\ Cardinality(Tracked(events)) \in Nat /\ Cardinality(Tracked(events')) \in Nat
    BY HeldFinite, TrackedFinite
  <2>g. ASSUME Held(blocks') \subseteq Held(blocks), Tracked(events') \subseteq Tracked(events)
        PROVE  WithinCaps'
    <3>1. /\ Cardinality(Held(blocks')) <= Cardinality(Held(blocks))
          /\ Cardinality(Tracked(events')) <= Cardinality(Tracked(events))
      BY <2>f, <2>g, FS_Subset
    <3> QED
      BY <3>1, <2>f, <2>m DEF WithinCaps
  <2>1. ASSUME NEW r \in Requests, OffenceCounted(r) PROVE WithinCaps'
    <3> DEFINE k == req[r].key
    <3>1. k \in Key
      BY <2>1, RefusedRequest DEF OffenceCounted
    <3>2. PICK ev \in RoomFor(events, k, req[r].stamp, req[r].numbers.window) :
             \E times : events' = [ev EXCEPT ![k] = times]
      BY <2>1 DEF OffenceCounted
    <3> HIDE DEF k
    <3>3. ev \in [Key -> Seq(Nat)]
      <4>r. Thinned(events, ev)
        BY <2>n, <3>1, <3>2, RoomForResult
      <4> QED
        BY <4>r DEF Thinned
    <3>4. (ev = events /\ events[k] # <<>>) \/ Cardinality(Tracked(ev)) < MaxCounted
      BY <2>n, <3>1, <3>2, CountsHaveRoom DEF WithinCaps
    <3>5. Tracked(events') \subseteq Tracked(ev) \cup {k}
      BY <3>2, <3>3 DEF Tracked
    <3>6. Cardinality(Tracked(events')) <= MaxCounted
      <4>1. CASE ev = events /\ events[k] # <<>>
        <5>1. Tracked(events') \subseteq Tracked(events)
          BY <3>1, <3>5, <4>1 DEF Tracked
        <5>2. Cardinality(Tracked(events')) <= Cardinality(Tracked(events))
          BY <5>1, <2>f, FS_Subset
        <5> QED
          BY <5>2, <2>f, <2>m DEF WithinCaps
      <4>2. CASE Cardinality(Tracked(ev)) < MaxCounted
        <5>1. Cardinality(Tracked(events')) <= Cardinality(Tracked(ev)) + 1
          BY <3>5, TrackedFinite, OneMore
        <5>2. Cardinality(Tracked(ev)) \in Nat
          BY TrackedFinite
        <5> QED
          BY <5>1, <5>2, <4>2, <2>f, <2>m
      <4> QED
        BY <3>4, <4>1, <4>2
    <3>7. blocks' = blocks
      BY <2>1 DEF OffenceCounted
    <3> QED
      BY <3>6, <3>7 DEF WithinCaps
  <2>2. ASSUME NEW r \in Requests, OffenceBlocks(r) PROVE WithinCaps'
    <3> DEFINE k == req[r].key
    <3>1. k \in Key
      BY <2>2, RefusedRequest DEF OffenceBlocks
    <3>2. PICK ev \in RoomFor(events, k, req[r].stamp, req[r].numbers.window) :
             events' = [ev EXCEPT ![k] = <<>>]
      BY <2>2 DEF OffenceBlocks
    <3>3. PICK b \in BlocksWithRoom(blocks, req[r].stamp) :
             \E u : blocks' = [b EXCEPT ![k] = u]
      BY <2>2 DEF OffenceBlocks
    <3> HIDE DEF k
    <3>4. ev \in [Key -> Seq(Nat)] /\ \A j \in Key : ev[j] = events[j] \/ ev[j] = <<>>
      <4>1. ev \in RoomFor(events, k, req[r].stamp, req[r].numbers.window)
        BY <3>2
      <4>2. events \in [Key -> Seq(Nat)]
        BY <2>n
      <4>r. Thinned(events, ev)
        BY <3>1, <4>1, <4>2, RoomForResult
      <4> QED
        BY <4>r DEF Thinned
    <3>5. Tracked(events') \subseteq Tracked(events)
      BY <3>1, <3>2, <3>4 DEF Tracked
    <3>6. Cardinality(Tracked(events')) <= MaxCounted
      <4>1. Cardinality(Tracked(events')) <= Cardinality(Tracked(events))
        BY <3>5, <2>f, FS_Subset
      <4> QED
        BY <4>1, <2>f, <2>m DEF WithinCaps
    <3>7. Cardinality(Held(b)) < MaxBlocks /\ Cardinality(Held(b)) \in Nat
      BY <3>3, BlocksHaveRoom, HeldFinite DEF WithinCaps
    <3>8. b \in [Key -> Nat]
      <4>r. Freed(blocks, b)
        BY <2>n, <3>3, BlocksWithRoomResult
      <4> QED
        BY <4>r DEF Freed
    <3>9. Held(blocks') \subseteq Held(b) \cup {k}
      BY <3>3, <3>8 DEF Held
    <3>10. Cardinality(Held(blocks')) <= Cardinality(Held(b)) + 1
      BY <3>9, HeldFinite, OneMore
    <3> QED
      BY <3>6, <3>7, <3>10, <2>f, <2>m DEF WithinCaps
  <2>3. CASE ListBlocks
    BY <2>3, <2>g DEF ListBlocks, Held
  <2>4. ASSUME NEW k \in Key, Unblock(k) PROVE WithinCaps'
    BY <2>4, <2>g, <2>n DEF Unblock, Held, Tracked
  <2>5. ASSUME NEW p \in Policies, ForgetPolicy(p) PROVE WithinCaps'
    BY <2>5, <2>g DEF ForgetPolicy, Held, Tracked
  <2>6. ASSUME NEW r \in Requests, NEW k \in Key, BeginUnblocked(r, k) PROVE WithinCaps'
    BY <2>6, <2>g, <2>n DEF BeginUnblocked, Held
  <2>7. ASSUME UNCHANGED <<blocks, events>> PROVE WithinCaps'
    BY <2>7 DEF WithinCaps
  <2> QED
    BY <2>1, <2>2, <2>3, <2>4, <2>5, <2>6, <2>7
    DEF Next, RequestStep, AdminStep, Tick, Pass, Refuse, OffenceWhileBlocked,
        StoreNumber, SwitchOn, SwitchOff, ReloadSites, vars
<1> QED
  BY <1>1, <1>2, TypeCorrect, PTL DEF Spec

-----------------------------------------------------------------------------
(* What becomes of a block, and where one comes from. *)

\* A block in force keeps its end until an administrator lifts it, its policy
\* is forgotten, or it is the soonest to end of a full table.
LEMMA FixedStep ==
  ASSUME TypeOK, QuietInv, [Next]_vars, NEW k \in Key, Live(k), blocks'[k] # blocks[k]
  PROVE  /\ blocks'[k] = 0
         /\ \/ Unblock(k)
            \/ ForgetPolicy(k[1])
            \/ /\ Cardinality(Held(blocks)) >= MaxBlocks
               /\ \A j \in Key : Live(j) => blocks[k] <= blocks[j]
<1>n. now \in Nat /\ blocks \in [Key -> Nat]
  BY DEF TypeOK
<1>1. ASSUME NEW r \in Requests, NEW j \in Key, BeginUnblocked(r, j) PROVE FALSE
  <2>1. blocks' = [blocks EXCEPT ![j] = 0] /\ ~BlockedAt(j, now)
    BY <1>1 DEF BeginUnblocked
  <2>2. j = k
    BY <2>1, <1>n
  <2> QED
    BY <2>1, <2>2, <1>n DEF Live, BlockedAt
<1>2. ASSUME NEW r \in Requests, OffenceBlocks(r)
      PROVE  /\ blocks'[k] = 0
             /\ Cardinality(Held(blocks)) >= MaxBlocks
             /\ \A j \in Key : Live(j) => blocks[k] <= blocks[j]
  <2> DEFINE x == req[r].key
             t == req[r].stamp
             live == [j \in Key |-> IF blocks[j] > t THEN blocks[j] ELSE 0]
             soonest == {j \in Held(live) : \A i \in Held(live) : live[j] <= live[i]}
  <2>1. x \in Key /\ t \in Nat /\ t <= now /\ blocks[x] <= t
    BY <1>2, <1>n, RefusedRequest DEF OffenceBlocks, BlockedAt, QuietInv
  <2>2. x # k
    BY <2>1, <1>n DEF Live
  <2>3. PICK b \in BlocksWithRoom(blocks, t) : \E u : blocks' = [b EXCEPT ![x] = u]
    BY <1>2 DEF OffenceBlocks
  <2>4. b \in [Key -> Nat]
    <3>r. Freed(blocks, b)
      BY <2>3, <1>n, BlocksWithRoomResult
    <3> QED
      BY <3>r DEF Freed
  <2> HIDE DEF x
  <2>5. blocks'[k] = b[k]
    BY <2>2, <2>3, <2>4
  <2>6. live[k] = blocks[k]
    BY <2>1, <1>n DEF Live
  <2>7. b # blocks /\ b # live
    BY <2>5, <2>6
  <2>8. /\ ~(Cardinality(Held(blocks)) < MaxBlocks)
        /\ \E j \in soonest : b = [live EXCEPT ![j] = 0]
    BY <2>3, <2>7 DEF BlocksWithRoom
  <2>9. PICK j \in soonest : b = [live EXCEPT ![j] = 0]
    BY <2>8
  <2>10. j = k
    BY <2>5, <2>6, <2>9
  <2>11. b[k] = 0
    BY <2>9, <2>10
  <2>12. ASSUME NEW i \in Key, Live(i) PROVE blocks[k] <= blocks[i]
    <3>1. live[i] = blocks[i] /\ i \in Held(live)
      BY <2>1, <2>12, <1>n DEF Live, Held
    <3> QED
      BY <3>1, <2>6, <2>9, <2>10
  <2>13. Cardinality(Held(blocks)) >= MaxBlocks
    BY <2>8, HeldFinite, CapsAssumption
  <2> QED
    BY <2>5, <2>11, <2>12, <2>13
<1>3. ~ListBlocks
  BY <1>n DEF ListBlocks, Live
<1>4. ASSUME NEW j \in Key, Unblock(j) PROVE blocks'[k] = 0 /\ Unblock(k)
  <2>1. blocks' = [blocks EXCEPT ![j] = 0]
    BY <1>4 DEF Unblock
  <2>2. j = k
    BY <2>1, <1>n
  <2> QED
    BY <1>4, <2>1, <2>2, <1>n
<1>5. ASSUME NEW p \in Policies, ForgetPolicy(p) PROVE blocks'[k] = 0 /\ ForgetPolicy(k[1])
  BY <1>5, <1>n DEF ForgetPolicy
<1>6. blocks' # blocks
  OBVIOUS
<1> QED
  BY <1>1, <1>2, <1>3, <1>4, <1>5, <1>6
  DEF Next, RequestStep, AdminStep, Tick, Pass, Refuse, OffenceWhileBlocked,
      OffenceCounted, StoreNumber, SwitchOn, SwitchOff, ReloadSites, vars

\* No later refusal moves the end of a block in force, for any number of
\* clients, requests and settings.
THEOREM BlockFixed == Spec => BlockIsFixed
<1>1. TypeOK /\ QuietInv /\ [Next]_vars =>
        [\A k \in Key :
           Live(k) /\ blocks'[k] # blocks[k] =>
             /\ blocks'[k] = 0
             /\ \/ Unblock(k)
                \/ ForgetPolicy(k[1])
                \/ /\ Cardinality(Held(blocks)) >= MaxBlocks
                   /\ \A j \in Key : Live(j) => blocks[k] <= blocks[j]]_vars
  BY FixedStep
<1> QED
  BY <1>1, TypeCorrect, QuietAlways, PTL DEF Spec, BlockIsFixed

\* Times and a history in step: the times are the stamps of the last of the
\* history's entries, and no entry was counted before its own clock reading,
\* after the clock, or before the entry in front of it.
InStep(times, entries, t) ==
    /\ Len(times) <= Len(entries)
    /\ \A i \in 1 .. Len(times) : times[i] = entries[Len(entries) - Len(times) + i].stamp
    /\ \A i \in 1 .. Len(entries) : entries[i].stamp <= entries[i].at /\ entries[i].at <= t
    /\ \A i \in 1 .. Len(entries) : \A j \in i .. Len(entries) : entries[i].at <= entries[j].at

\* The counter's table in step with the history, key by key.
LogMatches == \A k \in Key : InStep(events[k], log[k], now)

\* A block is made only where the history shows the refusals for it.
LEMMA EarnedStep ==
  ASSUME TypeOK, LogMatches, [Next]_vars, NEW k \in Key, blocks'[k] > blocks[k]
  PROVE  \E r \in Requests :
           /\ req[r].step = "refused"
           /\ req[r].key = k
           /\ LET n == req[r].numbers
                  earlier == Len(log[k]) - (n.refusals - 1)
              IN /\ earlier >= 0
                 /\ \A i \in earlier + 1 .. Len(log[k]) :
                      req[r].stamp - log[k][i].at < n.window
<1>n. /\ now \in Nat /\ blocks \in [Key -> Nat] /\ events \in [Key -> Seq(Nat)]
      /\ log \in [Key -> Seq(Counted)]
  BY DEF TypeOK
<1>1. blocks'[k] # blocks[k] /\ blocks'[k] # 0
  BY <1>n
<1>2. PICK r \in Requests : OffenceBlocks(r)
  <2>1. ASSUME NEW r \in Requests, NEW j \in Key, BeginUnblocked(r, j) PROVE FALSE
    BY <2>1, <1>1, <1>n DEF BeginUnblocked
  <2>2. ASSUME NEW j \in Key, Unblock(j) PROVE FALSE
    BY <2>2, <1>1, <1>n DEF Unblock
  <2>3. ASSUME NEW p \in Policies, ForgetPolicy(p) PROVE FALSE
    BY <2>3, <1>1, <1>n DEF ForgetPolicy
  <2>4. ~ListBlocks
    BY <1>1, <1>n DEF ListBlocks
  <2>5. blocks' # blocks
    BY <1>1
  <2> QED
    BY <2>1, <2>2, <2>3, <2>4, <2>5
    DEF Next, RequestStep, AdminStep, Tick, Pass, Refuse, OffenceWhileBlocked,
        OffenceCounted, StoreNumber, SwitchOn, SwitchOff, ReloadSites, vars
<1>3. /\ req[r].step = "refused"
      /\ req[r].key \in Key /\ req[r].stamp \in Nat
      /\ req[r].numbers.window \in Nat \ {0} /\ req[r].numbers.refusals \in Nat \ {0, 1}
  BY <1>2, RefusedRequest DEF OffenceBlocks
<1>4. PICK x \in Key, t \in Nat, window \in Nat \ {0}, need \in Nat \ {0} :
        /\ x = req[r].key /\ t = req[r].stamp
        /\ window = req[r].numbers.window /\ need = req[r].numbers.refusals - 1
  <2>1. req[r].numbers.refusals - 1 \in Nat \ {0}
    BY <1>3
  <2> QED
    BY <1>3, <2>1, Zenon
<1>5. req[r].numbers.refusals = need + 1 /\ need + 1 \in Nat \ {0}
  BY <1>3, <1>4
<1>6. /\ \E ev \in RoomFor(events, x, t, window) :
           \E times \in Record(ev[x], t, window, need + 1) : Len(times) >= need + 1
      /\ \E b \in BlocksWithRoom(blocks, t) : \E u : blocks' = [b EXCEPT ![x] = u]
  BY <1>2, <1>4, <1>5 DEF OffenceBlocks
<1>7. x = k
  <2>1. PICK b \in BlocksWithRoom(blocks, t) : \E u : blocks' = [b EXCEPT ![x] = u]
    BY <1>6
  <2>2. b \in [Key -> Nat] /\ (b[k] = blocks[k] \/ b[k] = 0)
    <3>1. blocks \in [Key -> Nat] /\ b \in BlocksWithRoom(blocks, t)
      BY <1>n, <2>1
    <3>2. Freed(blocks, b)
      BY ONLY <3>1, BlocksWithRoomResult
    <3> QED
      BY <3>2 DEF Freed
  <2>3. ASSUME x # k PROVE blocks'[k] = b[k]
    BY <2>1, <2>2, <2>3
  <2> QED
    BY <2>2, <2>3, <1>1
<1>8. PICK ev \in RoomFor(events, x, t, window) :
        \E times \in Record(ev[x], t, window, need + 1) : Len(times) >= need + 1
  BY <1>6
<1>9. PICK times \in Record(ev[x], t, window, need + 1) : Len(times) >= need + 1
  BY <1>8
<1>10. ev[k] \in Seq(Nat) /\ (ev[k] = events[k] \/ ev[k] = <<>>)
  <2>1. events \in [Key -> Seq(Nat)] /\ x \in Key /\ ev \in RoomFor(events, x, t, window)
    BY <1>n, <1>8
  <2>2. ev \in [Key -> Seq(Nat)] /\ \A j \in Key : ev[j] = events[j] \/ ev[j] = <<>>
    <3>r. Thinned(events, ev)
      BY ONLY <2>1, RoomForResult
    <3> QED
      BY <3>r DEF Thinned
  <2> QED
    BY <2>2
<1>11. PICK keep \in Nat \ {0} : keep = need + 1 /\ keep - 1 = need /\ keep > 1
  BY <1>4, <1>5
<1>12. /\ need <= Len(ev[k])
       /\ \E m \in 1 .. Len(ev[k]) - need + 1 : t - ev[k][m] < window
  <2>1. times \in Record(ev[k], t, window, keep) /\ Len(times) >= keep
    BY <1>7, <1>9, <1>11
  <2>2. t \in Nat /\ window \in Nat \ {0} /\ keep \in Nat \ {0} /\ keep > 1
    BY <1>4, <1>11
  <2>3. /\ keep - 1 <= Len(ev[k])
        /\ \E m \in 1 .. Len(ev[k]) - (keep - 1) + 1 : t - ev[k][m] < window
    BY <2>1, <2>2, <1>10, FullRecord, Zenon
  <2> QED
    BY <2>3, <1>11
<1>13. ev[k] = events[k]
  BY <1>10, <1>12
<1>14. PICK m \in 1 .. Len(events[k]) - need + 1 : t - events[k][m] < window
  BY <1>12, <1>13
<1>15. PICK len \in Nat, kept \in Nat : len = Len(log[k]) /\ kept = Len(events[k])
  BY <1>n
<1>16. need <= kept /\ kept <= len
  BY <1>12, <1>13, <1>15 DEF LogMatches, InStep
<1>17. PICK q \in 1 .. len : q = len - kept + m /\ q <= len - need + 1
  <2>1. m \in 1 .. kept - need + 1
    BY <1>14, <1>15
  <2>2. need \in Nat \ {0} /\ kept \in Nat /\ len \in Nat
    BY <1>4, <1>15
  <2>3. len - kept + m \in 1 .. len /\ len - kept + m <= len - need + 1
    BY <2>1, <2>2, <1>16
  <2> QED
    BY <2>3
<1>18. m \in 1 .. kept /\ m \in 1 .. Len(events[k])
  BY <1>14, <1>15, <1>16
<1>19. events[k][m] = log[k][q].stamp
  BY <1>15, <1>17, <1>18 DEF LogMatches, InStep
<1>20. ASSUME NEW i \in len - need + 1 .. len
       PROVE  t - log[k][i].at < window
  <2>1. i \in q .. len /\ i \in 1 .. len
    BY <1>16, <1>17
  <2>2. log[k][q].stamp <= log[k][q].at /\ log[k][q].at <= log[k][i].at
    BY <2>1, <1>15, <1>17 DEF LogMatches, InStep
  <2>3. log[k][q] \in Counted /\ log[k][i] \in Counted
    <3>1. log[k] \in Seq(Counted)
      BY <1>n
    <3>2. q \in 1 .. Len(log[k]) /\ i \in 1 .. Len(log[k])
      BY <1>15, <1>17, <2>1
    <3> QED
      BY <3>1, <3>2
  <2>4. PICK a \in Nat, b \in Nat, c \in Nat :
           a = log[k][q].stamp /\ b = log[k][q].at /\ c = log[k][i].at
    BY <2>3 DEF Counted
  <2>5. a <= b /\ b <= c /\ t - a < window
    BY <2>2, <2>4, <1>14, <1>19
  <2>6. t - c < window
    <3>1. t \in Nat /\ window \in Nat /\ a \in Nat /\ b \in Nat /\ c \in Nat
      BY <1>4, <2>4
    <3> QED
      BY <3>1, <2>5
  <2> QED
    BY <2>4, <2>6
<1>21. len - need >= 0
  BY <1>16
<1>22. req[r].numbers.refusals - 1 = need
  BY <1>4
<1> QED
  BY <1>3, <1>4, <1>7, <1>15, <1>20, <1>21, <1>22

\* An entry of the history is a clock reading and the time it was counted at.
LEMMA CountedEntry ==
  ASSUME NEW entries \in Seq(Counted), NEW i \in 1 .. Len(entries)
  PROVE  entries[i].stamp \in Nat /\ entries[i].at \in Nat
<1>1. entries[i] \in Counted
  OBVIOUS
<1> QED
  BY <1>1 DEF Counted

\* As time goes by, and when the times are forgotten, with the history or not,
\* the two stay in step.
LEMMA InStepLater ==
  ASSUME NEW times \in Seq(Nat), NEW entries \in Seq(Counted), NEW t \in Nat,
         InStep(times, entries, t), NEW u \in Nat, t <= u
  PROVE  InStep(times, entries, u) /\ InStep(<<>>, entries, u) /\ InStep(<<>>, <<>>, u)
<1>1. \A i \in 1 .. Len(entries) : entries[i].at <= u
  <2> TAKE i \in 1 .. Len(entries)
  <2>1. entries[i].at \in Nat /\ entries[i].at <= t
    BY CountedEntry DEF InStep
  <2> QED
    BY <2>1
<1>2. InStep(times, entries, u)
  BY <1>1 DEF InStep
<1>3. InStep(<<>>, entries, u)
  BY <1>1 DEF InStep
<1> QED
  BY <1>2, <1>3 DEF InStep

\* A refusal counted: the time recorded and the history entry both join at
\* the end, and what record() keeps is the end of what was kept.
LEMMA InStepCounted ==
  ASSUME NEW old \in Seq(Nat), NEW entries \in Seq(Counted), NEW now0 \in Nat,
         InStep(old, entries, now0),
         NEW found \in Seq(Nat), found = old \/ found = <<>>,
         NEW t \in Nat, t <= now0, NEW window \in Nat \ {0}, NEW keep \in Nat \ {0},
         NEW times \in Record(found, t, window, keep), NEW num \in Numbers
  PROVE  InStep(times, Append(entries, [stamp |-> t, at |-> now0, numbers |-> num]), now0)
<1> DEFINE all == Append(entries, [stamp |-> t, at |-> now0, numbers |-> num])
<1>1. PICK len \in Nat, d \in Nat, n \in Nat :
        len = Len(entries) /\ d = Len(times) - 1 /\ n = Len(found)
  <2>1. Len(times) - 1 \in Nat
    BY RecordResult
  <2>2. Len(entries) \in Nat /\ Len(found) \in Nat
    OBVIOUS
  <2> QED
    BY <2>1, <2>2, Zenon
<1>2. times \in Seq(Nat) /\ Len(times) = d + 1
  <2>1. times \in Seq(Nat)
    BY RecordResult
  <2> QED
    BY <1>1, <2>1
<1>3. d <= n /\ times[d + 1] = t /\ \A i \in 1 .. d : times[i] = found[n - d + i]
  <2>1. /\ Len(times) - 1 <= Len(found)
        /\ times[(Len(times) - 1) + 1] = t
        /\ \A i \in 1 .. Len(times) - 1 : times[i] = found[Len(found) - (Len(times) - 1) + i]
    BY RecordResult
  <2> QED
    BY <1>1, <2>1
<1>4. n <= len /\ \A i \in 1 .. n : found[i] = entries[len - n + i].stamp
  <2>1. CASE found = old
    BY <1>1, <2>1 DEF InStep
  <2>2. CASE found = <<>>
    <3>1. n = 0
      BY <1>1, <2>2
    <3> QED
      BY <1>1, <3>1
  <2> QED
    BY <2>1, <2>2
<1>5. /\ all \in Seq([stamp : Nat, at : Nat, numbers : Numbers])
      /\ Len(all) = len + 1
      /\ all[len + 1] = [stamp |-> t, at |-> now0, numbers |-> num]
      /\ \A i \in 1 .. len : all[i] = entries[i]
  BY <1>1 DEF Counted
<1> HIDE DEF all
<1>6. ASSUME NEW i \in 1 .. d + 1
      PROVE  times[i] = all[(len + 1) - (d + 1) + i].stamp
  <2>1. CASE i = d + 1
    <3>1. (len + 1) - (d + 1) + i = len + 1
      BY <1>1, <2>1
    <3>2. all[len + 1].stamp = t
      BY <1>5
    <3> QED
      BY <3>1, <3>2, <2>1, <1>3
  <2>2. CASE i # d + 1
    <3>1. /\ i \in 1 .. d
          /\ n - d + i \in 1 .. n
          /\ len - d + i \in 1 .. len
          /\ len - n + (n - d + i) = len - d + i
          /\ (len + 1) - (d + 1) + i = len - d + i
      BY <1>1, <1>3, <1>4, <2>2
    <3>2. times[i] = found[n - d + i]
      BY <3>1, <1>3
    <3>3. found[n - d + i] = entries[len - n + (n - d + i)].stamp
      BY <3>1, <1>4
    <3> QED
      BY <3>1, <3>2, <3>3, <1>5
  <2> QED
    BY <2>1, <2>2
<1>7. ASSUME NEW i \in 1 .. len
      PROVE  /\ all[i].stamp <= all[i].at
             /\ all[i].at <= now0
             /\ \A j \in i .. len : all[i].at <= all[j].at
  <2>1. /\ entries[i].stamp <= entries[i].at
        /\ entries[i].at <= now0
        /\ \A j \in i .. len : entries[i].at <= entries[j].at
    BY <1>1 DEF InStep
  <2>2. all[i] = entries[i] /\ \A j \in i .. len : all[j] = entries[j]
    <3>1. \A j \in i .. len : j \in 1 .. len
      BY <1>1
    <3> QED
      BY <3>1, <1>5
  <2> QED
    BY <2>1, <2>2
<1>8. ASSUME NEW i \in 1 .. len + 1
      PROVE  all[i].stamp <= all[i].at /\ all[i].at <= now0
  <2>1. CASE i = len + 1
    BY <2>1, <1>5
  <2>2. CASE i # len + 1
    <3>1. i \in 1 .. len
      BY <2>2, <1>1
    <3> QED
      BY <3>1, <1>7
  <2> QED
    BY <2>1, <2>2
<1>9. ASSUME NEW i \in 1 .. len + 1, NEW j \in i .. len + 1
      PROVE  all[i].at <= all[j].at
  <2>1. CASE j = len + 1
    BY <2>1, <1>5, <1>8
  <2>2. CASE j # len + 1
    <3>0. len \in Nat /\ i \in 1 .. len + 1 /\ j \in i .. len + 1
      BY <1>1
    <3>1. i \in 1 .. len /\ j \in i .. len
      BY ONLY <3>0, <2>2
    <3> QED
      BY <3>1, <1>7
  <2> QED
    BY <2>1, <2>2
<1>10. d + 1 <= len + 1
  BY <1>1, <1>3, <1>4
<1>11. InStep(times, all, now0)
  BY <1>2, <1>5, <1>6, <1>8, <1>9, <1>10 DEF InStep
<1> QED
  BY <1>11 DEF all

\* Each step keeps LogMatches: record drops times from the front only, make_room drops a
\* client's whole queue, and what is counted is added at the end of both.
LEMMA LogStep == TypeOK /\ QuietInv /\ LogMatches /\ [Next]_vars => LogMatches'
<1> SUFFICES ASSUME TypeOK, QuietInv, LogMatches, [Next]_vars PROVE LogMatches'
  OBVIOUS
<1>n. /\ now \in Nat /\ events \in [Key -> Seq(Nat)] /\ log \in [Key -> Seq(Counted)]
  BY DEF TypeOK
<1>k. ASSUME NEW k \in Key, now' \in Nat, now <= now',
             \/ events'[k] = events[k] /\ log'[k] = log[k]
             \/ events'[k] = <<>> /\ log'[k] = <<>>
      PROVE  InStep(events'[k], log'[k], now')
  <2>1. /\ events[k] \in Seq(Nat) /\ log[k] \in Seq(Counted) /\ now \in Nat
        /\ InStep(events[k], log[k], now)
    BY <1>n DEF LogMatches
  <2>2. InStep(events[k], log[k], now') /\ InStep(<<>>, <<>>, now')
    BY <1>k, <2>1, InStepLater
  <2> QED
    BY <1>k, <2>2
<1>1. ASSUME NEW r \in Requests, OffenceCounted(r) PROVE LogMatches'
  <2>1. /\ req[r].key \in Key /\ req[r].stamp \in Nat /\ req[r].stamp <= now
        /\ req[r].numbers.window \in Nat \ {0} /\ req[r].numbers.refusals \in Nat \ {0}
        /\ req[r].numbers \in Numbers
    BY <1>1, RefusedRequest DEF OffenceCounted, QuietInv
  <2>2. PICK x \in Key, t \in Nat, window \in Nat \ {0}, keep \in Nat \ {0}, num \in Numbers :
          /\ x = req[r].key /\ t = req[r].stamp /\ t <= now /\ num = req[r].numbers
          /\ window = req[r].numbers.window /\ keep = req[r].numbers.refusals
    BY <2>1, Zenon
  <2>3. PICK ev \in RoomFor(events, x, t, window) :
           \E times \in Record(ev[x], t, window, keep) : Recorded(ev, x, times, t, num)
    BY <1>1, <2>2 DEF OffenceCounted, Recorded
  <2>4. PICK times \in Record(ev[x], t, window, keep) : Recorded(ev, x, times, t, num)
    BY <2>3
  <2>5. now' = now
    BY <1>1 DEF OffenceCounted
  <2>6. ev \in [Key -> Seq(Nat)] /\ \A j \in Key : ev[j] = events[j] \/ ev[j] = <<>>
    <3>1. ev \in RoomFor(events, x, t, window) /\ events \in [Key -> Seq(Nat)]
      BY <2>3, <1>n
    <3>r. Thinned(events, ev)
      BY <3>1, RoomForResult
    <3> QED
      BY <3>r DEF Thinned
  <2>7. ASSUME NEW k \in Key PROVE InStep(events'[k], log'[k], now')
    <3>1. CASE k = x
      <4> DEFINE left == StillCounted(ev)[k]
      <4>1. /\ events'[k] = times
            /\ log'[k] = Append(left, [stamp |-> t, at |-> now, numbers |-> num])
        BY <3>1, <2>4, <2>6, <1>n DEF Recorded, StillCounted
      <4>2. /\ events[k] \in Seq(Nat) /\ log[k] \in Seq(Counted) /\ now \in Nat
            /\ InStep(events[k], log[k], now)
        BY <1>n DEF LogMatches
      <4>3. ev[k] \in Seq(Nat) /\ (ev[k] = events[k] \/ ev[k] = <<>>)
        BY <2>6
      <4>4. left \in Seq(Counted) /\ InStep(ev[k], left, now)
        <5>1. left = IF ev[k] = <<>> THEN <<>> ELSE log[k]
          BY DEF StillCounted
        <5>2. InStep(<<>>, <<>>, now) /\ <<>> \in Seq(Counted)
          BY DEF InStep
        <5> HIDE DEF left
        <5>3. CASE ev[k] = <<>>
          BY <5>1, <5>2, <5>3
        <5>4. CASE ev[k] # <<>>
          BY <5>1, <5>4, <4>3, <4>2
        <5> QED
          BY <5>3, <5>4
      <4> HIDE DEF left
      <4>5. /\ t \in Nat /\ t <= now /\ window \in Nat \ {0} /\ keep \in Nat \ {0}
            /\ times \in Record(ev[k], t, window, keep)
        BY <3>1, <2>2, <2>4
      <4>6. InStep(times, Append(left, [stamp |-> t, at |-> now, numbers |-> num]), now)
        BY <4>4, <4>3, <4>5, <4>2, InStepCounted
      <4> QED
        BY <4>1, <4>6, <2>5
    <3>2. CASE k # x
      <4>1. events'[k] = ev[k] /\ log'[k] = IF ev[k] = <<>> THEN <<>> ELSE log[k]
        BY <3>2, <2>4, <2>6, <1>n DEF Recorded, StillCounted
      <4>2. now' \in Nat /\ now <= now'
        BY <2>5, <1>n
      <4> QED
        BY <4>1, <4>2, <2>6, <1>k
    <3> QED
      BY <3>1, <3>2
  <2> QED
    BY <2>7 DEF LogMatches
<1>2. ASSUME NEW r \in Requests, OffenceBlocks(r) PROVE LogMatches'
  <2>1. req[r].key \in Key
    BY <1>2, RefusedRequest DEF OffenceBlocks
  <2>2. PICK x \in Key : x = req[r].key
    BY <2>1
  <2>3. PICK ev \in RoomFor(events, x, req[r].stamp, req[r].numbers.window) :
           Spends(ev, x)
    BY <1>2, <2>2 DEF OffenceBlocks, Spends
  <2>4. ev \in [Key -> Seq(Nat)] /\ \A j \in Key : ev[j] = events[j] \/ ev[j] = <<>>
    <3>1. /\ ev \in RoomFor(events, x, req[r].stamp, req[r].numbers.window)
          /\ events \in [Key -> Seq(Nat)]
      BY <2>3, <1>n
    <3>r. Thinned(events, ev)
      BY <3>1, RoomForResult
    <3> QED
      BY <3>r DEF Thinned
  <2>5. now' = now
    BY <1>2 DEF OffenceBlocks
  <2>6. ASSUME NEW k \in Key PROVE InStep(events'[k], log'[k], now')
    <3>1. \/ events'[k] = events[k] /\ log'[k] = log[k]
          \/ events'[k] = <<>> /\ log'[k] = <<>>
      BY <2>3, <2>4, <1>n DEF Spends, StillCounted
    <3>2. now' \in Nat /\ now <= now'
      BY <2>5, <1>n
    <3> QED
      BY <3>1, <3>2, <1>k
  <2> QED
    BY <2>6 DEF LogMatches
<1>3. CASE Tick
  BY <1>3, <1>n, <1>k DEF Tick, LogMatches
<1>4. ASSUME NEW k \in Key, Unblock(k) PROVE LogMatches'
  <2>1. ASSUME NEW j \in Key PROVE InStep(events'[j], log'[j], now')
    BY <1>4, <1>n, <1>k DEF Unblock
  <2> QED
    BY <2>1 DEF LogMatches
<1>5. ASSUME NEW p \in Policies, ForgetPolicy(p) PROVE LogMatches'
  <2>1. ASSUME NEW j \in Key PROVE InStep(events'[j], log'[j], now')
    BY <1>5, <1>n, <1>k DEF ForgetPolicy
  <2> QED
    BY <2>1 DEF LogMatches
<1>6. ASSUME UNCHANGED <<now, events, log>> PROVE LogMatches'
  BY <1>6 DEF LogMatches
<1> QED
  BY <1>1, <1>2, <1>3, <1>4, <1>5, <1>6
  DEF Next, RequestStep, AdminStep, BeginUnblocked, Pass, Refuse, OffenceWhileBlocked,
      StoreNumber, ListBlocks, SwitchOn, SwitchOff, ReloadSites, vars

\* A client is blocked only for refusals that reached the counter inside the
\* window of the one that completed the count, whatever the administrator does
\* to the numbers and however requests overtake each other.
THEOREM BlockEarned == Spec => BlockIsEarned
<1>1. Init => LogMatches
  BY DEF Init, LogMatches, InStep
<1>2. Spec => []LogMatches
  BY <1>1, LogStep, TypeCorrect, QuietAlways, PTL DEF Spec
<1>3. TypeOK /\ LogMatches /\ [Next]_vars =>
        [\A k \in Key :
           blocks'[k] > blocks[k] =>
              \E r \in Requests :
                 /\ req[r].step = "refused"
                 /\ req[r].key = k
                 /\ LET n == req[r].numbers
                        earlier == Len(log[k]) - (n.refusals - 1)
                    IN /\ earlier >= 0
                       /\ \A i \in earlier + 1 .. Len(log[k]) :
                            req[r].stamp - log[k][i].at < n.window]_vars
  BY EarnedStep
<1> QED
  BY <1>2, <1>3, TypeCorrect, PTL DEF Spec, BlockIsEarned

-----------------------------------------------------------------------------
(* No refusal is lost, but of a client that was dropped to make room. *)

\* A refusal that does not complete the count drops only times that have
\* expired by its clock reading: the queue is not long enough to be cut short.
LEMMA DropsExpired ==
  ASSUME NEW times \in Seq(Nat), NEW t \in Nat, NEW window \in Nat \ {0},
         NEW keep \in Nat \ {0},
         NEW r \in Record(times, t, window, keep), Len(r) < keep
  PROVE  \A j \in 1 .. Len(times) + 1 - Len(r) : t - times[j] >= window
<1>1. PICK m \in FirstKept(times, t, window) :
         r = Newest(Append(SubSeq(times, m, Len(times)), t), keep)
  BY DEF Record
<1>2. m \in 1 .. Len(times) + 1 /\ \A j \in 1 .. m - 1 : t - times[j] >= window
  BY <1>1 DEF FirstKept
<1> DEFINE kept == SubSeq(times, m, Len(times))
           all == Append(kept, t)
<1>3. kept \in Seq(Nat) /\ Len(kept) = Len(times) + 1 - m
  BY <1>2, FromHere
<1> HIDE DEF kept
<1>4. all \in Seq(Nat) /\ Len(all) = Len(times) + 2 - m
  <2>1. all \in Seq(Nat) /\ Len(all) = Len(kept) + 1
    BY <1>3
  <2> HIDE DEF all
  <2> QED
    BY <2>1, <1>2, <1>3
<1>5. r = Newest(all, keep)
  BY <1>1 DEF kept
<1> HIDE DEF all
<1>6. ~(Len(all) > keep)
  <2> SUFFICES ASSUME Len(all) > keep PROVE FALSE
    OBVIOUS
  <2>1. PICK n \in Nat, a \in Nat : n = Len(all) /\ a = n - keep + 1 /\ a \in 1 .. n + 1
    BY <1>4
  <2>2. r = SubSeq(all, a, n)
    BY <1>5, <2>1 DEF Newest
  <2>3. Len(r) = n + 1 - a
    BY <1>4, <2>1, <2>2, FromHere
  <2> QED
    BY <2>1, <2>3
<1>7. Len(r) = Len(times) + 2 - m
  BY <1>4, <1>5, <1>6 DEF Newest
<1>8. Len(times) + 1 - Len(r) = m - 1
  BY <1>2, <1>7
<1> QED
  BY <1>2, <1>8

\* What is not in the queue any more had left the window of an entry of the
\* history, and the queue is shorter than what the last entry asked for.
Spent(times, entries, t) ==
    /\ Len(entries) > 0 => Len(times) < entries[Len(entries)].numbers.refusals
    /\ \A i \in 1 .. Len(entries) - Len(times) :
          \E j \in 1 .. Len(entries) : t - entries[i].stamp >= entries[j].numbers.window

\* It is so of every client's queue.
LogSpent == \A k \in Key : Spent(events[k], log[k], now)

\* Time passing only takes entries further out of their window.
LEMMA SpentLater ==
  ASSUME NEW times \in Seq(Nat), NEW entries \in Seq(Counted), NEW t \in Nat,
         Spent(times, entries, t), NEW u \in Nat, t <= u
  PROVE  Spent(times, entries, u)
<1>1. ASSUME NEW i \in 1 .. Len(entries) - Len(times)
      PROVE  \E j \in 1 .. Len(entries) : u - entries[i].stamp >= entries[j].numbers.window
  <2>1. PICK j \in 1 .. Len(entries) : t - entries[i].stamp >= entries[j].numbers.window
    BY <1>1 DEF Spent
  <2>2. i \in 1 .. Len(entries)
    BY <1>1
  <2>3. entries[i].stamp \in Nat /\ entries[j].numbers.window \in Nat
    <3>1. entries[i] \in Counted /\ entries[j] \in Counted
      BY <2>2
    <3>2. entries[i].stamp \in Nat /\ entries[j].numbers \in Numbers
      BY <3>1 DEF Counted
    <3>3. entries[j].numbers.window \in Windows
      BY <3>2 DEF Numbers
    <3> QED
      BY <3>2, <3>3, NumbersAssumption
  <2>4. u - entries[i].stamp >= entries[j].numbers.window
    BY <2>1, <2>3
  <2> QED
    BY <2>4
<1> QED
  BY <1>1 DEF Spent

\* A refusal counted: the times it drops have left its own window.
LEMMA SpentCounted ==
  ASSUME NEW old \in Seq(Nat), NEW entries \in Seq(Counted), NEW now0 \in Nat,
         InStep(old, entries, now0), Spent(old, entries, now0),
         NEW t \in Nat, t <= now0, NEW num \in Numbers,
         num.window \in Nat \ {0}, num.refusals \in Nat \ {0},
         NEW times \in Record(old, t, num.window, num.refusals), Len(times) < num.refusals
  PROVE  Spent(times, Append(entries, [stamp |-> t, at |-> now0, numbers |-> num]), now0)
<1> DEFINE entry == [stamp |-> t, at |-> now0, numbers |-> num]
           all == Append(entries, entry)
<1>1. PICK len \in Nat, n \in Nat, d \in Nat :
        len = Len(entries) /\ n = Len(old) /\ d = Len(times)
  <2>1. times \in Seq(Nat)
    BY RecordResult
  <2> QED
    BY <2>1
<1>2. d <= n + 1 /\ n <= len /\ d > 0
  <2>1. Len(times) - 1 \in 0 .. num.refusals - 1 /\ Len(times) - 1 <= Len(old)
    BY RecordResult
  <2>2. Len(old) <= Len(entries)
    BY DEF InStep
  <2> QED
    BY <1>1, <2>1, <2>2
<1>3. \A j \in 1 .. n + 1 - d : t - old[j] >= num.window
  BY <1>1, DropsExpired
<1>4. /\ Len(all) = len + 1
      /\ all[len + 1] = entry
      /\ \A i \in 1 .. len : all[i] = entries[i]
  <2>1. /\ entries \in Seq([stamp : Nat, at : Nat, numbers : Numbers])
        /\ entry \in [stamp : Nat, at : Nat, numbers : Numbers]
    BY DEF Counted
  <2> HIDE DEF entry
  <2> QED
    BY <1>1, <2>1
<1>5. entry.numbers = num /\ entry.stamp = t
  OBVIOUS
<1> HIDE DEF all, entry
<1>6. Len(times) < all[Len(all)].numbers.refusals
  BY <1>4, <1>5
<1>7. ASSUME NEW i \in 1 .. len + 1 - d
      PROVE  \E j \in 1 .. len + 1 : now0 - all[i].stamp >= all[j].numbers.window
  <2>1. i \in 1 .. len /\ all[i] = entries[i]
    BY <1>1, <1>2, <1>4
  <2>2. CASE i <= len - n
    <3>1. i \in 1 .. Len(entries) - Len(old)
      BY <2>1, <2>2, <1>1
    <3>2. PICK j \in 1 .. Len(entries) : now0 - entries[i].stamp >= entries[j].numbers.window
      BY <3>1 DEF Spent
    <3>3. j \in 1 .. len + 1 /\ all[j] = entries[j]
      BY <1>1, <1>4
    <3> QED
      BY <2>1, <3>2, <3>3
  <2>3. CASE i > len - n
    <3>1. PICK j \in Nat : j = i - (len - n)
      BY <2>3, <1>2
    <3>2. j \in 1 .. n /\ j \in 1 .. n + 1 - d /\ len - n + j = i
      BY <3>1, <2>1, <2>3, <1>1, <1>2
    <3>3. old[j] = entries[i].stamp
      BY <3>2, <1>1 DEF InStep
    <3>4. t - entries[i].stamp >= num.window
      BY <3>2, <3>3, <1>3
    <3>5. entries[i].stamp \in Nat
      BY <2>1, <1>1, CountedEntry
    <3>6. now0 - entries[i].stamp >= num.window
      BY <3>4, <3>5
    <3>7. len + 1 \in 1 .. len + 1 /\ all[len + 1].numbers.window = num.window
      BY <1>1, <1>4, <1>5
    <3> QED
      BY <2>1, <3>6, <3>7
  <2> QED
    BY <2>2, <2>3, <2>1, <1>2
<1>8. Spent(times, all, now0)
  BY <1>1, <1>4, <1>6, <1>7 DEF Spent
<1> QED
  BY <1>8 DEF all, entry

\* Each step keeps LogSpent: a time leaves a queue by expiring, or with the history.
LEMMA SpentStep == TypeOK /\ QuietInv /\ LogMatches /\ LogSpent /\ [Next]_vars => LogSpent'
<1> SUFFICES ASSUME TypeOK, QuietInv, LogMatches, LogSpent, [Next]_vars PROVE LogSpent'
  OBVIOUS
<1>n. /\ now \in Nat /\ events \in [Key -> Seq(Nat)] /\ log \in [Key -> Seq(Counted)]
  BY DEF TypeOK
<1>k. ASSUME NEW k \in Key, now' \in Nat, now <= now',
             \/ events'[k] = events[k] /\ log'[k] = log[k]
             \/ events'[k] = <<>> /\ log'[k] = <<>>
      PROVE  Spent(events'[k], log'[k], now')
  <2>1. events[k] \in Seq(Nat) /\ log[k] \in Seq(Counted) /\ Spent(events[k], log[k], now)
    BY <1>n DEF LogSpent
  <2>2. Spent(events[k], log[k], now')
    BY <1>k, <1>n, <2>1, SpentLater
  <2>3. Spent(<<>>, <<>>, now')
    BY DEF Spent
  <2> QED
    BY <1>k, <2>2, <2>3
<1>1. ASSUME NEW r \in Requests, OffenceCounted(r) PROVE LogSpent'
  <2>1. /\ req[r].key \in Key /\ req[r].stamp \in Nat /\ req[r].stamp <= now
        /\ req[r].numbers.window \in Nat \ {0} /\ req[r].numbers.refusals \in Nat \ {0}
        /\ req[r].numbers \in Numbers
    BY <1>1, RefusedRequest DEF OffenceCounted, QuietInv
  <2>2. PICK x \in Key, t \in Nat, num \in Numbers :
          /\ x = req[r].key /\ t = req[r].stamp /\ t <= now /\ num = req[r].numbers
          /\ num.window \in Nat \ {0} /\ num.refusals \in Nat \ {0}
    BY <2>1, Zenon
  <2>3. PICK ev \in RoomFor(events, x, t, num.window) :
           \E times \in Record(ev[x], t, num.window, num.refusals) :
              Len(times) < num.refusals /\ Recorded(ev, x, times, t, num)
    BY <1>1, <2>2 DEF OffenceCounted, Recorded
  <2>4. PICK times \in Record(ev[x], t, num.window, num.refusals) :
           Len(times) < num.refusals /\ Recorded(ev, x, times, t, num)
    BY <2>3
  <2>5. now' = now
    BY <1>1 DEF OffenceCounted
  <2>6. ev \in [Key -> Seq(Nat)] /\ \A j \in Key : ev[j] = events[j] \/ ev[j] = <<>>
    <3>r. Thinned(events, ev)
      BY <2>3, <1>n, RoomForResult
    <3> QED
      BY <3>r DEF Thinned
  <2>7. ASSUME NEW k \in Key PROVE Spent(events'[k], log'[k], now')
    <3>1. CASE k = x
      <4> DEFINE counted == StillCounted(ev)[k]
      <4>1. /\ events'[k] = times
            /\ log'[k] = Append(counted, [stamp |-> t, at |-> now, numbers |-> num])
        BY <3>1, <2>4, <2>6, <1>n DEF Recorded, StillCounted
      <4>2. /\ log[k] \in Seq(Counted)
            /\ InStep(events[k], log[k], now) /\ Spent(events[k], log[k], now)
        BY <1>n DEF LogMatches, LogSpent
      <4>3. ev[k] \in Seq(Nat) /\ (ev[k] = events[k] \/ ev[k] = <<>>)
        BY <2>6
      <4>4. counted \in Seq(Counted) /\ InStep(ev[k], counted, now) /\ Spent(ev[k], counted, now)
        <5>1. counted = IF ev[k] = <<>> THEN <<>> ELSE log[k]
          BY DEF StillCounted
        <5>2. InStep(<<>>, <<>>, now) /\ Spent(<<>>, <<>>, now) /\ <<>> \in Seq(Counted)
          BY DEF InStep, Spent
        <5> HIDE DEF counted
        <5>3. CASE ev[k] = <<>>
          BY <5>1, <5>2, <5>3
        <5>4. CASE ev[k] # <<>>
          BY <5>1, <5>4, <4>2, <4>3
        <5> QED
          BY <5>3, <5>4
      <4> HIDE DEF counted
      <4>5. times \in Record(ev[k], t, num.window, num.refusals)
        BY <3>1, <2>4
      <4>6. Spent(times, Append(counted, [stamp |-> t, at |-> now, numbers |-> num]), now)
        BY <4>4, <4>5, <4>3, <1>n, <2>2, <2>4, SpentCounted
      <4> QED
        BY <4>1, <4>6, <2>5
    <3>2. CASE k # x
      <4>1. events'[k] = ev[k] /\ log'[k] = IF ev[k] = <<>> THEN <<>> ELSE log[k]
        BY <3>2, <2>4, <2>6, <1>n DEF Recorded, StillCounted
      <4>2. now' \in Nat /\ now <= now'
        BY <2>5, <1>n
      <4> QED
        BY <4>1, <4>2, <2>6, <1>k
    <3> QED
      BY <3>1, <3>2
  <2> QED
    BY <2>7 DEF LogSpent
<1>2. ASSUME NEW r \in Requests, OffenceBlocks(r) PROVE LogSpent'
  <2>1. req[r].key \in Key
    BY <1>2, RefusedRequest DEF OffenceBlocks
  <2>2. PICK x \in Key : x = req[r].key
    BY <2>1
  <2>3. PICK ev \in RoomFor(events, x, req[r].stamp, req[r].numbers.window) : Spends(ev, x)
    BY <1>2, <2>2 DEF OffenceBlocks, Spends
  <2>4. ev \in [Key -> Seq(Nat)] /\ \A j \in Key : ev[j] = events[j] \/ ev[j] = <<>>
    <3>1. /\ ev \in RoomFor(events, x, req[r].stamp, req[r].numbers.window)
          /\ events \in [Key -> Seq(Nat)]
      BY <2>3, <1>n
    <3>r. Thinned(events, ev)
      BY <3>1, RoomForResult
    <3> QED
      BY <3>r DEF Thinned
  <2>5. now' = now
    BY <1>2 DEF OffenceBlocks
  <2>6. ASSUME NEW k \in Key PROVE Spent(events'[k], log'[k], now')
    <3>1. \/ events'[k] = events[k] /\ log'[k] = log[k]
          \/ events'[k] = <<>> /\ log'[k] = <<>>
      BY <2>3, <2>4, <1>n DEF Spends, StillCounted
    <3>2. now' \in Nat /\ now <= now'
      BY <2>5, <1>n
    <3> QED
      BY <3>1, <3>2, <1>k
  <2> QED
    BY <2>6 DEF LogSpent
<1>3. CASE Tick
  BY <1>3, <1>n, <1>k DEF Tick, LogSpent
<1>4. ASSUME NEW k \in Key, Unblock(k) PROVE LogSpent'
  <2>1. ASSUME NEW j \in Key PROVE Spent(events'[j], log'[j], now')
    BY <1>4, <1>n, <1>k DEF Unblock
  <2> QED
    BY <2>1 DEF LogSpent
<1>5. ASSUME NEW p \in Policies, ForgetPolicy(p) PROVE LogSpent'
  <2>1. ASSUME NEW j \in Key PROVE Spent(events'[j], log'[j], now')
    BY <1>5, <1>n, <1>k DEF ForgetPolicy
  <2> QED
    BY <2>1 DEF LogSpent
<1>6. ASSUME UNCHANGED <<now, events, log>> PROVE LogSpent'
  BY <1>6 DEF LogSpent
<1> QED
  BY <1>1, <1>2, <1>3, <1>4, <1>5, <1>6
  DEF Next, RequestStep, AdminStep, BeginUnblocked, Pass, Refuse, OffenceWhileBlocked,
      StoreNumber, ListBlocks, SwitchOn, SwitchOff, ReloadSites, vars

\* Of a history in step with its queue, all of it under the same numbers, what
\* lies inside the window is still in the queue, and that is not full.
LEMMA FewInside ==
  ASSUME NEW times \in Seq(Nat), NEW entries \in Seq(Counted), NEW t \in Nat,
         Spent(times, entries, t), NEW num \in Numbers,
         \A i \in DOMAIN entries : entries[i].numbers = num
  PROVE  Cardinality({i \in DOMAIN entries : t - entries[i].stamp < num.window}) < num.refusals
<1> DEFINE inside == {i \in DOMAIN entries : t - entries[i].stamp < num.window}
<1>1. PICK len \in Nat, d \in Nat : len = Len(entries) /\ d = Len(times)
  OBVIOUS
<1>2. DOMAIN entries = 1 .. len
  BY <1>1
<1>3. num.refusals \in Nat \ {0} /\ num.window \in Nat
  <2>1. num.refusals \in Refusals /\ num.window \in Windows
    BY DEF Numbers
  <2>2. \A v \in Refusals : v \in Nat \ {0, 1}
    BY NumbersAssumption
  <2> QED
    BY <2>1, <2>2, NumbersAssumption
<1>4. CASE len = 0
  <2>1. inside = {}
    BY <1>2, <1>4
  <2> HIDE DEF inside
  <2>2. Cardinality(inside) < num.refusals
    BY <2>1, <1>3, FS_EmptySet
  <2> QED
    BY <2>2 DEF inside
<1>5. CASE len > 0
  <2>1. d < num.refusals
    <3>1. entries[len].numbers = num
      BY <1>2, <1>5
    <3> QED
      BY <3>1, <1>1, <1>5 DEF Spent
  <2>2. ASSUME NEW i \in 1 .. len, i <= len - d PROVE i \notin inside
    <3>1. PICK j \in 1 .. len : t - entries[i].stamp >= entries[j].numbers.window
      BY <2>2, <1>1 DEF Spent
    <3>2. entries[j].numbers = num
      BY <1>2
    <3>3. entries[i].stamp \in Nat
      BY <1>1, CountedEntry
    <3>4. ~(t - entries[i].stamp < num.window)
      BY <3>1, <3>2, <3>3, <1>3
    <3> QED
      BY <3>4
  <2> DEFINE kept == (len - d) + 1 .. len
  <2>3. inside \subseteq kept
    <3> SUFFICES ASSUME NEW i \in inside PROVE i \in kept
      OBVIOUS
    <3>1. i \in 1 .. len
      BY <1>2
    <3> HIDE DEF inside
    <3>2. ~(i <= len - d)
      BY <2>2, <3>1
    <3> QED
      BY <3>1, <3>2
  <2> HIDE DEF inside
  <2>4. IsFiniteSet(kept) /\ Cardinality(kept) = d
    <3>1. PICK a \in Int : a = (len - d) + 1
      OBVIOUS
    <3>2. IsFiniteSet(a .. len) /\ Cardinality(a .. len) = IF a > len THEN 0 ELSE len - a + 1
      BY FS_Interval
    <3>3. kept = a .. len
      BY <3>1
    <3>4. (IF a > len THEN 0 ELSE len - a + 1) = d
      BY <3>1
    <3> QED
      BY <3>2, <3>3, <3>4
  <2> HIDE DEF kept
  <2>5. Cardinality(inside) <= d /\ Cardinality(inside) \in Nat
    BY <2>3, <2>4, FS_Subset, FS_CardinalityType
  <2>6. Cardinality(inside) < num.refusals
    BY <2>1, <2>5, <1>3
  <2> QED
    BY <2>6 DEF inside
<1> QED
  BY <1>4, <1>5

\* No client that goes on being let through has been refused the full count of
\* times inside one window since it last started over: record() loses none of the
\* refusals it should count, whoever else is dropped to make room.
THEOREM NoneGoesUncounted == Spec => []NoneOverTheCount
<1>1. Init => LogMatches /\ LogSpent
  BY DEF Init, LogMatches, LogSpent, InStep, Spent
<1>2. Spec => []LogMatches
  BY <1>1, LogStep, TypeCorrect, QuietAlways, PTL DEF Spec
<1>3. TypeOK /\ LogSpent => NoneOverTheCount
  <2> SUFFICES ASSUME TypeOK, LogSpent, NEW k \in Key,
                      \A i \in DOMAIN log[k] : log[k][i].numbers = numbers
               PROVE  Cardinality({i \in DOMAIN log[k] : now - log[k][i].stamp < numbers.window})
                        < numbers.refusals
    BY DEF NoneOverTheCount
  <2>1. /\ events[k] \in Seq(Nat) /\ log[k] \in Seq(Counted) /\ now \in Nat
        /\ numbers \in Numbers /\ Spent(events[k], log[k], now)
    BY DEF TypeOK, LogSpent
  <2> QED
    BY <2>1, FewInside
<1> QED
  BY <1>1, <1>2, <1>3, SpentStep, TypeCorrect, QuietAlways, PTL DEF Spec

=============================================================================
