---------------------------- MODULE MicRingProofs ----------------------------
(***************************************************************************)
(* What holds of the microphone rings for any number of slots, addresses   *)
(* and sessions, any capacity and any sizes of messages.                   *)
(***************************************************************************)
EXTENDS MicRing, SequenceTheorems, WellFoundedInduction, TLAPS

\* Byte k of slot i.
At(i, k) == data[i][k]

\* A reader's backend exists, and no two live at once are one session.
Alive ==
    /\ \A a \in reading : at[a] # 0
    /\ \A a, b \in Address : at[a] = at[b] /\ at[a] # 0 => a = b

\* A byte was pushed by a session born before; if that session lives, then in
\* the slot of its address; if it does not, or its reader has ended, then that
\* reader ended without a reset.
SlotBytes(i) ==
    \A k \in DOMAIN data[i] :
        LET b == At(i, k) IN
        /\ b.session <= born /\ b.n <= pushed[b.session]
        /\ owner[i] # NoAddress
        /\ \A a \in Address : at[a] = b.session => owner[i] = a
        /\ b.session \in unreset \/ (owner[i] \in reading /\ b.session = at[owner[i]])

\* A session's bytes are in order, and in one slot.
BytesOrdered(i) ==
    \A k, l \in DOMAIN data[i] :
        k < l /\ At(i, k).session = At(i, l).session => At(i, k).n < At(i, l).n

BytesApart(i, j) ==
    \A k \in DOMAIN data[i], l \in DOMAIN data[j] :
        At(i, k).session # At(j, l).session

RingInv ==
    /\ RingTypeOK /\ data \in [Slot -> Seq(Byte)]
    /\ Alive
    /\ \A i \in Slot : SlotBytes(i) /\ BytesOrdered(i)
    /\ \A i, j \in Slot : i # j => BytesApart(i, j)
    /\ \A s \in Session : spent[s] <= pushed[s] /\ (s > born => pushed[s] = 0)
    /\ OneRingPerSession
    /\ HeardOwnOnly
    /\ RingIsNewest
    /\ NeverTwice
----------------------------------------------------------------------------
(* Numbers and sequences.                                                  *)

RingSizes ==
    /\ NoAddress \notin Address /\ Slots \in Nat \ {0} /\ Capacity \in Nat \ {0}
    /\ Chunk \subseteq Nat \ {0} /\ MaxSession \in Nat /\ MaxByte \in Nat

LEMMA RingSizesHold == RingSizes
  BY RingAssumption DEF RingAssumption, RingSizes

Less == OpToRel(<, Nat)

LEMMA LessIs == \A x, y \in Nat : <<x, y>> \in Less <=> x < y
  BY DEF Less, OpToRel

LEMMA LessIsWellFounded == IsWellFoundedOn(Less, Nat)
  BY NatLessThanWellFounded DEF Less

\* A bounded set of numbers that is not empty has a greatest one.
LEMMA GreatestIs ==
  ASSUME NEW N \in Nat, NEW S, S \subseteq 0..N, S # {}
  PROVE  Max(S) \in S /\ \A m \in S : Max(S) >= m
<1> DEFINE Gaps == {N - m : m \in S}
<1>2. Gaps \subseteq Nat /\ Gaps # {}
  <2>1. ASSUME NEW m \in S PROVE N - m \in Nat
    OBVIOUS
  <2>2. PICK m \in S : TRUE
    OBVIOUS
  <2>3. N - m \in Gaps
    OBVIOUS
  <2> QED
    BY <2>1, <2>3
<1>3. PICK g \in Gaps : \A y \in Gaps : <<y, g>> \notin Less
  <2> HIDE DEF Gaps
  <2> QED
    BY <1>2, LessIsWellFounded, WFMin
<1>4. PICK x \in S : g = N - x
  BY <1>3
<1>5. ASSUME NEW m \in S PROVE x >= m
  <2>1. N - m \in Gaps /\ N - m \in Nat /\ g \in Nat
    BY <1>2, <1>3
  <2>2. ~(N - m < g)
    BY <1>3, <2>1, LessIs
  <2> QED
    BY <1>4, <2>2
<1> QED
  BY <1>5 DEF Max

\* p is q without its first d bytes.
Shifted(p, q, d) ==
    /\ p \in Seq(Byte) /\ q \in Seq(Byte) /\ d \in 0..Len(q)
    /\ Len(p) \in Nat /\ Len(q) \in Nat /\ Len(p) = Len(q) - d
    /\ \A k \in 1..Len(p) : k + d \in 1..Len(q) /\ p[k] = q[k + d]
    /\ DOMAIN p = 1..Len(p) /\ DOMAIN q = 1..Len(q)

LEMMA ShiftedBy ==
  ASSUME NEW q \in Seq(Byte), NEW d \in 0..Len(q)
  PROVE  Shifted(SubSeq(q, d + 1, Len(q)), q, d)
<1> DEFINE p == SubSeq(q, d + 1, Len(q))
<1>1. Len(q) \in Nat /\ DOMAIN q = 1..Len(q) /\ \A k \in 1..Len(q) : q[k] \in Byte
  BY LenProperties
<1>2. d \in Nat /\ d + 1 \in Int /\ \A k \in (d + 1)..Len(q) : q[k] \in Byte
  BY <1>1
<1>3. /\ p \in Seq(Byte)
      /\ Len(p) = IF d + 1 <= Len(q) THEN Len(q) - (d + 1) + 1 ELSE 0
      /\ \A k \in 1..(Len(q) - (d + 1) + 1) : p[k] = q[d + 1 + k - 1]
  BY <1>1, <1>2, SubSeqProperties
<1> HIDE DEF p
<1>4. Len(p) \in Nat /\ DOMAIN p = 1..Len(p)
  BY <1>3, LenProperties
<1>5. Len(p) = Len(q) - d
  <2>1. d <= Len(q) /\ d \in Nat /\ Len(q) \in Nat
    BY <1>1
  <2> DEFINE lp == Len(p)
             lq == Len(q)
  <2>2. lp = IF d + 1 <= lq THEN lq - (d + 1) + 1 ELSE 0
    BY <1>3
  <2>3. lq \in Nat /\ d <= lq
    BY <2>1
  <2> HIDE DEF lp, lq
  <2>4. lp = lq - d
    BY <2>1, <2>2, <2>3
  <2> QED
    BY <2>4 DEF lp, lq
<1>6. ASSUME NEW k \in 1..Len(p) PROVE k + d \in 1..Len(q) /\ p[k] = q[k + d]
  BY <1>1, <1>2, <1>3, <1>5
<1>7. Shifted(p, q, d)
  BY <1>1, <1>3, <1>4, <1>5, <1>6 DEF Shifted
<1> QED
  BY <1>7 DEF p

LEMMA NewestIs ==
  ASSUME NEW q \in Seq(Byte)
  PROVE  (\E d \in 0..Len(q) : Shifted(Newest(q), q, d)) /\ Len(Newest(q)) <= Capacity
<1>1. Len(q) \in Nat /\ Capacity \in Nat \ {0}
  BY RingSizesHold, LenProperties DEF RingSizes
<1>2. CASE Len(q) > Capacity
  <2> DEFINE d == Len(q) - Capacity
  <2>1. d \in 0..Len(q) /\ Newest(q) = SubSeq(q, d + 1, Len(q))
    BY <1>1, <1>2 DEF Newest
  <2> HIDE DEF d
  <2>2. Shifted(Newest(q), q, d)
    BY <2>1, ShiftedBy
  <2>3. Len(Newest(q)) = Len(q) - d
    BY <2>2 DEF Shifted
  <2> QED
    BY <1>1, <2>1, <2>2, <2>3 DEF d
<1>3. CASE ~(Len(q) > Capacity)
  <2>1. Shifted(q, q, 0)
    BY <1>1, LenProperties DEF Shifted
  <2> QED
    BY <1>1, <1>3, <2>1 DEF Newest
<1> QED
  BY <1>2, <1>3

LEMMA SlotType ==
  ASSUME data \in [Slot -> Seq(Byte)], NEW i \in Slot
  PROVE  /\ Len(data[i]) \in Nat /\ DOMAIN data[i] = 1..Len(data[i])
         /\ \A k \in DOMAIN data[i] : /\ k \in Nat /\ At(i, k) \in Byte
                                      /\ At(i, k).session \in Session
                                      /\ At(i, k).n \in 1..MaxByte
<1>1. data[i] \in Seq(Byte)
  OBVIOUS
<1>2. Len(data[i]) \in Nat /\ DOMAIN data[i] = 1..Len(data[i])
      /\ \A k \in DOMAIN data[i] : data[i][k] \in Byte
  BY <1>1, LenProperties
<1> QED
  BY <1>2 DEF At, Byte
----------------------------------------------------------------------------
(* One lemma for each action.                                              *)

LEMMA InitInv == RingInit => RingInv
<1> SUFFICES ASSUME RingInit PROVE RingInv
  OBVIOUS
<1>1. /\ RingSizes /\ born = 0 /\ at = [a \in Address |-> 0] /\ reading = {}
      /\ owner = [i \in Slot |-> NoAddress] /\ data = [i \in Slot |-> <<>>]
      /\ pushed = [s \in Session |-> 0] /\ heard = [s \in Session |-> {}]
      /\ spent = [s \in Session |-> 0] /\ unreset = {}
  BY RingSizesHold DEF RingInit
<1>2. \A i \in Slot : data[i] = <<>> /\ DOMAIN data[i] = {} /\ Len(data[i]) = 0
  BY <1>1
<1>3. RingTypeOK /\ data \in [Slot -> Seq(Byte)]
  BY <1>1, <1>2 DEF RingTypeOK, RingSizes
<1>4. Alive /\ OneRingPerSession /\ HeardOwnOnly
  BY <1>1, <1>2 DEF Alive, OneRingPerSession, HeardOwnOnly
<1>5. \A i \in Slot : SlotBytes(i) /\ BytesOrdered(i) /\ \A j \in Slot : BytesApart(i, j)
  BY <1>2 DEF SlotBytes, BytesOrdered, BytesApart
<1>6. RingIsNewest /\ NeverTwice
  BY <1>2 DEF RingIsNewest, NeverTwice
<1>7. \A s \in Session : spent[s] <= pushed[s] /\ (s > born => pushed[s] = 0)
  BY <1>1
<1> QED
  BY <1>3, <1>4, <1>5, <1>6, <1>7 DEF RingInv

\* A new backend is a session no byte is of yet.
LEMMA CreateInv == ASSUME NEW a \in Address PROVE RingInv /\ Create(a) => RingInv'
<1> SUFFICES ASSUME RingInv, Create(a) PROVE RingInv'
  OBVIOUS
<1>1. /\ at[a] = 0 /\ born < MaxSession /\ born' = born + 1
      /\ at' = [at EXCEPT ![a] = born + 1] /\ reading' = reading \cup {a}
      /\ UNCHANGED <<owner, data, pushed, heard, spent, unreset>>
  BY DEF Create
<1>2. /\ born \in Nat /\ born' \in 0..MaxSession /\ at \in [Address -> 0..born]
      /\ reading \subseteq Address /\ owner \in [Slot -> Address \cup {NoAddress}]
      /\ MaxSession \in Nat
  BY <1>1, RingSizesHold DEF RingInv, RingTypeOK, RingSizes
<1>3. \A b \in Address : at'[b] = IF b = a THEN born + 1 ELSE at[b]
  BY <1>1, <1>2
<1>4. RingTypeOK' /\ data' \in [Slot -> Seq(Byte)]
  <2>1. at' \in [Address -> 0..born']
    BY <1>1, <1>2, <1>3
  <2> QED
    BY <1>1, <1>2, <2>1 DEF RingInv, RingTypeOK
<1>5. Alive'
  BY <1>1, <1>2, <1>3 DEF RingInv, Alive
<1>6. ASSUME NEW i \in Slot, NEW k \in DOMAIN data[i]
      PROVE  /\ At(i, k).session \in 1..born /\ owner[i] \in Address
             /\ At(i, k).n <= pushed[At(i, k).session]
             /\ \A c \in Address : at[c] = At(i, k).session => owner[i] = c
             /\ \/ At(i, k).session \in unreset
                \/ owner[i] \in reading /\ At(i, k).session = at[owner[i]]
  BY <1>2, SlotType DEF RingInv, SlotBytes, Session
<1>7. \A i \in Slot : SlotBytes(i)'
  <2> SUFFICES ASSUME NEW i \in Slot, NEW k \in DOMAIN data[i]
               PROVE  /\ At(i, k).session <= born'
                      /\ At(i, k).n <= pushed[At(i, k).session]
                      /\ owner[i] # NoAddress
                      /\ \A c \in Address : at'[c] = At(i, k).session => owner[i] = c
                      /\ \/ At(i, k).session \in unreset
                         \/ owner[i] \in reading' /\ At(i, k).session = at'[owner[i]]
    BY <1>1 DEF SlotBytes, At
  <2> QED
    <3>1. owner[i] \in reading => owner[i] # a
      BY <1>1 DEF RingInv, Alive
    <3> QED
      BY <1>1, <1>2, <1>3, <1>6, <3>1, RingSizesHold DEF RingSizes
<1>8. \A i \in Slot : BytesOrdered(i)' /\ \A j \in Slot : i # j => BytesApart(i, j)'
  BY <1>1 DEF RingInv, BytesOrdered, BytesApart, At
<1>9. \A s \in Session : spent'[s] <= pushed'[s] /\ (s > born' => pushed'[s] = 0)
  BY <1>1, <1>2 DEF RingInv, Session
<1>10. OneRingPerSession' /\ HeardOwnOnly' /\ NeverTwice'
  BY <1>1 DEF RingInv, OneRingPerSession, HeardOwnOnly, NeverTwice
<1>11. RingIsNewest'
  <2> SUFFICES ASSUME NEW i \in Slot, owner[i] # NoAddress, NEW k \in DOMAIN data[i],
                      data[i][k].session = at'[owner[i]]
               PROVE  data[i][k].n = pushed[data[i][k].session] - (Len(data[i]) - k)
    BY <1>1 DEF RingIsNewest
  <2>1. owner[i] # a
    BY <1>2, <1>3, <1>6 DEF At
  <2>2. data[i][k].session = at[owner[i]]
    BY <1>3, <1>6, <2>1
  <2> QED
    BY <2>2 DEF RingInv, RingIsNewest
<1> QED
  BY <1>1, <1>4, <1>5, <1>7, <1>8, <1>9, <1>10, <1>11 DEF RingInv

\* Its reader has ended: what it left is in `unreset` or nothing.
LEMMA DestroyInv == ASSUME NEW a \in Address PROVE RingInv /\ Destroy(a) => RingInv'
<1> SUFFICES ASSUME RingInv, Destroy(a) PROVE RingInv'
  OBVIOUS
<1>1. /\ a \notin reading /\ at' = [at EXCEPT ![a] = 0]
      /\ UNCHANGED <<born, reading, owner, data, pushed, heard, spent, unreset>>
  BY DEF Destroy
<1>2. /\ born \in Nat /\ at \in [Address -> 0..born] /\ reading \subseteq Address
      /\ owner \in [Slot -> Address \cup {NoAddress}]
  BY DEF RingInv, RingTypeOK
<1>3. \A b \in Address : at'[b] = IF b = a THEN 0 ELSE at[b]
  BY <1>1, <1>2
<1>4. RingTypeOK' /\ data' \in [Slot -> Seq(Byte)]
  BY <1>1, <1>2, <1>3 DEF RingInv, RingTypeOK
<1>5. Alive'
  BY <1>1, <1>2, <1>3 DEF RingInv, Alive
<1>6. ASSUME NEW i \in Slot, NEW k \in DOMAIN data[i]
      PROVE  /\ At(i, k).session \in Nat \ {0} /\ At(i, k).session <= born
             /\ owner[i] \in Address
             /\ At(i, k).n <= pushed[At(i, k).session]
             /\ \A c \in Address : at[c] = At(i, k).session => owner[i] = c
             /\ \/ At(i, k).session \in unreset
                \/ owner[i] \in reading /\ At(i, k).session = at[owner[i]]
  BY <1>2, SlotType DEF RingInv, SlotBytes, Session
<1>7. \A i \in Slot : SlotBytes(i)'
  <2> SUFFICES ASSUME NEW i \in Slot, NEW k \in DOMAIN data[i]
               PROVE  /\ At(i, k).session <= born
                      /\ At(i, k).n <= pushed[At(i, k).session]
                      /\ owner[i] # NoAddress
                      /\ \A c \in Address : at'[c] = At(i, k).session => owner[i] = c
                      /\ \/ At(i, k).session \in unreset
                         \/ owner[i] \in reading /\ At(i, k).session = at'[owner[i]]
    BY <1>1 DEF SlotBytes, At
  <2> QED
    BY <1>1, <1>2, <1>3, <1>6, RingSizesHold DEF RingSizes
<1>8. \A i \in Slot : BytesOrdered(i)' /\ \A j \in Slot : i # j => BytesApart(i, j)'
  BY <1>1 DEF RingInv, BytesOrdered, BytesApart, At
<1>9. /\ \A s \in Session : spent'[s] <= pushed'[s] /\ (s > born' => pushed'[s] = 0)
      /\ OneRingPerSession' /\ HeardOwnOnly' /\ NeverTwice'
  BY <1>1 DEF RingInv, OneRingPerSession, HeardOwnOnly, NeverTwice
<1>10. RingIsNewest'
  <2> SUFFICES ASSUME NEW i \in Slot, owner[i] # NoAddress, NEW k \in DOMAIN data[i],
                      data[i][k].session = at'[owner[i]]
               PROVE  data[i][k].n = pushed[data[i][k].session] - (Len(data[i]) - k)
    BY <1>1 DEF RingIsNewest
  <2>1. owner[i] # a
    BY <1>2, <1>3, <1>6 DEF At
  <2>2. data[i][k].session = at[owner[i]]
    BY <1>3, <1>6, <2>1
  <2> QED
    BY <2>2 DEF RingInv, RingIsNewest
<1> QED
  BY <1>1, <1>4, <1>5, <1>7, <1>8, <1>9, <1>10 DEF RingInv

LEMMA QuietInv == ASSUME NEW a \in Address PROVE RingInv /\ LeavesQuietly(a) => RingInv'
<1> SUFFICES ASSUME RingInv, LeavesQuietly(a) PROVE RingInv'
  OBVIOUS
<1>1. /\ a \in reading /\ unreset' = unreset \cup {at[a]} /\ reading' = reading \ {a}
      /\ UNCHANGED <<born, at, owner, data, pushed, heard, spent>>
  BY DEF LeavesQuietly
<1>2. /\ born \in 0..MaxSession /\ at \in [Address -> 0..born] /\ at[a] # 0
      /\ MaxSession \in Nat
  BY <1>1, RingSizesHold DEF RingInv, RingTypeOK, Alive, RingSizes
<1>3. RingTypeOK' /\ data' \in [Slot -> Seq(Byte)]
  <2>1. at[a] \in Session
    BY <1>2 DEF Session
  <2> QED
    BY <1>1, <2>1 DEF RingInv, RingTypeOK
<1>4. Alive'
  BY <1>1 DEF RingInv, Alive
<1>5. \A i \in Slot : SlotBytes(i)'
  <2> SUFFICES ASSUME NEW i \in Slot, NEW k \in DOMAIN data[i]
               PROVE  /\ At(i, k).session <= born
                      /\ At(i, k).n <= pushed[At(i, k).session]
                      /\ owner[i] # NoAddress
                      /\ \A c \in Address : at[c] = At(i, k).session => owner[i] = c
                      /\ \/ At(i, k).session \in unreset'
                         \/ owner[i] \in reading' /\ At(i, k).session = at[owner[i]]
    BY <1>1 DEF SlotBytes, At
  <2> QED
    BY <1>1 DEF RingInv, SlotBytes
<1>6. \A i \in Slot : BytesOrdered(i)' /\ \A j \in Slot : i # j => BytesApart(i, j)'
  BY <1>1 DEF RingInv, BytesOrdered, BytesApart, At
<1>7. /\ \A s \in Session : spent'[s] <= pushed'[s] /\ (s > born' => pushed'[s] = 0)
      /\ OneRingPerSession' /\ HeardOwnOnly' /\ NeverTwice' /\ RingIsNewest'
  BY <1>1 DEF RingInv, OneRingPerSession, HeardOwnOnly, NeverTwice, RingIsNewest
<1> QED
  BY <1>1, <1>3, <1>4, <1>5, <1>6, <1>7 DEF RingInv

\* The slot is emptied; no other slot is this address's.
LEMMA LostInv == ASSUME NEW a \in Address PROVE RingInv /\ Lost(a) => RingInv'
<1> SUFFICES ASSUME RingInv, Lost(a) PROVE RingInv'
  OBVIOUS
<1>1. /\ owner' = [i \in Slot |-> IF owner[i] = a THEN NoAddress ELSE owner[i]]
      /\ data' = [i \in Slot |-> IF owner[i] = a THEN <<>> ELSE data[i]]
      /\ reading' \in {reading, reading \ {a}}
      /\ UNCHANGED <<born, at, pushed, heard, spent, unreset>>
  BY DEF Lost, ResetSlots
<1>2. data \in [Slot -> Seq(Byte)] /\ owner \in [Slot -> Address \cup {NoAddress}]
  BY DEF RingInv, RingTypeOK
<1>3. ASSUME NEW i \in Slot, owner[i] = a
      PROVE  owner'[i] = NoAddress /\ data'[i] = <<>> /\ Len(data'[i]) = 0
             /\ DOMAIN data'[i] = {}
  BY <1>1, <1>3
<1>4. ASSUME NEW i \in Slot, owner[i] # a
      PROVE  owner'[i] = owner[i] /\ data'[i] = data[i]
  BY <1>1, <1>4
<1>5. RingTypeOK' /\ data' \in [Slot -> Seq(Byte)]
  <2>1. ASSUME NEW i \in Slot
        PROVE  /\ Len(data'[i]) <= Capacity
               /\ \A k \in DOMAIN data'[i] : data'[i][k] \in Byte
               /\ data'[i] \in Seq(Byte)
               /\ owner'[i] \in Address \cup {NoAddress}
    <3>1. CASE owner[i] = a
      <4>1. data'[i] = <<>> /\ Len(data'[i]) = 0 /\ DOMAIN data'[i] = {}
            /\ owner'[i] = NoAddress
        BY <1>3, <3>1
      <4>2. <<>> \in Seq(Byte) /\ 0 <= Capacity
        BY RingSizesHold DEF RingSizes
      <4> QED
        BY <4>1, <4>2
    <3>2. CASE owner[i] # a
      BY <1>2, <1>4, <3>2 DEF RingInv, RingTypeOK
    <3> QED
      BY <3>1, <3>2
  <2>2. /\ owner' \in [Slot -> Address \cup {NoAddress}] /\ data' \in [Slot -> Seq(Byte)]
    BY <1>1, <2>1
  <2>3. reading' \subseteq Address
    BY <1>1 DEF RingInv, RingTypeOK
  <2> QED
    BY <1>1, <2>1, <2>2, <2>3 DEF RingInv, RingTypeOK
<1>6. Alive'
  BY <1>1 DEF RingInv, Alive
<1>7. ASSUME NEW i \in Slot PROVE SlotBytes(i)' /\ BytesOrdered(i)'
  <2>1. CASE owner[i] = a
    BY <1>3, <2>1 DEF SlotBytes, BytesOrdered
  <2>2. CASE owner[i] # a
    <3>1. owner[i] \in reading => owner[i] \in reading'
      BY <1>1, <2>2
    <3>2. SlotBytes(i) /\ BytesOrdered(i)
      BY DEF RingInv
    <3>3. BytesOrdered(i)'
      BY <1>4, <2>2, <3>2 DEF BytesOrdered, At
    <3>4. ASSUME NEW k \in DOMAIN data'[i]
          PROVE  /\ data'[i][k].session <= born'
                 /\ data'[i][k].n <= pushed'[data'[i][k].session]
                 /\ owner'[i] # NoAddress
                 /\ \A c \in Address : at'[c] = data'[i][k].session => owner'[i] = c
                 /\ \/ data'[i][k].session \in unreset'
                    \/ owner'[i] \in reading' /\ data'[i][k].session = at'[owner'[i]]
      BY <1>1, <1>4, <2>2, <3>1, <3>2 DEF SlotBytes, At
    <3> QED
      BY <3>3, <3>4 DEF SlotBytes, At
  <2> QED
    BY <2>1, <2>2
<1>8. ASSUME NEW i \in Slot, NEW j \in Slot, i # j PROVE BytesApart(i, j)'
  <2>1. BytesApart(i, j)
    BY <1>8 DEF RingInv
  <2>2. CASE owner[i] = a \/ owner[j] = a
    BY <1>3, <2>2 DEF BytesApart
  <2>3. CASE owner[i] # a /\ owner[j] # a
    BY <1>4, <2>1, <2>3 DEF BytesApart, At
  <2> QED
    BY <2>2, <2>3
<1>9. /\ \A s \in Session : spent'[s] <= pushed'[s] /\ (s > born' => pushed'[s] = 0)
      /\ HeardOwnOnly'
  BY <1>1 DEF RingInv, HeardOwnOnly
<1>10. OneRingPerSession'
  <2>1. ASSUME NEW i \in Slot, NEW j \in Slot, owner'[i] = owner'[j], owner'[i] # NoAddress
        PROVE  i = j
    <3>1. owner[i] # a /\ owner[j] # a
      BY <1>3, <2>1
    <3> QED
      BY <1>4, <2>1, <3>1 DEF RingInv, OneRingPerSession
  <2>2. ASSUME NEW i \in Slot, owner'[i] = NoAddress PROVE data'[i] = <<>>
    BY <1>3, <1>4, <2>2 DEF RingInv, OneRingPerSession
  <2> QED
    BY <2>1, <2>2 DEF OneRingPerSession
<1>11. RingIsNewest' /\ NeverTwice'
  <2>1. ASSUME NEW i \in Slot, NEW k \in DOMAIN data'[i]
        PROVE  /\ owner'[i] = owner[i] /\ data'[i] = data[i]
    BY <1>3, <1>4
  <2>2. ASSUME NEW i \in Slot, NEW k \in DOMAIN data'[i]
        PROVE  /\ data'[i][k].n > spent'[data'[i][k].session]
               /\ owner'[i] # NoAddress /\ data'[i][k].session = at'[owner'[i]]
                    => data'[i][k].n = pushed'[data'[i][k].session] - (Len(data'[i]) - k)
    BY <1>1, <2>1 DEF RingInv, RingIsNewest, NeverTwice
  <2> QED
    BY <2>2 DEF RingIsNewest, NeverTwice
<1> QED
  BY <1>5, <1>6, <1>7, <1>8, <1>9, <1>10, <1>11 DEF RingInv

LEMMA StutterInv == RingInv /\ UNCHANGED ringVars => RingInv'
<1> SUFFICES ASSUME RingInv, UNCHANGED ringVars PROVE RingInv'
  OBVIOUS
<1>1. UNCHANGED <<born, at, reading, owner, data, pushed, heard, spent, unreset>>
  BY DEF ringVars
<1>2. RingTypeOK' /\ data' \in [Slot -> Seq(Byte)]
  BY <1>1 DEF RingInv, RingTypeOK
<1>3. /\ Alive' /\ \A i \in Slot : SlotBytes(i)' /\ BytesOrdered(i)'
      /\ \A i, j \in Slot : i # j => BytesApart(i, j)'
  BY <1>1 DEF RingInv, Alive, SlotBytes, BytesOrdered, BytesApart, At
<1>4. OneRingPerSession' /\ HeardOwnOnly' /\ RingIsNewest' /\ NeverTwice'
  BY <1>1 DEF RingInv, OneRingPerSession, HeardOwnOnly, RingIsNewest, NeverTwice
<1> QED
  BY <1>1, <1>2, <1>3, <1>4 DEF RingInv

\* What RingInv says of one byte.
LEMMA ByteIs ==
  ASSUME RingInv, NEW i \in Slot, NEW k \in DOMAIN data[i]
  PROVE  /\ k \in 1..Len(data[i]) /\ Len(data[i]) \in Nat
         /\ At(i, k) \in Byte /\ At(i, k).session \in Session /\ At(i, k).n \in Nat
         /\ At(i, k).session <= born /\ At(i, k).n <= pushed[At(i, k).session]
         /\ At(i, k).n > spent[At(i, k).session]
         /\ owner[i] \in Address
         /\ \A c \in Address : at[c] = At(i, k).session => owner[i] = c
         /\ \/ At(i, k).session \in unreset
            \/ owner[i] \in reading /\ At(i, k).session = at[owner[i]]
         /\ At(i, k).session = at[owner[i]] =>
              At(i, k).n = pushed[At(i, k).session] - (Len(data[i]) - k)
<1>1. data \in [Slot -> Seq(Byte)] /\ owner \in [Slot -> Address \cup {NoAddress}]
  BY DEF RingInv, RingTypeOK
<1>2. SlotBytes(i) /\ RingIsNewest /\ NeverTwice
  BY DEF RingInv
<1> QED
  BY <1>1, <1>2, SlotType DEF SlotBytes, RingIsNewest, NeverTwice, At

\* A push with every slot taken drops the bytes, so a number is skipped.
LEMMA RefusedInv ==
  ASSUME NEW a \in Address, NEW n \in Chunk, RingInv, Push(a, n),
         SlotFor(a) = {}, UNCHANGED <<owner, data>>
  PROVE  RingInv'
<1> DEFINE s == at[a]
<1>1. /\ a \in reading /\ pushed[s] + n <= MaxByte
      /\ pushed' = [pushed EXCEPT ![s] = @ + n]
      /\ UNCHANGED <<born, at, reading, heard, spent, unreset, owner, data>>
  BY DEF Push
<1>2. /\ n \in Nat \ {0} /\ MaxByte \in Nat /\ MaxSession \in Nat
      /\ born \in 0..MaxSession /\ at \in [Address -> 0..born] /\ s # 0
      /\ pushed \in [Session -> 0..MaxByte] /\ spent \in [Session -> 0..MaxByte]
  BY <1>1, RingSizesHold DEF RingInv, RingTypeOK, Alive, RingSizes
<1>3. s \in Session /\ s <= born /\ born \in Nat /\ s \in Nat
  BY <1>2 DEF Session
<1> HIDE DEF s
<1>4. \A x \in Session : pushed'[x] = IF x = s THEN pushed[s] + n ELSE pushed[x]
  BY <1>1, <1>2
<1>5. ASSUME NEW i \in Slot, owner[i] = a PROVE FALSE
  <2>1. \A j \in Slot : owner[j] = a => j = i
    BY <1>5, RingSizesHold DEF RingInv, OneRingPerSession, RingSizes
  <2>2. i \in SlotFor(a)
    BY <1>5, <2>1 DEF SlotFor, Slot
  <2> QED
    BY <2>2
<1>6. \A i \in Slot : \A k \in DOMAIN data[i] : At(i, k).session # s
  BY <1>5, ByteIs DEF s
<1>7. RingTypeOK' /\ data' \in [Slot -> Seq(Byte)]
  <2>1. pushed' \in [Session -> 0..MaxByte]
    BY <1>1, <1>2, <1>3
  <2> QED
    BY <1>1, <2>1 DEF RingInv, RingTypeOK
<1>8. Alive'
  BY <1>1 DEF RingInv, Alive
<1>9. ASSUME NEW i \in Slot PROVE SlotBytes(i)' /\ BytesOrdered(i)'
  <2>1. BytesOrdered(i)'
    BY <1>1 DEF RingInv, BytesOrdered, At
  <2>2. \A k \in DOMAIN data[i] : pushed'[At(i, k).session] = pushed[At(i, k).session]
    BY <1>4, <1>6, ByteIs
  <2>3. SlotBytes(i)
    BY DEF RingInv
  <2> QED
    BY <1>1, <2>1, <2>2, <2>3 DEF SlotBytes, At
<1>10. \A i, j \in Slot : i # j => BytesApart(i, j)'
  BY <1>1 DEF RingInv, BytesApart, At
<1>11. \A x \in Session : spent'[x] <= pushed'[x] /\ (x > born' => pushed'[x] = 0)
  BY <1>1, <1>2, <1>3, <1>4 DEF RingInv, Session
<1>12. OneRingPerSession' /\ HeardOwnOnly' /\ NeverTwice'
  BY <1>1 DEF RingInv, OneRingPerSession, HeardOwnOnly, NeverTwice
<1>13. RingIsNewest'
  <2> SUFFICES ASSUME NEW i \in Slot, NEW k \in DOMAIN data[i],
                      data[i][k].session = at[owner[i]]
               PROVE  data[i][k].n = pushed'[data[i][k].session] - (Len(data[i]) - k)
    BY <1>1 DEF RingIsNewest
  <2> QED
    BY <1>4, <1>6, ByteIs DEF At
<1> QED
  BY <1>1, <1>7, <1>8, <1>9, <1>10, <1>11, <1>12, <1>13 DEF RingInv

\* The bytes go behind those of the slot, whose front may be dropped.
LEMMA StoredInv ==
  ASSUME NEW a \in Address, NEW n \in Chunk, RingInv, Push(a, n), NEW i \in SlotFor(a),
         owner' = [owner EXCEPT ![i] = a],
         data' = [data EXCEPT ![i] =
             Newest(@ \o [k \in 1..n |-> [session |-> at[a], n |-> pushed[at[a]] + k]])]
  PROVE  RingInv'
<1> DEFINE s == at[a]
           bytes == [k \in 1..n |-> [session |-> s, n |-> pushed[s] + k]]
           q == data[i] \o bytes
           p == Newest(q)
           L == Len(data[i])
<1>1. /\ a \in reading /\ pushed[s] + n <= MaxByte
      /\ pushed' = [pushed EXCEPT ![s] = @ + n]
      /\ UNCHANGED <<born, at, reading, heard, spent, unreset>>
  BY DEF Push
<1>2. /\ n \in Nat \ {0} /\ MaxByte \in Nat /\ MaxSession \in Nat
      /\ NoAddress \notin Address
      /\ born \in 0..MaxSession /\ at \in [Address -> 0..born] /\ s # 0
      /\ pushed \in [Session -> 0..MaxByte] /\ spent \in [Session -> 0..MaxByte]
      /\ owner \in [Slot -> Address \cup {NoAddress}] /\ data \in [Slot -> Seq(Byte)]
  BY <1>1, RingSizesHold DEF RingInv, RingTypeOK, Alive, RingSizes
<1>3. /\ s \in Session /\ s <= born /\ born \in Nat /\ s \in Nat
      /\ pushed[s] \in Nat /\ spent[s] <= pushed[s]
  BY <1>2 DEF Session, RingInv
<1>4. \A x \in Session : pushed'[x] = IF x = s THEN pushed[s] + n ELSE pushed[x]
  BY <1>1, <1>2
<1>5. /\ i \in Slot /\ \A j \in Slot : owner[j] = a => j = i
      /\ owner[i] = a \/ (owner[i] = NoAddress /\ data[i] = <<>>)
  BY <1>2 DEF SlotFor, FirstFree, RingInv, OneRingPerSession
<1>6. /\ bytes \in Seq(Byte) /\ Len(bytes) = n
      /\ \A k \in 1..n : bytes[k] = [session |-> s, n |-> pushed[s] + k]
  <2>1. \A k \in 1..n : [session |-> s, n |-> pushed[s] + k] \in Byte
    BY <1>1, <1>2, <1>3 DEF Byte
  <2> QED
    BY <1>2, <2>1
<1> HIDE DEF s, bytes
<1>7. /\ q \in Seq(Byte) /\ Len(q) = L + n /\ L \in Nat /\ DOMAIN data[i] = 1..L
      /\ \A m \in 1..(L + n) : q[m] = IF m <= L THEN data[i][m] ELSE bytes[m - L]
  <2>1. data[i] \in Seq(Byte) /\ L \in Nat /\ DOMAIN data[i] = 1..L
    BY <1>2, <1>5, SlotType
  <2>2. /\ q \in Seq(Byte) /\ Len(q) = Len(data[i]) + Len(bytes)
        /\ \A m \in 1..(Len(data[i]) + Len(bytes)) :
              q[m] = IF m <= Len(data[i]) THEN data[i][m] ELSE bytes[m - Len(data[i])]
    BY <1>6, <2>1, ConcatProperties
  <2> QED
    BY <1>6, <2>1, <2>2
<1> HIDE DEF q, L
<1>8. ASSUME NEW m \in 1..(L + n)
      PROVE  \/ m \in 1..L /\ q[m] = data[i][m]
             \/ /\ m > L
                /\ q[m].session = s /\ q[m].n = pushed[s] + (m - L)
  <2>1. CASE m <= L
    BY <1>2, <1>7, <2>1
  <2>2. CASE m > L
    <3>1. m - L \in 1..n /\ q[m] = bytes[m - L]
      BY <1>2, <1>7, <2>2
    <3> QED
      BY <1>6, <2>2, <3>1
  <2> QED
    BY <1>2, <1>7, <2>1, <2>2
<1>9. PICK d \in 0..Len(q) : Shifted(p, q, d)
  BY <1>7, NewestIs
<1>10. Len(p) <= Capacity
  BY <1>7, NewestIs
<1>11. /\ owner'[i] = a /\ data'[i] = p
       /\ \A j \in Slot : j # i => owner'[j] = owner[j] /\ data'[j] = data[j]
  <2>1. data' = [data EXCEPT ![i] = p]
    BY DEF p, q, bytes, s
  <2> QED
    BY <1>2, <1>5, <2>1
<1> HIDE DEF p
<1>12. /\ d \in Nat /\ Len(p) \in Nat /\ Len(p) = L + n - d /\ DOMAIN p = 1..Len(p)
       /\ p \in Seq(Byte)
       /\ \A k \in 1..Len(p) : k + d \in 1..(L + n) /\ p[k] = q[k + d] /\ p[k] \in Byte
  <2>1. /\ p \in Seq(Byte) /\ d \in 0..Len(q) /\ Len(p) \in Nat
        /\ Len(p) = Len(q) - d /\ DOMAIN p = 1..Len(p)
        /\ \A k \in 1..Len(p) : k + d \in 1..Len(q) /\ p[k] = q[k + d]
    BY <1>9 DEF Shifted
  <2>2. \A k \in 1..Len(p) : p[k] \in Byte
    BY <2>1
  <2> QED
    BY <1>2, <1>7, <2>1, <2>2
\* A byte of the new slot is an old one, or one of the message.
<1> DEFINE Old(k) == k + d \in 1..L /\ p[k] = data[i][k + d] /\ owner[i] = a
           New(k) == /\ k + d > L
                     /\ p[k].session = s /\ p[k].n = pushed[s] + ((k + d) - L)
<1>13. ASSUME NEW k \in 1..Len(p) PROVE Old(k) \/ New(k)
  <2>1. k + d \in 1..(L + n) /\ p[k] = q[k + d]
    BY <1>12
  <2>2. k + d \in 1..L => owner[i] = a
    BY <1>5, <1>7
  <2> DEFINE m == k + d
  <2>3. m \in 1..(L + n) /\ p[k] = q[m]
    BY <2>1
  <2> HIDE DEF m
  <2>4. \/ m \in 1..L /\ q[m] = data[i][m]
        \/ m > L /\ q[m].session = s /\ q[m].n = pushed[s] + (m - L)
    BY <1>8, <2>3
  <2>5. CASE m \in 1..L /\ q[m] = data[i][m]
    <3>1. k + d \in 1..L /\ p[k] = data[i][k + d] /\ owner[i] = a
      BY <2>2, <2>3, <2>5 DEF m
    <3> QED
      BY <3>1
  <2>6. CASE m > L /\ q[m].session = s /\ q[m].n = pushed[s] + (m - L)
    <3>1. k + d > L /\ p[k].session = s /\ p[k].n = pushed[s] + ((k + d) - L)
      BY <2>3, <2>6, Zenon DEF m
    <3> QED
      BY <3>1
  <2> QED
    BY <2>4, <2>5, <2>6
<1> HIDE DEF Old, New
<1>14. ASSUME NEW j \in Slot, j # i, NEW k \in DOMAIN data[j]
       PROVE  At(j, k).session # s /\ At(j, k).session \in Session
              /\ pushed'[At(j, k).session] = pushed[At(j, k).session]
  BY <1>4, <1>5, <1>14, ByteIs DEF s
<1>15. RingTypeOK' /\ data' \in [Slot -> Seq(Byte)]
  <2>1. pushed' \in [Session -> 0..MaxByte]
    BY <1>1, <1>2, <1>3
  <2>2. owner' \in [Slot -> Address \cup {NoAddress}]
    BY <1>2
  <2>3. ASSUME NEW j \in Slot
        PROVE  /\ data'[j] \in Seq(Byte) /\ Len(data'[j]) <= Capacity
               /\ \A k \in DOMAIN data'[j] : data'[j][k] \in Byte
    <3>1. CASE j = i
      BY <1>10, <1>11, <1>12, <3>1
    <3>2. CASE j # i
      BY <1>2, <1>11, <3>2 DEF RingInv, RingTypeOK
    <3> QED
      BY <3>1, <3>2
  <2>4. data' \in [Slot -> Seq(Byte)]
    BY <1>2, <2>3
  <2> QED
    BY <1>1, <2>1, <2>2, <2>3, <2>4 DEF RingInv, RingTypeOK
<1>16. Alive'
  BY <1>1 DEF RingInv, Alive
<1>17. \A x \in Session : spent'[x] <= pushed'[x] /\ (x > born' => pushed'[x] = 0)
  BY <1>1, <1>2, <1>3, <1>4 DEF RingInv, Session
<1>18. OneRingPerSession' /\ HeardOwnOnly'
  <2>1. ASSUME NEW j \in Slot, NEW l \in Slot, owner'[j] = owner'[l], owner'[j] # NoAddress
        PROVE  j = l
    BY <1>5, <1>11, <2>1 DEF RingInv, OneRingPerSession
  <2>2. ASSUME NEW j \in Slot, owner'[j] = NoAddress PROVE data'[j] = <<>>
    BY <1>2, <1>5, <1>11, <2>2 DEF RingInv, OneRingPerSession
  <2> QED
    BY <1>1, <2>1, <2>2 DEF RingInv, OneRingPerSession, HeardOwnOnly
<1>19. ASSUME NEW k \in 1..Len(p)
       PROVE  /\ p[k].session \in Session /\ p[k].session <= born
              /\ p[k].n <= pushed'[p[k].session] /\ p[k].n > spent[p[k].session]
              /\ \A c \in Address : at[c] = p[k].session => c = a
              /\ p[k].session \in unreset \/ p[k].session = s
              /\ p[k].session = s => p[k].n = pushed'[s] - (Len(p) - k)
  <2>1. CASE Old(k)
    <3>1. k + d \in DOMAIN data[i] /\ p[k] = At(i, k + d) /\ owner[i] = a
      BY <1>7, <2>1 DEF Old, At
    <3>2. /\ p[k].session \in Session /\ p[k].n \in Nat /\ p[k].session <= born
          /\ p[k].n <= pushed[p[k].session] /\ p[k].n > spent[p[k].session]
          /\ \A c \in Address : at[c] = p[k].session => c = a
          /\ p[k].session \in unreset \/ p[k].session = s
          /\ p[k].session = s => p[k].n = pushed[s] - (L - (k + d))
      BY <1>5, <3>1, ByteIs DEF s, L
    <3>3. p[k].n <= pushed'[p[k].session]
      <4>1. CASE p[k].session = s
        BY <1>2, <1>3, <1>4, <3>2, <4>1
      <4>2. CASE p[k].session # s
        BY <1>4, <3>2, <4>2
      <4> QED
        BY <4>1, <4>2
    <3> QED
      BY <1>2, <1>3, <1>4, <1>7, <1>12, <3>2, <3>3
  <2>2. CASE New(k)
    <3>1. p[k].session = s /\ p[k].n = pushed[s] + ((k + d) - L)
      BY <2>2 DEF New
    <3>2. pushed'[s] = pushed[s] + n /\ \A c \in Address : at[c] = s => c = a
      BY <1>2, <1>3, <1>4 DEF s, RingInv, Alive
    <3>3. spent[s] \in Nat /\ pushed[s] \in Nat
      BY <1>2, <1>3
    <3> QED
      <4>1. /\ k \in Nat /\ d \in Nat /\ L \in Nat /\ n \in Nat /\ k <= Len(p)
            /\ Len(p) = L + n - d /\ k + d > L
        BY <1>2, <1>7, <1>12, <2>2 DEF New
      <4> QED
        BY <1>3, <3>1, <3>2, <3>3, <4>1, SMTT(30)
  <2> QED
    BY <1>13, <2>1, <2>2
<1>20. ASSUME NEW j \in Slot PROVE SlotBytes(j)'
  <2>1. CASE j = i
    <3>1. owner'[j] = a /\ data'[j] = p /\ a # NoAddress /\ a \in reading'
      BY <1>1, <1>2, <1>11, <2>1
    <3>2. at' = at /\ born' = born /\ unreset' = unreset /\ at[a] = s
      BY <1>1 DEF s
    <3>3. ASSUME NEW k \in 1..Len(p)
          PROVE  /\ p[k].session <= born' /\ p[k].n <= pushed'[p[k].session]
                 /\ owner'[j] # NoAddress
                 /\ \A c \in Address : at'[c] = p[k].session => owner'[j] = c
                 /\ \/ p[k].session \in unreset'
                    \/ owner'[j] \in reading' /\ p[k].session = at'[owner'[j]]
      BY <1>19, <3>1, <3>2
    <3> QED
      BY <1>12, <3>1, <3>3 DEF SlotBytes, At
  <2>2. CASE j # i
    <3>1. owner'[j] = owner[j] /\ data'[j] = data[j]
      BY <1>11, <2>2
    <3>2. SlotBytes(j)
      BY DEF RingInv
    <3> QED
      BY <1>1, <1>14, <2>2, <3>1, <3>2 DEF SlotBytes, At
  <2> QED
    BY <2>1, <2>2
<1>21. ASSUME NEW j \in Slot PROVE BytesOrdered(j)'
  <2>1. CASE j = i
    <3>1. ASSUME NEW k \in 1..Len(p), NEW l \in 1..Len(p), k < l,
                 p[k].session = p[l].session
          PROVE  p[k].n < p[l].n
      <4>1. CASE p[k].session = s
        <5>1. p[k].n = pushed'[s] - (Len(p) - k)
          BY <1>19, <4>1
        <5>2. p[l].n = pushed'[s] - (Len(p) - l)
          BY <1>19, <3>1, <4>1
        <5>3. pushed'[s] \in Nat /\ Len(p) \in Nat /\ k \in Nat /\ l \in Nat
          BY <1>2, <1>3, <1>4, <1>12
        <5> QED
          BY <3>1, <5>1, <5>2, <5>3
      <4>2. CASE p[k].session # s
        <5>1. Old(k) /\ Old(l)
          BY <1>13, <3>1, <4>2 DEF New
        <5>2. /\ k + d \in DOMAIN data[i] /\ l + d \in DOMAIN data[i]
              /\ k + d < l + d /\ At(i, k + d) = p[k] /\ At(i, l + d) = p[l]
          BY <1>7, <1>12, <3>1, <5>1 DEF Old, At
        <5>3. BytesOrdered(i)
          BY <1>5 DEF RingInv
        <5> QED
          BY <3>1, <5>2, <5>3 DEF BytesOrdered
      <4> QED
        BY <4>1, <4>2
    <3>2. data'[j] = p /\ DOMAIN p = 1..Len(p)
      BY <1>11, <1>12, <2>1
    <3> QED
      BY <3>1, <3>2 DEF BytesOrdered, At
  <2>2. CASE j # i
    BY <1>11, <2>2 DEF RingInv, BytesOrdered, At
  <2> QED
    BY <2>1, <2>2
\* No other slot has a byte of this session, nor of one this slot had a byte of.
<1>22. ASSUME NEW j \in Slot, j # i, NEW k \in 1..Len(p), NEW l \in DOMAIN data[j]
       PROVE  p[k].session # data[j][l].session
  <2>1. CASE p[k].session = s
    BY <1>14, <1>22, <2>1 DEF At
  <2>2. CASE p[k].session # s
    <3>1. k + d \in DOMAIN data[i] /\ p[k] = data[i][k + d]
      BY <1>7, <1>13, <2>2 DEF Old, New
    <3>2. BytesApart(i, j)
      BY <1>5, <1>22 DEF RingInv
    <3> QED
      BY <3>1, <3>2 DEF BytesApart, At
  <2> QED
    BY <2>1, <2>2
<1>23. ASSUME NEW j \in Slot, NEW l \in Slot, j # l PROVE BytesApart(j, l)'
  <2>1. CASE j = i
    BY <1>11, <1>12, <1>22, <1>23, <2>1 DEF BytesApart, At
  <2>2. CASE l = i
    BY <1>11, <1>12, <1>22, <1>23, <2>2 DEF BytesApart, At
  <2>3. CASE j # i /\ l # i
    BY <1>11, <1>23, <2>3 DEF RingInv, BytesApart, At
  <2> QED
    BY <2>1, <2>2, <2>3
<1>24. ASSUME NEW j \in Slot, NEW k \in DOMAIN data'[j]
       PROVE  /\ data'[j][k].n > spent'[data'[j][k].session]
              /\ data'[j][k].session = at'[owner'[j]] =>
                   data'[j][k].n = pushed'[data'[j][k].session] - (Len(data'[j]) - k)
  <2>1. CASE j = i
    <3>1. owner'[j] = a /\ data'[j] = p /\ at'[a] = s /\ spent' = spent
      BY <1>1, <1>11, <2>1 DEF s
    <3> QED
      BY <1>12, <1>19, <3>1
  <2>2. CASE j # i
    <3>1. owner'[j] = owner[j] /\ data'[j] = data[j] /\ at' = at /\ spent' = spent
      BY <1>1, <1>11, <2>2
    <3> QED
      BY <1>14, <2>2, <3>1, ByteIs DEF At
  <2> QED
    BY <2>1, <2>2
<1>25. RingIsNewest' /\ NeverTwice'
  BY <1>24 DEF RingIsNewest, NeverTwice
<1> QED
  BY <1>15, <1>16, <1>17, <1>18, <1>20, <1>21, <1>23, <1>25 DEF RingInv

\* What the device is given is the front of its own slot, older than the rest.
LEMMA PopInv ==
  ASSUME NEW a \in Address, NEW want \in Chunk PROVE RingInv /\ Pop(a, want) => RingInv'
<1> SUFFICES ASSUME RingInv, Pop(a, want) PROVE RingInv'
  OBVIOUS
<1> DEFINE s == at[a]
<1>1. /\ s # 0 /\ UNCHANGED <<born, at, reading, owner, pushed, unreset>>
      /\ \E i \in OwnSlot(a) :
           LET taken == IF Len(data[i]) < want THEN Len(data[i]) ELSE want
               bytes == {data[i][k] : k \in 1..taken}
           IN
           /\ heard' = [heard EXCEPT ![s] = @ \cup {b.session : b \in bytes}]
           /\ spent' = [x \in Session |->
                          Max({spent[x]} \cup {b.n : b \in {c \in bytes : c.session = x}})]
           /\ data' = [data EXCEPT ![i] = Rest(@, taken)]
  BY DEF Pop
<1>2. PICK i \in OwnSlot(a) :
           LET taken == IF Len(data[i]) < want THEN Len(data[i]) ELSE want
               bytes == {data[i][k] : k \in 1..taken}
           IN
           /\ heard' = [heard EXCEPT ![s] = @ \cup {b.session : b \in bytes}]
           /\ spent' = [x \in Session |->
                          Max({spent[x]} \cup {b.n : b \in {c \in bytes : c.session = x}})]
           /\ data' = [data EXCEPT ![i] = Rest(@, taken)]
  BY <1>1
<1> DEFINE L == Len(data[i])
           d == IF L < want THEN L ELSE want
           bytes == {data[i][k] : k \in 1..d}
           Given(x) == {spent[x]} \cup {b.n : b \in {c \in bytes : c.session = x}}
           p == Rest(data[i], d)
<1>3. /\ heard' = [heard EXCEPT ![s] = @ \cup {b.session : b \in bytes}]
      /\ spent' = [x \in Session |-> Max(Given(x))]
      /\ data' = [data EXCEPT ![i] = p]
  BY <1>2
<1>4. /\ i \in Slot /\ owner[i] = a /\ want \in Nat \ {0} /\ MaxByte \in Nat
      /\ MaxSession \in Nat /\ NoAddress \notin Address /\ Capacity \in Nat
      /\ data \in [Slot -> Seq(Byte)] /\ owner \in [Slot -> Address \cup {NoAddress}]
      /\ heard \in [Session -> SUBSET Session] /\ born \in 0..MaxSession
      /\ pushed \in [Session -> 0..MaxByte] /\ spent \in [Session -> 0..MaxByte]
      /\ s \in Session /\ L \in Nat /\ DOMAIN data[i] = 1..L /\ data[i] \in Seq(Byte)
      /\ L <= Capacity
  <2>1. /\ i \in Slot /\ owner[i] = a /\ want \in Nat \ {0} /\ MaxByte \in Nat
        /\ MaxSession \in Nat /\ NoAddress \notin Address /\ Capacity \in Nat
        /\ data \in [Slot -> Seq(Byte)] /\ owner \in [Slot -> Address \cup {NoAddress}]
        /\ heard \in [Session -> SUBSET Session] /\ born \in 0..MaxSession
        /\ pushed \in [Session -> 0..MaxByte] /\ spent \in [Session -> 0..MaxByte]
        /\ at \in [Address -> 0..born] /\ \A j \in Slot : Len(data[j]) <= Capacity
    BY <1>2, RingSizesHold DEF RingInv, RingTypeOK, OwnSlot, RingSizes
  <2>2. s \in Session
    BY <1>1, <2>1 DEF Session
  <2> QED
    BY <2>1, <2>2, SlotType
<1>5. d \in 0..L /\ d \in Nat
  BY <1>4
<1> HIDE DEF s, d, L
<1>6. /\ Len(p) \in Nat /\ Len(p) = L - d /\ DOMAIN p = 1..Len(p) /\ p \in Seq(Byte)
      /\ \A k \in 1..Len(p) : k + d \in 1..L /\ p[k] = data[i][k + d] /\ p[k] \in Byte
  <2>1. Shifted(p, data[i], d)
    BY <1>4, <1>5, ShiftedBy DEF Rest, L
  <2>2. \A k \in 1..Len(p) : p[k] \in Byte
    BY <2>1 DEF Shifted
  <2> QED
    BY <1>5, <2>1, <2>2 DEF Shifted, L
<1> HIDE DEF p
<1>7. /\ data'[i] = p /\ \A j \in Slot : j # i => data'[j] = data[j]
  BY <1>3, <1>4
<1>8. ASSUME NEW b \in bytes
      PROVE  \E k \in 1..d : k \in DOMAIN data[i] /\ b = At(i, k)
  BY <1>4, <1>5 DEF At
<1>9. ASSUME NEW b \in bytes
      PROVE  /\ b.session \in Session /\ b.session \in unreset \cup {s}
             /\ b.n \in 0..MaxByte /\ b.n <= pushed[b.session]
  <2>1. PICK k \in DOMAIN data[i] : b = At(i, k)
    BY <1>8
  <2>2. /\ At(i, k) \in Byte /\ At(i, k).n <= pushed[At(i, k).session]
        /\ At(i, k).session \in unreset \cup {s}
    BY <1>4, ByteIs DEF s
  <2>3. \A c \in Byte : c.session \in Session /\ c.n \in 0..MaxByte
    BY <1>4 DEF Byte
  <2> QED
    BY <2>1, <2>2, <2>3
<1> HIDE DEF bytes
\* The mark of a session is a number it was given, or was given before.
<1>10. ASSUME NEW x \in Session
       PROVE  /\ spent'[x] \in 0..MaxByte /\ spent'[x] <= pushed[x]
              /\ spent'[x] = spent[x] \/ \E b \in bytes : b.session = x /\ spent'[x] = b.n
  <2>1. Given(x) \subseteq 0..MaxByte /\ spent[x] \in Given(x)
    BY <1>4, <1>9
  <2>2. \A m \in Given(x) : m = spent[x] \/ \E b \in bytes : b.session = x /\ m = b.n
    OBVIOUS
  <2>3. spent'[x] = Max(Given(x))
    BY <1>3
  <2> HIDE DEF Given
  <2>4. spent'[x] \in Given(x)
    BY <1>4, <2>1, <2>3, GreatestIs
  <2>5. spent[x] <= pushed[x]
    BY DEF RingInv
  <2> QED
    BY <1>9, <2>1, <2>2, <2>4, <2>5
<1>11. RingTypeOK' /\ data' \in [Slot -> Seq(Byte)]
  <2>1. heard' \in [Session -> SUBSET Session]
    BY <1>3, <1>4, <1>9
  <2>2. spent' \in [Session -> 0..MaxByte]
    BY <1>3, <1>10
  <2>3. ASSUME NEW j \in Slot
        PROVE  /\ data'[j] \in Seq(Byte) /\ Len(data'[j]) <= Capacity
               /\ \A k \in DOMAIN data'[j] : data'[j][k] \in Byte
    <3>1. CASE j = i
      BY <1>4, <1>5, <1>6, <1>7, <3>1
    <3>2. CASE j # i
      BY <1>4, <1>7, <3>2 DEF RingInv, RingTypeOK
    <3> QED
      BY <3>1, <3>2
  <2>4. data' \in [Slot -> Seq(Byte)]
    BY <1>3, <1>4, <2>3
  <2> QED
    BY <1>1, <2>1, <2>2, <2>3, <2>4 DEF RingInv, RingTypeOK
<1>12. Alive'
  BY <1>1 DEF RingInv, Alive
<1>13. HeardOwnOnly'
  <2>1. \A x \in Session : heard'[x] \subseteq
                IF x = s THEN heard[x] \cup {b.session : b \in bytes} ELSE heard[x]
    BY <1>3, <1>4
  <2> QED
    BY <1>1, <1>9, <2>1 DEF RingInv, HeardOwnOnly
\* What slot j holds it held before, d places further back if it is slot i.
<1>14. ASSUME NEW j \in Slot, NEW k \in DOMAIN data'[j]
       PROVE  \E g \in Nat : /\ (j = i /\ g = d) \/ (j # i /\ g = 0)
                             /\ k \in Nat /\ k + g \in DOMAIN data[j] /\ data'[j][k] = At(j, k + g)
                             /\ Len(data'[j]) \in Nat /\ Len(data[j]) = Len(data'[j]) + g
  <2>1. CASE j = i
    BY <1>4, <1>5, <1>6, <1>7, <2>1, SMTT(30) DEF At, L
  <2>2. CASE j # i
    BY <1>4, <1>7, <2>2, SlotType DEF At
  <2> QED
    BY <2>1, <2>2
<1>15. ASSUME NEW j \in Slot PROVE SlotBytes(j)'
  <2>1. ASSUME NEW k \in DOMAIN data'[j]
        PROVE  /\ data'[j][k].session <= born /\ data'[j][k].n <= pushed[data'[j][k].session]
               /\ owner[j] # NoAddress
               /\ \A c \in Address : at[c] = data'[j][k].session => owner[j] = c
               /\ \/ data'[j][k].session \in unreset
                  \/ owner[j] \in reading /\ data'[j][k].session = at[owner[j]]
    <3>1. PICK l \in DOMAIN data[j] : data'[j][k] = At(j, l)
      BY <1>14
    <3> QED
      BY <1>4, <3>1, ByteIs
  <2> QED
    BY <1>1, <2>1 DEF SlotBytes, At
<1>16. ASSUME NEW j \in Slot PROVE BytesOrdered(j)'
  <2>1. ASSUME NEW k \in DOMAIN data'[j], NEW l \in DOMAIN data'[j], k < l,
               data'[j][k].session = data'[j][l].session
        PROVE  data'[j][k].n < data'[j][l].n
    <3>1. PICK g \in Nat : /\ (j = i /\ g = d) \/ (j # i /\ g = 0)
                           /\ k \in Nat /\ k + g \in DOMAIN data[j] /\ data'[j][k] = At(j, k + g)
      BY <1>14
    <3>2. l \in Nat /\ l + g \in DOMAIN data[j] /\ data'[j][l] = At(j, l + g)
      BY <1>14, <3>1
    <3>3. k + g < l + g
      BY <2>1, <3>1, <3>2
    <3> QED
      BY <2>1, <3>1, <3>2, <3>3 DEF RingInv, BytesOrdered
  <2> QED
    BY <2>1 DEF BytesOrdered, At
<1>17. ASSUME NEW j \in Slot, NEW m \in Slot, j # m PROVE BytesApart(j, m)'
  <2>1. ASSUME NEW k \in DOMAIN data'[j], NEW l \in DOMAIN data'[m]
        PROVE  data'[j][k].session # data'[m][l].session
    <3>1. PICK x \in DOMAIN data[j] : data'[j][k] = At(j, x)
      BY <1>14
    <3>2. PICK y \in DOMAIN data[m] : data'[m][l] = At(m, y)
      BY <1>14
    <3>3. BytesApart(j, m)
      BY <1>17 DEF RingInv
    <3> QED
      BY <3>1, <3>2, <3>3 DEF BytesApart
  <2> QED
    BY <2>1 DEF BytesApart, At
<1>18. \A x \in Session : spent'[x] <= pushed'[x] /\ (x > born' => pushed'[x] = 0)
  BY <1>1, <1>10 DEF RingInv
<1>19. OneRingPerSession'
  BY <1>1, <1>4, <1>7 DEF RingInv, OneRingPerSession
<1>20. RingIsNewest'
  <2>1. ASSUME NEW j \in Slot, NEW k \in DOMAIN data'[j], data'[j][k].session = at[owner[j]]
        PROVE  data'[j][k].n = pushed[data'[j][k].session] - (Len(data'[j]) - k)
    <3>1. PICK g \in Nat : /\ k \in Nat /\ k + g \in DOMAIN data[j]
                           /\ data'[j][k] = At(j, k + g)
                           /\ Len(data'[j]) \in Nat /\ Len(data[j]) = Len(data'[j]) + g
      BY <1>14
    <3>2. data'[j][k].n = pushed[data'[j][k].session] - (Len(data[j]) - (k + g))
      BY <2>1, <3>1, ByteIs
    <3>3. Len(data[j]) - (k + g) = Len(data'[j]) - k
      BY <3>1
    <3> QED
      BY <3>2, <3>3
  <2> QED
    BY <1>1, <2>1 DEF RingIsNewest
\* A byte that is left has a later number than any of its session that was given.
<1>21. NeverTwice'
  <2>1. ASSUME NEW j \in Slot, NEW k \in DOMAIN data'[j]
        PROVE  data'[j][k].n > spent'[data'[j][k].session]
    <3>1. PICK g \in Nat : /\ (j = i /\ g = d) \/ (j # i /\ g = 0)
                           /\ k \in Nat /\ k + g \in DOMAIN data[j] /\ data'[j][k] = At(j, k + g)
      BY <1>14
    <3> DEFINE x == data'[j][k].session
    <3>2. x \in Session /\ data'[j][k].n \in Nat /\ data'[j][k].n > spent[x]
      BY <3>1, ByteIs
    <3>3. ASSUME NEW b \in bytes, b.session = x PROVE b.n < data'[j][k].n
      <4>1. PICK l \in 1..d : l \in DOMAIN data[i] /\ b = At(i, l)
        BY <1>8
      <4>2. CASE j = i
        <5>1. k >= 1
          BY <1>6, <1>7, <4>2
        <5>2. l < k + g
          BY <1>5, <3>1, <4>1, <4>2, <5>1
        <5> QED
          BY <1>4, <3>1, <3>3, <4>1, <4>2, <5>2 DEF RingInv, BytesOrdered
      <4>3. CASE j # i
        BY <1>4, <3>1, <3>3, <4>1, <4>3 DEF RingInv, BytesApart
      <4> QED
        BY <4>2, <4>3
    <3> QED
      BY <1>10, <3>2, <3>3
  <2> QED
    BY <2>1 DEF NeverTwice
<1> QED
  BY <1>11, <1>12, <1>13, <1>15, <1>16, <1>17, <1>18, <1>19, <1>20, <1>21 DEF RingInv

LEMMA NextInv == RingInv /\ [RingNext]_ringVars => RingInv'
<1> SUFFICES ASSUME RingInv, [RingNext]_ringVars PROVE RingInv'
  OBVIOUS
<1>1. ASSUME NEW a \in Address, Create(a) \/ Destroy(a) \/ Lost(a) \/ LeavesQuietly(a)
      PROVE  RingInv'
  BY <1>1, CreateInv, DestroyInv, LostInv, QuietInv
<1>2. ASSUME NEW a \in Address, NEW n \in Chunk, Push(a, n) PROVE RingInv'
  <2>1. CASE SlotFor(a) = {} /\ UNCHANGED <<owner, data>>
    BY <1>2, <2>1, RefusedInv
  <2>2. CASE \E i \in SlotFor(a) :
           /\ owner' = [owner EXCEPT ![i] = a]
           /\ data' = [data EXCEPT ![i] =
                Newest(@ \o [k \in 1..n |-> [session |-> at[a], n |-> pushed[at[a]] + k]])]
    BY <1>2, <2>2, StoredInv
  <2> QED
    BY <1>2, <2>1, <2>2 DEF Push
<1>3. ASSUME NEW a \in Address, NEW n \in Chunk, Pop(a, n) PROVE RingInv'
  BY <1>3, PopInv
<1>4. CASE UNCHANGED ringVars
  BY <1>4, StutterInv
<1> QED
  BY <1>1, <1>2, <1>3, <1>4 DEF RingNext, Over

LEMMA InvariantHolds == RingSpec => []RingInv
  BY InitInv, NextInv, PTL DEF RingSpec
----------------------------------------------------------------------------
(* What it shows.                                                          *)

\* The variables have their types, and no ring outgrows its capacity.
THEOREM RingTyped == RingSpec => []RingTypeOK
<1>1. RingInv => RingTypeOK
  BY DEF RingInv
<1> QED
  BY <1>1, InvariantHolds, PTL

\* Two live sessions never share a ring (mic_ring_slot, mic_ring.inl).
THEOREM RingsApart == RingSpec => []OneRingPerSession
<1>1. RingInv => OneRingPerSession
  BY DEF RingInv
<1> QED
  BY <1>1, InvariantHolds, PTL

\* A device hears its own session, or one whose reader ended without a reset
\* (reader_loop, bridge.inl), whatever addresses are used again.
THEOREM HeardIsOwn == RingSpec => []HeardOwnOnly
<1>1. RingInv => HeardOwnOnly
  BY DEF RingInv
<1> QED
  BY <1>1, InvariantHolds, PTL

\* A ring holds the newest audio of its session without a gap (mic_ring_push).
THEOREM NewestKept == RingSpec => []RingIsNewest
<1>1. RingInv => RingIsNewest
  BY DEF RingInv
<1> QED
  BY <1>1, InvariantHolds, PTL

\* No byte is given to a device a second time (mic_ring_pop_fill).
THEOREM NoneTwice == RingSpec => []NeverTwice
<1>1. RingInv => NeverTwice
  BY DEF RingInv
<1> QED
  BY <1>1, InvariantHolds, PTL

\* The microphone of a controller is heard by its own host only, at its newest and once
\* (mic_ring.inl).
THEOREM MicKept == RingSpec => []MicHolds
<1>1. (OneRingPerSession /\ HeardOwnOnly /\ RingIsNewest /\ NeverTwice) => MicHolds
  BY DEF MicHolds
<1>2. QED
  BY RingsApart, HeardIsOwn, NewestKept, NoneTwice, <1>1, PTL
=============================================================================
