------------------------------ MODULE MicRing ------------------------------
(***************************************************************************)
(* The microphone rings of src/src/audio/mic_ring.inl, with the backends'  *)
(* reader threads that fill and reset them (backend/bridge.inl) and the    *)
(* URB loops that drain them (usbip/device.inl).                           *)
(*                                                                         *)
(* A ring belongs to a backend by its address, and an address is used      *)
(* again by a later backend.  A byte is stamped with the bridge session    *)
(* that sent it and its number in that session, which the code does not    *)
(* keep: the stamps are what the properties tell sessions apart by.  An    *)
(* operator no action uses is a plausible mistake in the one below it.     *)
(***************************************************************************)
EXTENDS Naturals, SequencesExt, FiniteSetsExt

CONSTANTS Address,     \* where a backend may be allocated
          NoAddress,
          Slots,       \* kMicRingMaxSessions
          Capacity,    \* kMicRingCapacity
          Chunk,       \* the sizes of a microphone message, and of a request
          MaxSession,  \* bound: backends created
          MaxByte      \* bound: bytes one session sends

ASSUME RingAssumption ==
    /\ NoAddress \notin Address
    /\ Slots \in Nat \ {0} /\ Capacity \in Nat \ {0}
    /\ Chunk \subseteq Nat \ {0}
    /\ MaxSession \in Nat /\ MaxByte \in Nat

Slot    == 1..Slots
Session == 1..MaxSession
Byte    == [session : Session, n : 1..MaxByte]

VARIABLES
    born,     \* backends created so far
    at,       \* by address, the session whose backend lives there, or 0
    reading,  \* addresses whose reader thread runs
    owner,    \* by slot
    data,     \* by slot
    pushed,   \* by session, the bytes that reached mic_ring_push
    heard,    \* history: by session, those whose bytes its device was given
    spent,    \* history: by session, the last of its bytes a device was given
    unreset   \* history: sessions whose reader ended without mic_ring_reset

ringVars == <<born, at, reading, owner, data, pushed, heard, spent, unreset>>

RingTypeOK ==
    /\ born \in 0..MaxSession
    /\ at \in [Address -> 0..born]
    /\ reading \subseteq Address
    /\ owner \in [Slot -> Address \cup {NoAddress}]
    /\ \A i \in Slot : /\ Len(data[i]) <= Capacity
                       /\ \A k \in DOMAIN data[i] : data[i][k] \in Byte
    /\ pushed \in [Session -> 0..MaxByte]
    /\ heard \in [Session -> SUBSET Session]
    /\ spent \in [Session -> 0..MaxByte]
    /\ unreset \subseteq Session

RingInit ==
    /\ born = 0
    /\ at = [a \in Address |-> 0]
    /\ reading = {}
    /\ owner = [i \in Slot |-> NoAddress]
    /\ data = [i \in Slot |-> <<>>]
    /\ pushed = [s \in Session |-> 0]
    /\ heard = [s \in Session |-> {}]
    /\ spent = [s \in Session |-> 0]
    /\ unreset = {}

\* A backend is allocated and its reader started.
Create(a) ==
    /\ at[a] = 0 /\ born < MaxSession
    /\ born' = born + 1
    /\ at' = [at EXCEPT ![a] = born + 1]
    /\ reading' = reading \cup {a}
    /\ UNCHANGED <<owner, data, pushed, heard, spent, unreset>>

\* The backend is destroyed, its reader joined.
Destroy(a) ==
    /\ at[a] # 0 /\ a \notin reading
    /\ at' = [at EXCEPT ![a] = 0]
    /\ UNCHANGED <<born, reading, owner, data, pushed, heard, spent, unreset>>

FirstFree(a) == {i \in Slot : /\ owner[i] = NoAddress
                              /\ \A j \in Slot : owner[j] = NoAddress => i <= j}
\* mic_ring_slot with `create`: the owner's slot, else the first free one, else
\* none.
SlotFor(a) ==
    IF \E i \in Slot : owner[i] = a
    THEN {i \in Slot : owner[i] = a /\ \A j \in Slot : owner[j] = a => i <= j}
    ELSE FirstFree(a)

\* Drop from the front: the newest audio stays.
Newest(q) == IF Len(q) > Capacity
             THEN SubSeq(q, Len(q) - Capacity + 1, Len(q)) ELSE q

\* mic_ring_push of n bytes; with every slot taken they are dropped rather than
\* mixed in.
Push(a, n) ==
    LET s == at[a]
        bytes == [k \in 1..n |-> [session |-> s, n |-> pushed[s] + k]]
    IN
    /\ a \in reading /\ pushed[s] + n <= MaxByte
    /\ pushed' = [pushed EXCEPT ![s] = @ + n]
    /\ \/ SlotFor(a) = {} /\ UNCHANGED <<owner, data>>
       \/ \E i \in SlotFor(a) :
            /\ owner' = [owner EXCEPT ![i] = a]
            /\ data' = [data EXCEPT ![i] = Newest(@ \o bytes)]
    /\ UNCHANGED <<born, at, reading, heard, spent, unreset>>

\* mic_ring_slot without `create`.
OwnSlot(a) == {i \in Slot : owner[i] = a}

\* What is left after an erase from the front.
Rest(q, taken) == SubSeq(q, taken + 1, Len(q))

\* mic_ring_pop_fill, on the URB loop of the device this backend feeds: what
\* the ring holds and no more.
Pop(a, want) ==
    /\ at[a] # 0
    /\ \E i \in OwnSlot(a) :
         LET taken == IF Len(data[i]) < want THEN Len(data[i]) ELSE want
             bytes == {data[i][k] : k \in 1..taken}
         IN
         /\ heard' = [heard EXCEPT ![at[a]] = @ \cup {b.session : b \in bytes}]
         /\ spent' = [s \in Session |->
                        Max({spent[s]} \cup {b.n : b \in {c \in bytes : c.session = s}})]
         /\ data' = [data EXCEPT ![i] = Rest(@, taken)]
    /\ UNCHANGED <<born, at, reading, owner, pushed, unreset>>

\* mic_ring_reset releases the owner's slot.
ResetSlots(a) == [i \in Slot |-> IF owner[i] = a THEN NoAddress ELSE owner[i]]

\* reader_loop: the TV is lost, so the ring is reset; then it comes back (the
\* reader goes on) or the reader ends.
Lost(a) ==
    /\ a \in reading
    /\ owner' = ResetSlots(a)
    /\ data' = [i \in Slot |-> IF owner[i] = a THEN <<>> ELSE data[i]]
    /\ reading' \in {reading, reading \ {a}}
    /\ UNCHANGED <<born, at, pushed, heard, spent, unreset>>

\* reader_loop left by the idle rule, or by its condition after a stop.
LeavesQuietly(a) ==
    /\ a \in reading
    /\ unreset' = unreset \cup {at[a]}
    /\ reading' = reading \ {a}
    /\ UNCHANGED <<born, at, owner, data, pushed, heard, spent>>

\* Every backend of this instance has come and gone.
Over == /\ born = MaxSession /\ \A a \in Address : at[a] = 0
        /\ UNCHANGED ringVars

RingNext ==
    \/ \E a \in Address :
          \/ Create(a) \/ Destroy(a) \/ Lost(a) \/ LeavesQuietly(a)
          \/ \E n \in Chunk : Push(a, n) \/ Pop(a, n)
    \/ Over

RingSpec == RingInit /\ [][RingNext]_ringVars
----------------------------------------------------------------------------
(* Properties.                                                             *)

\* Two live sessions never share a ring: "each entry received a mixture of both
\* voices" is the fault this file exists for.
OneRingPerSession ==
    /\ \A i, j \in Slot : owner[i] = owner[j] /\ owner[i] # NoAddress => i = j
    /\ \A i \in Slot : owner[i] = NoAddress => data[i] = <<>>

\* A session's device is given its own microphone's bytes and no other's, but
\* for those of a session whose reader ended without resetting its ring.
HeardOwnOnly ==
    \A s \in Session : heard[s] \subseteq unreset \cup {s}

\* What a ring holds is the newest audio without a gap: a message is dropped
\* from the front, never from the middle, and never replayed.
RingIsNewest ==
    \A i \in Slot : owner[i] # NoAddress =>
        \A k \in DOMAIN data[i] :
            LET b == data[i][k] IN
            b.session = at[owner[i]] =>
                b.n = pushed[b.session] - (Len(data[i]) - k)

\* The ring may not hand back a byte it has handed over already.
NeverTwice ==
    \A i \in Slot : \A k \in DOMAIN data[i] :
        data[i][k].n > spent[data[i][k].session]

\* However the pads come and go, a session's device hears its own microphone, in order, the
\* newest of it, and nothing twice.
MicHolds == OneRingPerSession /\ HeardOwnOnly /\ RingIsNewest /\ NeverTwice
=============================================================================
