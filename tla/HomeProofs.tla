----------------------------- MODULE HomeProofs -----------------------------
(***************************************************************************)
(* What holds, for every number of sessions, configs, requests, threads    *)
(* and pads, of what runs beside the sessions: their nicknames, their      *)
(* settings, the connections of the REST API, the ENet and the Bluetooth   *)
(* backend, and the settings window.                                       *)
(***************************************************************************)
EXTENDS MCHome, FiniteSetTheorems, WellFoundedInduction, TLAPS

----------------------------------------------------------------------------
(* Numbers.                                                                *)

\* The least of some numbers.
LessThan == OpToRel(<, Nat)

LEMMA LessThanIs == \A x, y \in Nat : <<x, y>> \in LessThan <=> x < y
  BY DEF LessThan, OpToRel

LEMMA LessThanIsWellFounded == IsWellFoundedOn(LessThan, Nat)
  BY NatLessThanWellFounded, Zenon DEF LessThan

LEMMA LeastOf ==
  ASSUME NEW S, S \subseteq Nat, S # {}
  PROVE  \E n \in S : \A m \in S : n <= m
<1>1. PICK n \in S : \A m \in S : <<m, n>> \notin LessThan
  BY LessThanIsWellFounded, WFMin
<1>2. ASSUME NEW m \in S PROVE n <= m
  <2>1. m \in Nat /\ n \in Nat
    OBVIOUS
  <2>2. ~(m < n)
    BY <1>1, <2>1, LessThanIs
  <2> QED
    BY <2>1, <2>2
<1> QED
  BY <1>2

\* Numbers are counted up from zero.
LEMMA CountsUp ==
  ASSUME NEW S \in SUBSET Nat, 0 \in S, \A n \in Nat : n \in S => n + 1 \in S
  PROVE  S = Nat
<1> SUFFICES ASSUME Nat \ S # {} PROVE FALSE
  OBVIOUS
<1> DEFINE T == Nat \ S
<1>1. PICK n \in T : \A m \in T : n <= m
  <2>1. T \subseteq Nat /\ T # {}
    OBVIOUS
  <2> HIDE DEF T
  <2> QED
    BY <2>1, LeastOf
<1>2. n - 1 \in Nat /\ (n - 1) + 1 = n
  OBVIOUS
<1>3. n - 1 \in S
  BY <1>1, <1>2
<1> QED
  BY <1>2, <1>3
----------------------------------------------------------------------------
(* Nicknames: a name stays with its device, and minting never repeats a    *)
(* name that is in use.                                                    *)


Born == 1..born

\* s and u are one session, or parts of one device as far as its model says.
Kin(s, u) == \/ s = u
             \/ /\ who[s] # NoIdentity /\ who[u] # NoIdentity
                /\ who[u].model = who[s].model

\* The names that were minted for s and for the parts of its device.
FamilyNames(s) == {minted[u] : u \in {v \in Born : Kin(s, v)}}

\* A session has its own name until it writes another; it knows its device
\* before it looks for siblings; the name it has and the one it has read are
\* its device's.
Named(s) ==
    /\ minted[s] \in Name
    /\ pc[s] # "done" => name[s] = minted[s]
    /\ pc[s] = "hello" <=> who[s] = NoIdentity
    /\ pc[s] = "write" => adopted[s] \in FamilyNames(s)
    /\ name[s] \in FamilyNames(s)

IInv ==
    /\ TypeOK
    /\ \A s \in Born : Named(s)
    /\ \A s \in Session : s > born => pc[s] = "hello" /\ who[s] = NoIdentity
    /\ MintedNamesDiffer
----------------------------------------------------------------------------
(* Families.                                                               *)

LEMMA KinIsTransitive ==
  ASSUME NEW s, NEW u, NEW v, Kin(s, u), Kin(u, v)
  PROVE  Kin(s, v)
  BY DEF Kin

\* A part of the device has no name that s does not know for its own.
LEMMA FamilyOfKin ==
  ASSUME NEW s, NEW u, Kin(s, u)
  PROVE  FamilyNames(u) \subseteq FamilyNames(s)
  BY KinIsTransitive DEF FamilyNames

\* A family loses no name in a step that takes no kin and no minted name away.
LEMMA FamilyStays ==
  ASSUME NEW s, Born \subseteq Born',
         \A u \in Born : minted'[u] = minted[u] /\ (Kin(s, u) => Kin(s, u)')
  PROVE  FamilyNames(s) \subseteq FamilyNames(s)'
  BY DEF FamilyNames

\* The name a session was born with is in its family.
LEMMA OwnNameInFamily ==
  ASSUME NEW s \in Born
  PROVE  minted[s] \in FamilyNames(s)
  BY DEF FamilyNames, Kin
----------------------------------------------------------------------------
(* One lemma for each action.                                              *)

LEMMA InitNamed == Init => IInv
  BY NameAssumption DEF Init, IInv, TypeOK, Born, Session, MintedNamesDiffer

LEMMA StartNamed == IInv /\ Start => IInv'
<1> SUFFICES ASSUME IInv, Start PROVE IInv'
  OBVIOUS
<1>0. MaxSession \in Nat /\ NoName \notin Name
  BY NameAssumption
<1>1. PICK n \in FreeNames :
        /\ born' = born + 1
        /\ listed' = listed \cup {born + 1}
        /\ name' = [name EXCEPT ![born + 1] = n]
        /\ minted' = [minted EXCEPT ![born + 1] = n]
  BY DEF Start
<1>2. /\ born \in Nat /\ born + 1 \in Session /\ born + 1 \notin Born
      /\ Born' = Born \cup {born + 1} /\ Born \subseteq Session
      /\ listed \subseteq Born /\ UNCHANGED <<who, pc, adopted>>
  BY <1>0, <1>1 DEF IInv, TypeOK, Start, Born, Session
<1>3. TypeOK'
  <2>1. born' \in 0..MaxSession /\ listed' \subseteq 1..born'
    BY <1>0, <1>1, <1>2 DEF Born, Session
  <2>2. /\ name' \in [Session -> Name \cup {NoName}]
        /\ minted' \in [Session -> Name \cup {NoName}]
    BY <1>1 DEF IInv, TypeOK, FreeNames
  <2>3. \A s \in listed' : name'[s] \in Name
    BY <1>1, <1>2 DEF IInv, TypeOK, FreeNames
  <2> QED
    BY <1>2, <2>1, <2>2, <2>3 DEF IInv, TypeOK
<1>4. /\ n \in Name /\ \A s \in listed : name[s] # n
      /\ name'[born + 1] = n /\ minted'[born + 1] = n
      /\ \A s \in Born : name'[s] = name[s] /\ minted'[s] = minted[s]
  BY <1>1, <1>2 DEF FreeNames, IInv, TypeOK
<1>5. ASSUME NEW s \in Born' PROVE Named(s)'
  <2>1. CASE s \in Born
    <3>1. Named(s)
      BY <2>1 DEF IInv
    <3>2. FamilyNames(s) \subseteq FamilyNames(s)'
      BY <1>2, <1>4, FamilyStays DEF Kin
    <3> QED
      BY <1>2, <1>4, <2>1, <3>1, <3>2 DEF Named
  <2>2. CASE s = born + 1
    <3>1. pc[s] = "hello" /\ who[s] = NoIdentity
      BY <1>2, <2>2 DEF IInv
    <3>2. minted'[s] \in FamilyNames(s)'
      BY <1>2, <2>2 DEF FamilyNames, Kin
    <3> QED
      BY <1>2, <1>4, <2>2, <3>1, <3>2 DEF Named
  <2> QED
    BY <1>2, <2>1, <2>2
<1>6. \A s \in Session : s > born' => pc'[s] = "hello" /\ who'[s] = NoIdentity
  BY <1>1, <1>2 DEF IInv, Session
<1>7. MintedNamesDiffer'
  BY <1>1, <1>2, <1>4 DEF IInv, MintedNamesDiffer
<1> QED
  BY <1>3, <1>5, <1>6, <1>7 DEF IInv

LEMMA HelloNamed == ASSUME NEW t \in Session PROVE IInv /\ Hello(t) => IInv'
<1> SUFFICES ASSUME IInv, Hello(t) PROVE IInv'
  OBVIOUS
<1>1. PICK i \in Identity : who' = [who EXCEPT ![t] = i]
  BY DEF Hello
<1>2. /\ i # NoIdentity /\ t \in Born /\ pc[t] = "hello"
      /\ pc' = [pc EXCEPT ![t] = "resolve"]
      /\ UNCHANGED <<born, listed, name, minted, adopted>> /\ Born' = Born
      /\ who \in [Session -> Identity \cup {NoIdentity}]
      /\ pc \in [Session -> {"hello", "resolve", "write", "done"}]
      /\ who[t] = NoIdentity /\ Born \subseteq Session /\ born \in Nat
  BY NameAssumption DEF Hello, IInv, TypeOK, Born, Session, Named
<1>3. TypeOK'
  BY <1>1, <1>2 DEF IInv, TypeOK
<1>4. \A u \in Session : u # t => who'[u] = who[u] /\ pc'[u] = pc[u]
  BY <1>1, <1>2
<1>5. who'[t] = i /\ pc'[t] = "resolve"
  BY <1>1, <1>2
<1>6. ASSUME NEW s \in Born PROVE Named(s)'
  <2>1. Named(s) /\ s \in Session
    BY <1>2 DEF IInv
  <2>2. FamilyNames(s) \subseteq FamilyNames(s)'
    <3>1. ASSUME NEW u \in Born, Kin(s, u) PROVE Kin(s, u)'
      BY <1>2, <1>4, <2>1, <3>1 DEF Kin
    <3> QED
      BY <1>2, <3>1, FamilyStays
  <2>3. CASE s = t
    BY <1>2, <1>5, <2>1, <2>2, <2>3 DEF Named
  <2>4. CASE s # t
    BY <1>2, <1>4, <2>1, <2>2, <2>4 DEF Named
  <2> QED
    BY <2>3, <2>4
<1>7. \A s \in Session : s > born' => pc'[s] = "hello" /\ who'[s] = NoIdentity
  BY <1>2, <1>4 DEF IInv, Born, Session
<1>8. MintedNamesDiffer'
  BY <1>2 DEF IInv, MintedNamesDiffer
<1> QED
  BY <1>2, <1>3, <1>6, <1>7, <1>8 DEF IInv

LEMMA AloneNamed == ASSUME NEW t \in Session PROVE IInv /\ Alone(t) => IInv'
<1> SUFFICES ASSUME IInv, Alone(t) PROVE IInv'
  OBVIOUS
<1>1. /\ pc[t] = "resolve" /\ pc' = [pc EXCEPT ![t] = "done"]
      /\ UNCHANGED <<born, listed, name, minted, who, adopted>> /\ Born' = Born
      /\ pc \in [Session -> {"hello", "resolve", "write", "done"}]
  BY DEF Alone, IInv, TypeOK, Born
<1>2. TypeOK'
  BY <1>1 DEF IInv, TypeOK
<1>3. Born \subseteq Session
  BY NameAssumption DEF IInv, TypeOK, Born, Session
<1>4. ASSUME NEW s \in Born PROVE Named(s)'
  <2>1. Named(s) /\ s \in Session
    BY <1>3 DEF IInv
  <2>2. FamilyNames(s) \subseteq FamilyNames(s)'
    BY <1>1, FamilyStays DEF Kin
  <2> QED
    BY <1>1, <2>1, <2>2 DEF Named
<1>5. \A s \in Session : s > born' => pc'[s] = "hello" /\ who'[s] = NoIdentity
  BY <1>1 DEF IInv
<1>6. MintedNamesDiffer'
  BY <1>1 DEF IInv, MintedNamesDiffer
<1> QED
  BY <1>1, <1>2, <1>4, <1>5, <1>6 DEF IInv

\* The sibling's name is in its own family, and its family is this session's.
LEMMA AdoptNamed == ASSUME NEW t \in Session PROVE IInv /\ Adopt(t) => IInv'
<1> SUFFICES ASSUME IInv, Adopt(t) PROVE IInv'
  OBVIOUS
<1>1. PICK u \in Siblings(t) : adopted' = [adopted EXCEPT ![t] = name[u]]
  BY DEF Adopt
<1>2. /\ pc[t] = "resolve" /\ pc' = [pc EXCEPT ![t] = "write"]
      /\ UNCHANGED <<born, listed, name, minted, who>> /\ Born' = Born
      /\ pc \in [Session -> {"hello", "resolve", "write", "done"}]
      /\ adopted \in [Session -> Name \cup {NoName}]
      /\ u \in listed /\ name[u] \in Name
  BY DEF Adopt, IInv, TypeOK, Born, Siblings
<1>3. Born \subseteq Session /\ u \in Born
  BY <1>2, NameAssumption DEF IInv, TypeOK, Born, Session
<1>4. TypeOK'
  BY <1>1, <1>2 DEF IInv, TypeOK
<1>5. t \in Born /\ who[t] # NoIdentity
  <2>1. t \in Born
    BY <1>2 DEF IInv, TypeOK, Born, Session
  <2> QED
    BY <1>2, <2>1 DEF IInv, Named
<1>6. name[u] \in FamilyNames(t)
  <2>1. Kin(t, u)
    BY <1>1, <1>5 DEF Kin, Siblings, Matches
  <2>2. name[u] \in FamilyNames(u)
    BY <1>3 DEF IInv, Named
  <2> QED
    BY <2>1, <2>2, FamilyOfKin
<1>7. ASSUME NEW s \in Born PROVE Named(s)'
  <2>1. Named(s) /\ s \in Session
    BY <1>3 DEF IInv
  <2>2. FamilyNames(s) \subseteq FamilyNames(s)'
    BY <1>2, FamilyStays DEF Kin
  <2>3. CASE s = t
    BY <1>1, <1>2, <1>6, <2>1, <2>2, <2>3 DEF Named
  <2>4. CASE s # t
    BY <1>1, <1>2, <2>1, <2>2, <2>4 DEF Named
  <2> QED
    BY <2>3, <2>4
<1>8. \A s \in Session : s > born' => pc'[s] = "hello" /\ who'[s] = NoIdentity
  BY <1>2, <1>5 DEF IInv, Born, Session
<1>9. MintedNamesDiffer'
  BY <1>2 DEF IInv, MintedNamesDiffer
<1> QED
  BY <1>2, <1>4, <1>7, <1>8, <1>9 DEF IInv

\* A session that writes the name it was born with had it until now, so the
\* name was never free for another to be minted with.
LEMMA RenameNamed == ASSUME NEW t \in Session PROVE IInv /\ Rename(t) => IInv'
<1> SUFFICES ASSUME IInv, Rename(t) PROVE IInv'
  OBVIOUS
<1>1. /\ pc[t] = "write" /\ pc' = [pc EXCEPT ![t] = "done"]
      /\ name' = [name EXCEPT ![t] = adopted[t]]
      /\ UNCHANGED <<born, listed, minted, who, adopted>> /\ Born' = Born
      /\ pc \in [Session -> {"hello", "resolve", "write", "done"}]
      /\ name \in [Session -> Name \cup {NoName}]
      /\ adopted \in [Session -> Name \cup {NoName}]
  BY DEF Rename, NewName, IInv, TypeOK, Born
<1>2. Born \subseteq Session /\ listed \subseteq Born
  BY NameAssumption DEF IInv, TypeOK, Born, Session
<1>3. t \in Born
  BY <1>1 DEF IInv, TypeOK, Born, Session
<1>4. /\ Named(t) /\ adopted[t] \in FamilyNames(t) /\ name[t] = minted[t]
      /\ name'[t] = adopted[t] /\ \A s \in Session : s # t => name'[s] = name[s]
  BY <1>1, <1>3 DEF IInv, Named
<1>5. adopted[t] \in Name
  BY <1>4 DEF FamilyNames, IInv, Named
<1>6. TypeOK'
  BY <1>1, <1>2, <1>4, <1>5 DEF IInv, TypeOK
<1>7. ASSUME NEW s \in Born PROVE Named(s)'
  <2>1. Named(s) /\ s \in Session
    BY <1>2 DEF IInv
  <2>2. FamilyNames(s) \subseteq FamilyNames(s)'
    BY <1>1, FamilyStays DEF Kin
  <2>3. CASE s = t
    BY <1>1, <1>4, <2>1, <2>2, <2>3 DEF Named
  <2>4. CASE s # t
    BY <1>1, <1>4, <2>1, <2>2, <2>4 DEF Named
  <2> QED
    BY <2>3, <2>4
<1>8. \A s \in Session : s > born' => pc'[s] = "hello" /\ who'[s] = NoIdentity
  BY <1>1, <1>3 DEF IInv, Born, Session
<1>9. MintedNamesDiffer'
  <2>1. \A s \in listed : name'[s] = minted[s] => name[s] = minted[s]
    BY <1>2, <1>4
  <2>2. \A s \in listed : name'[s] = minted[s] => name'[s] = name[s]
    BY <2>1
  <2> QED
    BY <1>1, <2>1, <2>2 DEF IInv, MintedNamesDiffer
<1> QED
  BY <1>1, <1>6, <1>7, <1>8, <1>9 DEF IInv

LEMMA StopNamed == ASSUME NEW t \in Session PROVE IInv /\ Stop(t) => IInv'
<1> SUFFICES ASSUME IInv, Stop(t) PROVE IInv'
  OBVIOUS
<1>1. listed' = listed \ {t} /\ UNCHANGED <<born, name, minted, who, pc, adopted>>
  BY DEF Stop
<1>2. TypeOK'
  BY <1>1 DEF IInv, TypeOK
<1>3. Born' = Born /\ \A s \in Born : Named(s)' = Named(s)
  BY <1>1 DEF Born, Named, FamilyNames, Kin
<1>4. MintedNamesDiffer'
  BY <1>1 DEF IInv, MintedNamesDiffer
<1> QED
  BY <1>1, <1>2, <1>3, <1>4 DEF IInv

LEMMA StutterNamed == IInv /\ UNCHANGED vars => IInv'
<1> SUFFICES ASSUME IInv, UNCHANGED vars PROVE IInv'
  OBVIOUS
<1>1. UNCHANGED <<born, listed, name, minted, who, pc, adopted>>
  BY DEF vars
<1>2. TypeOK'
  BY <1>1 DEF IInv, TypeOK
<1>3. Born' = Born /\ \A s \in Born : Named(s)' = Named(s)
  BY <1>1 DEF Born, Named, FamilyNames, Kin
<1>4. MintedNamesDiffer'
  BY <1>1 DEF IInv, MintedNamesDiffer
<1> QED
  BY <1>1, <1>2, <1>3, <1>4 DEF IInv

LEMMA NextNamed == IInv /\ [Next]_vars => IInv'
<1> SUFFICES ASSUME IInv, [Next]_vars PROVE IInv'
  OBVIOUS
<1>1. CASE Start
  BY <1>1, StartNamed
<1>2. ASSUME NEW t \in Session, Worker(t) PROVE IInv'
  BY <1>2, HelloNamed, AloneNamed, AdoptNamed, RenameNamed DEF Worker
<1>3. ASSUME NEW t \in Session, Stop(t) PROVE IInv'
  BY <1>3, StopNamed
<1>4. CASE UNCHANGED vars
  BY <1>4, StutterNamed
<1> QED
  BY <1>1, <1>2, <1>3, <1>4 DEF Next, Settled

LEMMA InvariantHolds == Spec => []IInv
  BY InitNamed, NextNamed, PTL DEF Spec
----------------------------------------------------------------------------
(* What it shows.                                                          *)

\* The variables have their types, and a listed session has a name.
THEOREM TypeCorrect == Spec => []TypeOK
<1>1. IInv => TypeOK
  BY DEF IInv
<1> QED
  BY <1>1, InvariantHolds, PTL

\* A session goes by a name that was minted for its own device, however often
\* the name was passed on (bridge_session_worker's adoption, agent.inl).
THEOREM NamesStayWithDevice == Spec => []NameOfOwnDevice
<1>1. IInv => NameOfOwnDevice
  BY DEF IInv, Named, FamilyNames, Kin, Born, NameOfOwnDevice
<1> QED
  BY <1>1, InvariantHolds, PTL

\* Two sessions that were not renamed have different names: minting looks at the
\* list under its mutex (start_bridge_session, agent.inl), and no worker can
\* bring back a name that was given up.
THEOREM MintedApart == Spec => []MintedNamesDiffer
<1>1. IInv => MintedNamesDiffer
  BY DEF IInv
<1> QED
  BY <1>1, InvariantHolds, PTL

\* A session is called by a name of its own device, and no name is minted for two
\* (nicknames.inl).
THEOREM NamesKept == Spec => []NamesHold
<1>1. (NameOfOwnDevice /\ MintedNamesDiffer) => NamesHold
  BY DEF NamesHold
<1>2. QED
  BY NamesStayWithDevice, MintedApart, <1>1, PTL
----------------------------------------------------------------------------
(* WindowMover: a pad's tap is its own.                                    *)

Flags == [MPad -> BOOLEAN]

\* A pad that is held was seen with Options, and one that has steered is held and moved.
MoverInv ==
    /\ MoverTypeOK /\ SnapsAreOwn
    /\ hand \in [MPad -> SUBSET MBtn]
    /\ held \in Flags /\ moved \in Flags /\ own \in Flags /\ steered \in Flags
    /\ \A p \in MPad : /\ held[p] => own[p]
                       /\ steered[p] => held[p] /\ moved[p]

LEMMA MoverBegins == ASSUME MoverInit PROVE MoverInv
<1>1. front \in BOOLEAN
  BY Zenon DEF MoverInit
<1> QED
  BY <1>1, MoverAssumption DEF MoverInit, MoverInv, MoverTypeOK, SnapsAreOwn, None, Flags

LEMMA MoverAbandons == ASSUME MoverInv, NEW p \in MPad, Abandons(p) PROVE MoverInv'
<1>1. None \in Flags /\ \A q \in MPad : ~None[q]
  BY DEF None, Flags
<1>2. /\ held' = None /\ moved' = None /\ steered' = None /\ ~snaps'
      /\ UNCHANGED <<front, hand, hands>>
  BY DEF Abandons
<1>3. own' \in Flags
  <2> DEFINE d == "options" \in hand[p]
  <2>1. d \in BOOLEAN
    OBVIOUS
  <2>2. own' = [own EXCEPT ![p] = d]
    BY DEF Abandons, Sees
  <2> HIDE DEF d
  <2> QED
    BY <2>1, <2>2 DEF MoverInv, Flags
<1>4. MoverTypeOK'
  BY <1>2, Zenon DEF MoverInv, MoverTypeOK
<1> QED
  BY <1>1, <1>2, <1>3, <1>4 DEF MoverInv, SnapsAreOwn

LEMMA MoverSteps ==
  ASSUME MoverInv, NEW p \in MPad, NEW steers \in BOOLEAN, Steps(p, steers)
  PROVE  MoverInv'
<1> DEFINE down == "options" \in hand[p]
           does == down /\ held[p] /\ steers
           mv   == IF down THEN held[p] /\ (moved[p] \/ steers) ELSE moved[p]
           st   == down /\ (steered[p] \/ does)
<1>1. down \in BOOLEAN
  OBVIOUS
<1>2. /\ held[p] \in BOOLEAN /\ moved[p] \in BOOLEAN /\ steered[p] \in BOOLEAN
  BY DEF MoverInv, Flags
<1>3. mv \in BOOLEAN
  BY <1>2
<1>4. st \in BOOLEAN
  BY <1>2
<1>5. /\ held' = [q \in MPad |-> IF q = p THEN down ELSE held[q]]
      /\ moved' = [q \in MPad |-> IF q = p THEN mv ELSE moved[q]]
  BY DEF Steps, OfPad
<1>6. /\ steered' = [steered EXCEPT ![p] = st] /\ own' = [own EXCEPT ![p] = down]
      /\ lastOwn' = own[p] /\ lastSteered' = steered[p]
      /\ snaps' = (held[p] /\ ~down /\ ~moved[p])
      /\ UNCHANGED <<front, hand, hands>>
  BY DEF Steps, Sees
<1>7. /\ st => down /\ mv
      /\ held[p] => own[p]
      /\ steered[p] => held[p] /\ moved[p]
  BY DEF MoverInv
<1>8. MoverTypeOK'
  BY <1>6, Zenon DEF MoverInv, MoverTypeOK
<1>9. SnapsAreOwn'
  BY <1>6, <1>7 DEF SnapsAreOwn
<1> HIDE DEF down, mv, st
<1>10. held' \in Flags /\ moved' \in Flags
  BY <1>1, <1>3, <1>5 DEF MoverInv, Flags
<1>11. steered' \in Flags /\ own' \in Flags
  BY <1>1, <1>4, <1>6 DEF MoverInv, Flags
<1>12. \A q \in MPad : /\ held'[q] => own'[q]
                       /\ steered'[q] => held'[q] /\ moved'[q]
  BY <1>5, <1>6, <1>7 DEF MoverInv, Flags
<1> QED
  BY <1>6, <1>8, <1>9, <1>10, <1>11, <1>12 DEF MoverInv

LEMMA MoverHands == ASSUME MoverInv, NEW p \in MPad, NEW b \in MBtn, PersonHolds(p, b) PROVE MoverInv'
<1>1. /\ hand' = [hand EXCEPT ![p] = IF b \in @ THEN @ \ {b} ELSE @ \cup {b}]
      /\ hands < MaxHands /\ hands' = hands + 1
      /\ UNCHANGED <<held, moved, snaps, own, steered, lastOwn, lastSteered>>
  BY DEF PersonHolds, Hands
<1>2. front' \in BOOLEAN
  BY Zenon DEF PersonHolds, MoverInv, MoverTypeOK
<1>3. hand' \in [MPad -> SUBSET MBtn]
  BY <1>1 DEF MoverInv
<1>4. MoverTypeOK'
  BY <1>1, <1>2, <1>3, MoverAssumption DEF MoverInv, MoverTypeOK
<1> QED
  BY <1>1, <1>3, <1>4 DEF MoverInv, SnapsAreOwn

LEMMA MoverFront == ASSUME MoverInv, FrontTurns PROVE MoverInv'
<1>1. /\ hands < MaxHands /\ hands' = hands + 1
      /\ UNCHANGED <<hand, held, moved, snaps, own, steered, lastOwn, lastSteered>>
  BY DEF FrontTurns, Hands
<1>2. front' \in BOOLEAN
  BY Zenon DEF FrontTurns
<1>3. MoverTypeOK'
  BY <1>1, <1>2, MoverAssumption DEF MoverInv, MoverTypeOK
<1> QED
  BY <1>1, <1>3 DEF MoverInv, SnapsAreOwn

LEMMA MoverKeeps == ASSUME MoverInv, [MoverNext]_moverVars PROVE MoverInv'
<1>1. CASE UNCHANGED moverVars
  <2>1. UNCHANGED <<front, hand, held, moved, snaps, own, steered, lastOwn, lastSteered, hands>>
    BY <1>1 DEF moverVars
  <2>2. MoverTypeOK'
    BY <2>1, Zenon DEF MoverInv, MoverTypeOK
  <2> QED
    BY <2>1, <2>2, Zenon DEF MoverInv, SnapsAreOwn
<1>2. CASE MoverNext
  BY <1>2, MoverAbandons, MoverSteps, MoverHands, MoverFront, Zenon DEF MoverNext
<1> QED
  BY <1>1, <1>2
----------------------------------------------------------------------------
(* BtBackend: the paced reports keep their order, and the threads end      *)
(* before the handle.                                                      *)

Rising(q) == \A i, j \in DOMAIN q : i < j => q[i] < q[j]

\* What was sent, what is in hand and what is queued follow one another.
PacedInOrder ==
    /\ queue \in Seq(Nat) /\ wrote \in Seq(Nat)
    /\ Rising(wrote) /\ Rising(queue)
    /\ \A i \in DOMAIN wrote : wrote[i] \in 1..paced
    /\ \A j \in DOMAIN queue : queue[j] \in 1..paced
    /\ \A i \in DOMAIN wrote, j \in DOMAIN queue : wrote[i] < queue[j]
    /\ inHand # 0 => /\ \A i \in DOMAIN wrote : wrote[i] < inHand
                     /\ \A j \in DOMAIN queue : inHand < queue[j]
    /\ queue # <<>> => queue[Len(queue)] = paced

\* The writer has a report in hand from the moment it takes it to the end of its write.
BtInv ==
    /\ BtTypeOK /\ PacedInOrder
    /\ inHand # 0 <=> writer \in {"took", "write"}
    /\ handle = "closed" => stop = "closed" /\ reader = "done" /\ writer = "done"
    /\ stop = "new" => reader = "off" /\ writer = "off"

LEMMA BtBegins == ASSUME BtInit PROVE BtInv
<1>1. alive \in BOOLEAN
  BY Zenon DEF BtInit
<1> QED
  BY <1>1, BtAssumption DEF BtInit, BtInv, BtTypeOK, PacedInOrder, Rising

\* The steps that leave the paced reports alone.
LEMMA BtCalm ==
  ASSUME BtInv, UNCHANGED <<queue, paced, inHand, wrote>>,
         alive' \in BOOLEAN, handle' \in {"none", "open", "closed"},
         stop' \in {"new", "up", "flagged", "cancelled", "notified", "closed"},
         reader' \in {"off", "test", "issue", "reading", "done"},
         writer' \in {"off", "check", "holds", "asleep", "took", "write", "done"},
         reads' \in 0..MaxReads, requests' \in 0..MaxCalls,
         io' \in {"free", "writer", "caller"}, ended' \in {"none", "true", "false"},
         missed' \subseteq {"reader", "writer"},
         writer \in {"took", "write"} <=> writer' \in {"took", "write"},
         handle' = "closed" => stop' = "closed" /\ reader' = "done" /\ writer' = "done",
         stop' = "new" => reader' = "off" /\ writer' = "off"
  PROVE  BtInv'
<1>1. BtTypeOK'
  BY DEF BtInv, BtTypeOK
<1>2. PacedInOrder'
  BY DEF BtInv, PacedInOrder, Rising
<1> QED
  BY <1>1, <1>2 DEF BtInv

LEMMA BtStarts == ASSUME BtInv, BtStart PROVE BtInv'
<1>1. alive' \in BOOLEAN
  BY Zenon DEF BtStart
<1>2. /\ stop' = "up" /\ handle' = "open" /\ reader' = "test" /\ writer' = "check" /\ stop = "new"
      /\ UNCHANGED <<queue, paced, reads, inHand, wrote, io, ended, requests, missed>>
  BY DEF BtStart, askVars
<1>3. writer \notin {"took", "write"}
  BY <1>2 DEF BtInv
<1> QED
  BY <1>1, <1>2, <1>3, BtCalm DEF BtInv, BtTypeOK

LEMMA BtReads ==
  ASSUME BtInv, ReadTests \/ ReadIssues \/ ReadCompletes \/ ReadBreaks
  PROVE  BtInv'
<1>1. UNCHANGED <<alive, handle, stop, missed, writer, queue, paced, inHand, wrote, io, ended, requests>>
  BY Zenon DEF ReadTests, ReadIssues, ReadCompletes, ReadBreaks, ReadRest, lifeVars, pacedVars, askVars
<1>2. reader \notin {"done", "off"} /\ reader' \in {"test", "issue", "reading", "done"}
  BY DEF ReadTests, ReadIssues, ReadCompletes, ReadBreaks
<1>3. reads' \in 0..MaxReads
  BY BtAssumption DEF ReadTests, ReadIssues, ReadCompletes, ReadBreaks, BtInv, BtTypeOK
<1>4. alive' \in BOOLEAN
  BY <1>1, Zenon DEF BtInv, BtTypeOK
<1>5. handle # "closed"
  BY <1>2 DEF BtInv
<1> QED
  BY <1>1, <1>2, <1>3, <1>4, <1>5, BtCalm DEF BtInv, BtTypeOK

LEMMA BtAsks == ASSUME BtInv, AskBegins \/ AskActs \/ AskEnds PROVE BtInv'
<1>1. UNCHANGED <<alive, handle, stop, missed, writer, queue, paced, inHand, wrote, reader, reads>>
  BY Zenon DEF AskBegins, AskActs, AskEnds, AskRest, lifeVars, pacedVars
<1>2. /\ io' \in {"free", "writer", "caller"} /\ ended' \in {"none", "true", "false"}
      /\ requests' \in 0..MaxCalls
  BY BtAssumption DEF AskBegins, AskActs, AskEnds, BtInv, BtTypeOK
<1>3. alive' \in BOOLEAN
  BY <1>1, Zenon DEF BtInv, BtTypeOK
<1> QED
  BY <1>1, <1>2, <1>3, BtCalm DEF BtInv, BtTypeOK

LEMMA BtStops == ASSUME BtInv, StopFlags \/ StopRuns PROVE BtInv'
<1>1. UNCHANGED <<queue, paced, reads, inHand, wrote, io, ended, requests>>
  BY DEF StopFlags, StopRuns, StopCancels, StopNotifies, StopCloses, StopRest, askVars
<1>2. alive' \in BOOLEAN
  BY Zenon DEF StopFlags, StopRuns, StopCancels, StopNotifies, StopCloses, BtInv, BtTypeOK
<1>3. stop \in {"up", "flagged", "cancelled", "notified"} /\ stop' \in {"flagged", "cancelled", "notified", "closed"}
  BY DEF StopFlags, StopRuns, StopCancels, StopNotifies, StopCloses
<1>4. handle # "closed"
  BY <1>3 DEF BtInv
<1>5. /\ reader' \in {reader, "test"}
      /\ \/ writer' = writer
         \/ writer = "asleep" /\ writer' = "check"
      /\ \/ handle' = handle
         \/ handle' = "closed" /\ stop' = "closed" /\ reader' = "done" /\ writer' = "done"
  BY DEF StopFlags, StopRuns, StopCancels, StopNotifies, StopCloses, StopJoins
<1>6. missed' \subseteq {"reader", "writer"}
  BY DEF StopFlags, StopRuns, StopCancels, StopNotifies, StopCloses, BtInv, BtTypeOK
<1>7. /\ reader' \in {"off", "test", "issue", "reading", "done"} /\ handle' \in {"none", "open", "closed"}
      /\ writer' \in {"off", "check", "holds", "asleep", "took", "write", "done"}
      /\ (writer \in {"took", "write"} <=> writer' \in {"took", "write"})
  BY <1>5 DEF BtInv, BtTypeOK
<1> QED
  BY <1>1, <1>2, <1>3, <1>4, <1>5, <1>6, <1>7, BtCalm DEF BtInv, BtTypeOK

\* The report that joins the queue is newer than all of them.
LEMMA FrontDrops ==
  ASSUME NEW q \in Seq(Nat), q # <<>>, Rising(q)
  PROVE  /\ Tail(q) \in Seq(Nat) /\ Len(Tail(q)) = Len(q) - 1 /\ Rising(Tail(q))
         /\ \A i \in DOMAIN Tail(q) : i + 1 \in DOMAIN q /\ Tail(q)[i] = q[i + 1]
<1>1. /\ Tail(q) \in Seq(Nat) /\ Len(Tail(q)) = Len(q) - 1
      /\ \A i \in DOMAIN Tail(q) : i \in Nat /\ i + 1 \in DOMAIN q /\ Tail(q)[i] = q[i + 1]
  OBVIOUS
<1> DEFINE t == Tail(q)
<1> HIDE DEF t
<1>2. Rising(t)
  BY <1>1 DEF Rising, t
<1> QED
  BY <1>1, <1>2 DEF t

LEMMA BackJoins ==
  ASSUME NEW q \in Seq(Nat), NEW n \in Nat, Rising(q), \A i \in DOMAIN q : q[i] < n
  PROVE  /\ Rising(Append(q, n)) /\ Append(q, n) \in Seq(Nat) /\ Len(Append(q, n)) = Len(q) + 1
         /\ DOMAIN Append(q, n) = 1..(Len(q) + 1) /\ Append(q, n)[Len(q) + 1] = n
         /\ \A i \in DOMAIN q : Append(q, n)[i] = q[i]
         /\ \A i \in DOMAIN Append(q, n) : i \in DOMAIN q \/ i = Len(q) + 1
<1>1. /\ Append(q, n) \in Seq(Nat) /\ Len(Append(q, n)) = Len(q) + 1
      /\ DOMAIN Append(q, n) = 1..(Len(q) + 1) /\ DOMAIN q = 1..Len(q) /\ Len(q) \in Nat
      /\ \A i \in DOMAIN q : Append(q, n)[i] = q[i] /\ i < Len(q) + 1
      /\ Append(q, n)[Len(q) + 1] = n
  OBVIOUS
<1> DEFINE p == Append(q, n)
<1> HIDE DEF p
<1>2. Rising(p)
  BY <1>1 DEF Rising, p
<1> QED
  BY <1>1, <1>2 DEF p

LEMMA BtQueues == ASSUME BtInv, SendPaced PROVE BtInv'
<1> USE BtAssumption
<1> DEFINE q == IF Len(queue) >= MaxQueued THEN Tail(queue) ELSE queue
<1>1. /\ queue \in Seq(Nat) /\ wrote \in Seq(Nat) /\ paced \in Nat /\ paced < MaxPaced /\ paced' = paced + 1
      /\ queue' = Append(q, paced + 1) /\ Len(queue) <= MaxQueued /\ inHand \in 0..paced
  BY DEF SendPaced, Queued, BtInv, BtTypeOK, PacedInOrder
<1>2. UNCHANGED <<alive, handle, stop, missed, reader, reads, inHand, wrote, io, ended, requests>>
  BY DEF SendPaced, lifeVars, askVars
<1>3. writer' \in {writer, "check"} /\ (writer' # writer => writer = "asleep")
  BY DEF SendPaced
<1>4. q \in Seq(Nat) /\ Len(q) < MaxQueued /\ Rising(q)
  <2>1. Rising(queue) /\ (Len(queue) >= MaxQueued => queue # <<>>)
    BY <1>1 DEF BtInv, PacedInOrder
  <2>2. CASE Len(queue) >= MaxQueued
    <3>1. q = Tail(queue)
      BY <2>2
    <3>2. Rising(Tail(queue)) /\ Tail(queue) \in Seq(Nat) /\ Len(Tail(queue)) = Len(queue) - 1
      BY <1>1, <2>1, <2>2, FrontDrops
    <3> QED
      BY <1>1, <2>2, <3>1, <3>2
  <2>3. CASE ~(Len(queue) >= MaxQueued)
    BY <1>1, <2>1, <2>3
  <2> QED
    BY <2>2, <2>3
<1>5. \A j \in DOMAIN q : \E k \in DOMAIN queue : q[j] = queue[k]
  <2>1. CASE Len(queue) >= MaxQueued
    <3>1. q = Tail(queue) /\ queue # <<>> /\ Rising(queue)
      BY <1>1, <2>1 DEF BtInv, PacedInOrder
    <3> QED
      BY <1>1, <3>1, FrontDrops
  <2>2. CASE ~(Len(queue) >= MaxQueued)
    BY <2>2
  <2> QED
    BY <2>1, <2>2
<1> HIDE DEF q
<1>6. \A j \in DOMAIN q : q[j] \in 1..paced /\ q[j] < paced + 1
  <2>1. \A k \in DOMAIN queue : queue[k] \in 1..paced
    BY DEF BtInv, PacedInOrder
  <2> QED
    BY <1>1, <1>5, <2>1
<1>8. /\ Rising(queue') /\ queue' \in Seq(Nat) /\ Len(queue') = Len(q) + 1
      /\ queue'[Len(queue')] = paced' /\ DOMAIN queue' = 1..(Len(q) + 1)
      /\ \A j \in DOMAIN q : queue'[j] = q[j]
      /\ \A j \in DOMAIN queue' : j \in DOMAIN q \/ queue'[j] = paced'
  BY <1>1, <1>4, <1>6, BackJoins
<1>7. \A j \in DOMAIN queue' : \/ queue'[j] = paced'
                               \/ \E k \in DOMAIN queue : queue'[j] = queue[k]
  BY <1>5, <1>8
<1>9. PacedInOrder'
  <2>1. \A j \in DOMAIN queue' : queue'[j] \in 1..paced'
    <3>1. \A k \in DOMAIN queue : queue[k] \in 1..paced
      BY DEF BtInv, PacedInOrder
    <3>2. paced' \in Nat /\ paced < paced' /\ 0 < paced'
      BY <1>1
    <3>3. 1..paced \subseteq 1..paced' /\ paced' \in 1..paced'
      BY <1>1
    <3> QED
      BY <1>7, <3>1, <3>3, Zenon
  <2>2. \A i \in DOMAIN wrote' : wrote'[i] \in 1..paced'
    BY <1>1, <1>2 DEF BtInv, PacedInOrder
  <2>3. \A i \in DOMAIN wrote', j \in DOMAIN queue' : wrote'[i] < queue'[j]
    <3> SUFFICES ASSUME NEW i \in DOMAIN wrote, NEW j \in DOMAIN queue' PROVE wrote[i] < queue'[j]
      BY <1>2
    <3>1. wrote[i] \in 1..paced /\ \A k \in DOMAIN queue : wrote[i] < queue[k]
      BY DEF BtInv, PacedInOrder
    <3>2. CASE queue'[j] = paced'
      BY <1>1, <3>1, <3>2
    <3>3. CASE \E k \in DOMAIN queue : queue'[j] = queue[k]
      BY <3>1, <3>3
    <3> QED
      BY <1>7, <3>2, <3>3
  <2>4. inHand' # 0 => \A j \in DOMAIN queue' : inHand' < queue'[j]
    <3> SUFFICES ASSUME inHand # 0, NEW j \in DOMAIN queue' PROVE inHand < queue'[j]
      BY <1>2
    <3>1. \A k \in DOMAIN queue : inHand < queue[k]
      BY DEF BtInv, PacedInOrder
    <3>2. CASE queue'[j] = paced'
      BY <1>1, <3>2
    <3>3. CASE \E k \in DOMAIN queue : queue'[j] = queue[k]
      BY <3>1, <3>3
    <3> QED
      BY <1>7, <3>2, <3>3
  <2>5. /\ Rising(wrote') /\ (inHand' # 0 => \A i \in DOMAIN wrote' : wrote'[i] < inHand')
    BY <1>2 DEF BtInv, PacedInOrder
  <2> QED
    BY <1>1, <1>2, <1>6, <1>8, <2>1, <2>2, <2>3, <2>4, <2>5 DEF PacedInOrder, Rising
<1>10. alive' \in BOOLEAN
  BY <1>2, Zenon DEF BtInv, BtTypeOK
<1>11. BtTypeOK'
  BY <1>1, <1>2, <1>3, <1>4, <1>6, <1>10 DEF BtInv, BtTypeOK
<1> QED
  BY <1>2, <1>3, <1>9, <1>11 DEF BtInv

\* The writer takes the oldest, or finds none.
LEMMA BtChecks == ASSUME BtInv, WriterChecks PROVE BtInv'
<1> USE BtAssumption
<1>1. /\ queue \in Seq(Nat) /\ wrote \in Seq(Nat) /\ inHand = 0 /\ paced \in Nat
  BY DEF WriterChecks, BtInv, BtTypeOK, PacedInOrder
<1>2. UNCHANGED <<alive, handle, stop, missed, reader, reads, paced, wrote, io, ended, requests>>
  BY DEF WriterChecks, lifeVars, askVars
<1>3. alive' \in BOOLEAN
  BY <1>2, Zenon DEF BtInv, BtTypeOK
<1>4. handle # "closed" /\ stop # "new"
  BY DEF WriterChecks, BtInv
<1>5. CASE ~Waits /\ alive
  <2>1. queue # <<>> /\ inHand' = Head(queue) /\ queue' = Tail(queue) /\ writer' = "took"
    BY <1>5 DEF WriterChecks, Waits
  <2>2. /\ Len(queue) > 0 /\ queue' \in Seq(Nat) /\ Len(queue') = Len(queue) - 1 /\ inHand' = queue[1]
        /\ \A j \in DOMAIN queue' : j + 1 \in DOMAIN queue /\ queue'[j] = queue[j + 1]
        /\ DOMAIN queue' = 1..(Len(queue) - 1) /\ 1 \in DOMAIN queue
    BY <1>1, <2>1
  <2>3. inHand' \in 1..paced
    BY <2>2 DEF BtInv, PacedInOrder
  <2>4. Rising(queue')
    <3>1. Rising(queue)
      BY DEF BtInv, PacedInOrder
    <3> QED
      BY <1>1, <2>1, <3>1, FrontDrops
  <2>5. \A j \in DOMAIN queue' : queue'[j] \in 1..paced /\ inHand' < queue'[j]
    <3> SUFFICES ASSUME NEW j \in DOMAIN queue' PROVE queue'[j] \in 1..paced /\ inHand' < queue'[j]
      OBVIOUS
    <3>1. /\ j + 1 \in DOMAIN queue /\ 1 < j + 1 /\ queue'[j] = queue[j + 1]
      BY <2>2
    <3>2. queue[j + 1] \in 1..paced /\ queue[1] < queue[j + 1]
      BY <2>2, <3>1 DEF BtInv, PacedInOrder, Rising
    <3> QED
      BY <2>2, <3>1, <3>2
  <2>6. \A i \in DOMAIN wrote : wrote[i] < inHand' /\ \A j \in DOMAIN queue' : wrote[i] < queue'[j]
    BY <1>1, <2>2 DEF BtInv, PacedInOrder
  <2>7. queue' # <<>> => queue'[Len(queue')] = paced
    <3>1. queue[Len(queue)] = paced
      BY <2>1 DEF BtInv, PacedInOrder
    <3>2. queue' # <<>> => Len(queue') \in DOMAIN queue'
      BY <2>2
    <3> QED
      BY <2>2, <3>1, <3>2
  <2>8. PacedInOrder'
    <3>1. Rising(wrote') /\ \A i \in DOMAIN wrote' : wrote'[i] \in 1..paced'
      BY <1>2 DEF BtInv, PacedInOrder
    <3> QED
      BY <1>1, <1>2, <2>2, <2>4, <2>5, <2>6, <2>7, <3>1 DEF PacedInOrder, Rising
  <2>9. BtTypeOK'
    BY <1>2, <1>3, <2>1, <2>2, <2>3 DEF BtInv, BtTypeOK
  <2> QED
    BY <1>2, <1>4, <2>1, <2>3, <2>8, <2>9 DEF BtInv
<1>6. CASE ~(~Waits /\ alive)
  <2>1. UNCHANGED <<inHand, queue>> /\ writer' \in {"holds", "done"} /\ writer = "check"
    BY <1>6 DEF WriterChecks
  <2> QED
    BY <1>2, <1>3, <1>4, <2>1, BtCalm DEF BtInv, BtTypeOK
<1> QED
  BY <1>5, <1>6

LEMMA BtWrites == ASSUME BtInv, WriterWrites PROVE BtInv'
<1> USE BtAssumption
<1>1. /\ queue \in Seq(Nat) /\ wrote \in Seq(Nat) /\ inHand \in 1..paced /\ paced \in Nat /\ writer = "write"
  BY DEF WriterWrites, BtInv, BtTypeOK, PacedInOrder
<1>2. /\ UNCHANGED <<alive, handle, stop, missed, reader, reads, queue, paced, ended, requests>>
      /\ io' = "free" /\ inHand' = 0 /\ writer' \in {"check", "done"}
      /\ (wrote' = Append(wrote, inHand) \/ wrote' = wrote)
  BY DEF WriterWrites, lifeVars, askVars
<1>3. alive' \in BOOLEAN
  BY <1>2, Zenon DEF BtInv, BtTypeOK
<1>4. handle # "closed" /\ stop # "new"
  BY <1>1 DEF BtInv
<1>5. /\ \A i \in DOMAIN wrote : wrote[i] \in 1..paced /\ wrote[i] < inHand
      /\ \A j \in DOMAIN queue : queue[j] \in 1..paced /\ inHand < queue[j]
      /\ \A i \in DOMAIN wrote, j \in DOMAIN queue : wrote[i] < queue[j]
      /\ Rising(wrote) /\ Rising(queue) /\ (queue # <<>> => queue[Len(queue)] = paced)
  BY <1>1 DEF BtInv, PacedInOrder
<1>6. /\ wrote' \in Seq(Nat) /\ Rising(wrote')
      /\ \A i \in DOMAIN wrote' : /\ wrote'[i] \in 1..paced
                                  /\ \A j \in DOMAIN queue : wrote'[i] < queue[j]
  <2>1. CASE wrote' = wrote
    BY <1>1, <1>5, <2>1 DEF Rising
  <2>2. CASE wrote' = Append(wrote, inHand)
    <3>1. /\ wrote' \in Seq(Nat) /\ DOMAIN wrote' = 1..(Len(wrote) + 1) /\ DOMAIN wrote = 1..Len(wrote)
          /\ Len(wrote) \in Nat /\ wrote'[Len(wrote) + 1] = inHand
          /\ \A i \in DOMAIN wrote : wrote'[i] = wrote[i]
      BY <1>1, <2>2
    <3>2. \A i \in DOMAIN wrote' : i \in DOMAIN wrote \/ i = Len(wrote) + 1
      BY <3>1
    <3>3. Rising(wrote')
      <4> SUFFICES ASSUME NEW i \in DOMAIN wrote', NEW j \in DOMAIN wrote', i < j
                   PROVE  wrote'[i] < wrote'[j]
        BY DEF Rising
      <4>1. i \in DOMAIN wrote
        BY <3>1
      <4>2. CASE j \in DOMAIN wrote
        BY <1>5, <3>1, <4>1, <4>2 DEF Rising
      <4>3. CASE j = Len(wrote) + 1
        BY <1>5, <3>1, <4>1, <4>3
      <4> QED
        BY <3>2, <4>2, <4>3
    <3>4. ASSUME NEW i \in DOMAIN wrote' PROVE wrote'[i] \in 1..paced /\ wrote'[i] <= inHand
      <4>1. CASE i \in DOMAIN wrote
        BY <1>1, <1>5, <3>1, <4>1
      <4>2. CASE i = Len(wrote) + 1
        BY <1>1, <3>1, <4>2
      <4> QED
        BY <3>2, <4>1, <4>2
    <3>5. \A i \in DOMAIN wrote', j \in DOMAIN queue : wrote'[i] < queue[j]
      BY <1>1, <1>5, <3>4
    <3> QED
      BY <3>1, <3>3, <3>4, <3>5
  <2> QED
    BY <1>2, <2>1, <2>2
<1>7. PacedInOrder'
  BY <1>1, <1>2, <1>5, <1>6 DEF PacedInOrder, Rising
<1>8. BtTypeOK'
  BY <1>1, <1>2, <1>3 DEF BtInv, BtTypeOK
<1> QED
  BY <1>2, <1>4, <1>7, <1>8 DEF BtInv

LEMMA BtWaits == ASSUME BtInv, WriterSleeps \/ WriterLocks PROVE BtInv'
<1>1. UNCHANGED <<alive, handle, stop, missed, reader, reads, queue, paced, inHand, wrote, ended, requests>>
  BY DEF WriterSleeps, WriterLocks, lifeVars, askVars
<1>2. alive' \in BOOLEAN
  BY <1>1, Zenon DEF BtInv, BtTypeOK
<1>3. \/ writer = "holds" /\ writer' = "asleep" /\ io' = io
      \/ writer = "took" /\ writer' = "write" /\ io' = "writer"
  BY DEF WriterSleeps, WriterLocks
<1>4. handle # "closed"
  BY <1>3 DEF BtInv
<1> QED
  BY <1>1, <1>2, <1>3, <1>4, BtCalm DEF BtInv, BtTypeOK

LEMMA BtKeeps == ASSUME BtInv, [BtNext]_btVars PROVE BtInv'
<1>1. CASE UNCHANGED btVars
  <2>1. UNCHANGED <<alive, handle, stop, missed, reader, writer, reads, queue, paced, inHand, wrote,
                    io, ended, requests>>
    BY <1>1 DEF btVars
  <2>2. alive' \in BOOLEAN
    BY <2>1, Zenon DEF BtInv, BtTypeOK
  <2> QED
    BY <2>1, <2>2, BtCalm DEF BtInv, BtTypeOK
<1>2. CASE BtNext
  BY <1>2, BtStarts, BtReads, BtAsks, BtStops, BtQueues, BtChecks, BtWrites, BtWaits, Zenon
     DEF BtNext, ReaderRuns, WriterRuns, AskRuns
<1> QED
  BY <1>1, <1>2

LEMMA BtMeans == ASSUME BtInv PROVE PacedIsNewest
<1> DEFINE hand1 == IF inHand = 0 THEN <<>> ELSE <<inHand>>
           line == wrote \o hand1 \o queue
<1>1. queue \in Seq(Nat) /\ wrote \in Seq(Nat) /\ hand1 \in Seq(Nat)
  BY BtAssumption DEF BtInv, BtTypeOK, PacedInOrder
<1>2. CASE inHand = 0
  <2>1. line = wrote \o queue
    BY <1>1, <1>2
  <2>2. \A i, j \in DOMAIN (wrote \o queue) : i < j => (wrote \o queue)[i] < (wrote \o queue)[j]
    BY <1>1 DEF BtInv, PacedInOrder, Rising
  <2>3. queue # <<>> => Last(queue) = paced
    BY DEF BtInv, PacedInOrder, Last
  <2>4. handle = "closed" => reader = "done" /\ writer = "done"
    BY DEF BtInv
  <2> QED
    BY <2>1, <2>2, <2>3, <2>4 DEF PacedIsNewest
<1>3. CASE inHand # 0
  <2>1. line = wrote \o <<inHand>> \o queue /\ inHand \in Nat
    <3>1. hand1 = <<inHand>>
      BY <1>3
    <3>2. inHand \in Nat
      BY BtAssumption DEF BtInv, BtTypeOK
    <3> QED
      BY <3>1, <3>2
  <2> DEFINE l == wrote \o <<inHand>> \o queue
             n == Len(wrote)
  <2>2. /\ DOMAIN l = 1..(n + 1 + Len(queue)) /\ n \in Nat /\ Len(queue) \in Nat
        /\ \A i \in DOMAIN l : l[i] = IF i <= n THEN wrote[i]
                                      ELSE IF i = n + 1 THEN inHand ELSE queue[i - (n + 1)]
    BY <1>1, <2>1
  <2> HIDE DEF l
  <2>3. \A i, j \in DOMAIN l : i < j => l[i] < l[j]
    <3> SUFFICES ASSUME NEW i \in DOMAIN l, NEW j \in DOMAIN l, i < j PROVE l[i] < l[j]
      OBVIOUS
    <3>1. DOMAIN wrote = 1..n /\ DOMAIN queue = 1..Len(queue)
      BY <1>1
    <3>2. CASE j <= n
      <4>1. i \in DOMAIN wrote /\ j \in DOMAIN wrote
        BY <2>2, <3>1, <3>2
      <4> QED
        BY <2>2, <3>2, <4>1 DEF BtInv, PacedInOrder, Rising
    <3>3. CASE j = n + 1
      <4>1. i \in DOMAIN wrote /\ i <= n /\ ~(j <= n)
        BY <2>2, <3>1, <3>3
      <4> QED
        BY <1>3, <2>2, <3>3, <4>1 DEF BtInv, PacedInOrder
    <3>4. CASE j > n + 1
      <4> DEFINE k == j - (n + 1)
      <4>1. k \in DOMAIN queue /\ ~(j <= n) /\ j # n + 1
        BY <2>2, <3>1, <3>4
      <4>2. l[j] = queue[k]
        BY <2>2, <4>1
      <4>3. CASE i <= n
        <5>1. i \in DOMAIN wrote /\ l[i] = wrote[i]
          BY <2>2, <3>1, <4>3
        <5> QED
          BY <4>1, <4>2, <5>1 DEF BtInv, PacedInOrder
      <4>4. CASE i = n + 1
        <5>1. l[i] = inHand
          BY <2>2, <4>4
        <5> QED
          BY <1>3, <4>1, <4>2, <5>1 DEF BtInv, PacedInOrder
      <4>5. CASE i > n + 1
        <5> DEFINE h == i - (n + 1)
        <5>1. h \in DOMAIN queue /\ ~(i <= n) /\ i # n + 1 /\ h < k
          BY <2>2, <3>1, <4>5
        <5>2. l[i] = queue[h]
          BY <2>2, <5>1
        <5> HIDE DEF h, k
        <5> QED
          BY <4>1, <4>2, <5>1, <5>2 DEF BtInv, PacedInOrder, Rising
      <4> QED
        BY <2>2, <4>3, <4>4, <4>5
    <3> QED
      BY <2>2, <3>2, <3>3, <3>4
  <2> QED
    BY <2>1, <2>3, <1>1 DEF l, PacedIsNewest, BtInv, PacedInOrder, Last
<1> QED
  BY <1>2, <1>3
----------------------------------------------------------------------------
(* OpenWindow: one thread has the claim, and one window opens.             *)

Asking == [at : {"idle", "closes", "waits", "gone", "minted", "ready"}, claims : BOOLEAN,
           token : Nat, tab : Tab \cup {NoTab}, want : Tab \cup {NoTab}]
Opened == [at : {"none", "starting", "shown", "closing", "gone"},
           token : Nat, tab : Tab \cup {NoTab}]
Live(w) == window[w].at \in {"starting", "shown", "closing"}

OpenShape ==
    /\ OpenTypeOK /\ asker \in [Asker -> Asking] /\ window \in [Window -> Opened]

\* The claim is one thread's, or raise_when_ready's; the tab that is left is the open's in
\* flight.
ClaimInv ==
    /\ \A a, b \in Asker : asker[a].claims /\ asker[b].claims => a = b
    /\ \A a \in Asker : asker[a].claims => claim /\ ~raising /\ asker[a].at # "idle"
    /\ raising => claim
    /\ onTab = IF claim THEN asked ELSE NoTab
    /\ OpensOnAsked

\* Where every open has the claim: a window is there only when nobody is past the close of
\* the old one, and one that starts is waited for.
OneWindow ==
    /\ \A v, w \in Window : Live(v) /\ Live(w) => v = w
    /\ raising \/ NoneStarts
    /\ \A a \in Asker : /\ asker[a].at # "idle" => asker[a].claims
                        /\ asker[a].at = "waits" => \A w \in Window : Live(w) => window[w].at = "closing"
                        /\ asker[a].at \in {"gone", "minted", "ready"} => \A w \in Window : ~Live(w)

OpenInv == /\ OpenShape /\ ClaimInv
           /\ prompt /\ ~outside => OneWindow

LEMMA OpenBegins == ASSUME OpenInit PROVE OpenInv
<1> USE OpenAssumption DEF OpenAssumption
<1>1. claim \in BOOLEAN /\ raising \in BOOLEAN
  BY Zenon DEF OpenInit
<1>2. Resting \in Asking /\ ~Resting.claims /\ Resting.at = "idle"
  BY DEF Resting, Asking, NoToken
<1>3. OpenShape
  <2>1. asker \in [Asker -> Asking] /\ \A a \in Asker : asker[a].at = "idle"
    BY <1>2 DEF OpenInit
  <2>2. window \in [Window -> Opened] /\ \A w \in Window : window[w].at = "none"
    BY DEF OpenInit, Opened, NoToken
  <2>3. tokens \in Nat /\ token \in 0..tokens
    BY DEF OpenInit, NoToken
  <2>4. onTab \in Tab \cup {NoTab} /\ asked \in Tab \cup {NoTab}
    BY DEF OpenInit
  <2> QED
    BY <1>1, <2>1, <2>2, <2>3, <2>4 DEF OpenShape, OpenTypeOK
<1>4. ClaimInv
  BY <1>2 DEF OpenInit, ClaimInv, OpensOnAsked
<1>5. OneWindow
  BY <1>2 DEF OpenInit, OneWindow, Live, NoneStarts
<1> QED
  BY <1>3, <1>4, <1>5 DEF OpenInv

\* A thread that opens a window and has its claim or none before and after.
LEMMA AskerGoes ==
  ASSUME OpenInv, NEW a \in Asker, NEW r \in Asking, asker' = [asker EXCEPT ![a] = r],
         asker[a].at # "idle", r.at # "idle", r.claims = asker[a].claims,
         UNCHANGED <<claim, raising, prompt, outside>>,
         window' \in [Window -> Opened], token' \in 0..tokens', tokens' \in Nat,
         onTab' \in Tab \cup {NoTab}, asked' \in Tab \cup {NoTab},
         onTab' = IF claim THEN asked' ELSE NoTab,
         r.claims /\ r.at = "ready" => r.tab = r.want,
         prompt /\ ~outside /\ asker[a].claims =>
            /\ \A v, w \in Window : Live(v)' /\ Live(w)' => v = w
            /\ NoneStarts'
            /\ r.at = "waits" => \A w \in Window : Live(w)' => window'[w].at = "closing"
            /\ r.at \in {"gone", "minted", "ready"} => \A w \in Window : ~Live(w)'
  PROVE  OpenInv'
<1>1. claim' \in BOOLEAN /\ raising' \in BOOLEAN
  BY Zenon DEF OpenInv, OpenShape, OpenTypeOK
<1>2. asker' \in [Asker -> Asking]
  BY DEF OpenInv, OpenShape
<1>3. asker'[a] = r /\ \A b \in Asker \ {a} : asker'[b] = asker[b]
  BY DEF OpenInv, OpenShape
<1>4. OpenShape'
  BY <1>1, <1>2 DEF OpenShape, OpenTypeOK, Asking, Opened
<1>5. ClaimInv'
  BY <1>3 DEF OpenInv, ClaimInv, OpensOnAsked
<1>6. ASSUME prompt, ~outside PROVE OneWindow'
  <2>1. OneWindow /\ asker[a].claims
    BY <1>6 DEF OpenInv, OneWindow
  <2>2. \A b \in Asker \ {a} : asker'[b].at = "idle"
    BY <1>3, <2>1 DEF OneWindow, OpenInv, ClaimInv
  <2> QED
    BY <1>3, <1>6, <2>1, <2>2 DEF OneWindow
<1> QED
  BY <1>4, <1>5, <1>6 DEF OpenInv

LEMMA FindsNoneOpens == ASSUME OpenInv, NEW a \in Asker, FindsNone(a) PROVE OpenInv'
<1> DEFINE r == [asker[a] EXCEPT !.at = "gone"]
<1>1. asker[a] \in Asking
  BY DEF OpenInv, OpenShape
<1>2. /\ r \in Asking /\ r.at = "gone" /\ r.claims = asker[a].claims
      /\ asker' = [asker EXCEPT ![a] = r] /\ asker[a].at = "closes"
  BY <1>1 DEF FindsNone, Goes, Asking
<1>3. UNCHANGED <<claim, onTab, token, tokens, raising, window, prompt, asked, outside>>
  BY DEF FindsNone
<1>4. ASSUME prompt, ~outside, asker[a].claims PROVE NoneStarts /\ \A w \in Window : ~Live(w)
  <2>1. NoneStarts
    BY <1>4 DEF OpenInv, OneWindow, ClaimInv
  <2> QED
    BY <2>1 DEF FindsNone, AnyVisible, Visible, Live, NoneStarts
<1> HIDE DEF r
<1>5. /\ \A w \in Window : Live(w)' <=> Live(w)
      /\ NoneStarts' <=> NoneStarts
  BY <1>3 DEF Live, NoneStarts
<1> QED
  BY <1>2, <1>3, <1>4, <1>5, AskerGoes DEF OpenInv, OpenShape, OpenTypeOK, ClaimInv

LEMMA ClosesOldOpens == ASSUME OpenInv, NEW a \in Asker, ClosesOld(a) PROVE OpenInv'
<1> DEFINE r == [asker[a] EXCEPT !.at = "waits"]
<1>1. asker[a] \in Asking
  BY DEF OpenInv, OpenShape
<1>2. /\ r \in Asking /\ r.at = "waits" /\ r.claims = asker[a].claims
      /\ asker' = [asker EXCEPT ![a] = r] /\ asker[a].at = "closes"
  BY <1>1 DEF ClosesOld, Goes, Asking
<1>3. UNCHANGED <<claim, onTab, token, tokens, raising, prompt, asked, outside>>
  BY DEF ClosesOld
<1>4. PICK v \in Window : Visible(v) /\ window' = [window EXCEPT ![v].at = "closing"]
  BY DEF ClosesOld
<1>5. /\ window' \in [Window -> Opened] /\ window'[v].at = "closing"
      /\ \A w \in Window \ {v} : window'[w] = window[w]
  BY <1>4 DEF OpenInv, OpenShape, Opened
<1>6. ASSUME prompt, ~outside, asker[a].claims
      PROVE  /\ \A u, w \in Window : Live(u)' /\ Live(w)' => u = w
             /\ NoneStarts'
             /\ \A w \in Window : Live(w)' => window'[w].at = "closing"
  <2>1. NoneStarts /\ Live(v) /\ \A u, w \in Window : Live(u) /\ Live(w) => u = w
    BY <1>4, <1>6 DEF OpenInv, OneWindow, ClaimInv, Visible, Live
  <2>2. \A w \in Window \ {v} : ~Live(w)
    BY <2>1
  <2> QED
    BY <1>5, <2>2, <2>1 DEF Live, NoneStarts
<1> HIDE DEF r
<1> QED
  BY <1>2, <1>3, <1>5, <1>6, AskerGoes DEF OpenInv, OpenShape, OpenTypeOK, ClaimInv

LEMMA WaitEndsOpens == ASSUME OpenInv, NEW a \in Asker, WaitEnds(a) PROVE OpenInv'
<1> DEFINE r == [asker[a] EXCEPT !.at = "gone"]
<1>1. asker[a] \in Asking
  BY DEF OpenInv, OpenShape
<1>2. /\ r \in Asking /\ r.at = "gone" /\ r.claims = asker[a].claims
      /\ asker' = [asker EXCEPT ![a] = r] /\ asker[a].at = "waits"
  BY <1>1 DEF WaitEnds, Goes, Asking
<1>3. UNCHANGED <<claim, onTab, token, tokens, raising, window, prompt, asked, outside>>
  BY DEF WaitEnds
<1>4. ASSUME prompt, ~outside, asker[a].claims PROVE NoneStarts /\ \A w \in Window : ~Live(w)
  <2>1. \A w \in Window : Live(w) => window[w].at = "closing"
    BY <1>2, <1>4 DEF OpenInv, OneWindow
  <2>2. \A w \in Window : window[w].at # "closing"
    BY <1>4 DEF WaitEnds
  <2> QED
    BY <2>1, <2>2 DEF Live, NoneStarts
<1> HIDE DEF r
<1>5. /\ \A w \in Window : Live(w)' <=> Live(w)
      /\ NoneStarts' <=> NoneStarts
  BY <1>3 DEF Live, NoneStarts
<1> QED
  BY <1>2, <1>3, <1>4, <1>5, AskerGoes DEF OpenInv, OpenShape, OpenTypeOK, ClaimInv

LEMMA UrlOpens == ASSUME OpenInv, NEW a \in Asker, Mints(a) \/ TakesTarget(a) PROVE OpenInv'
<1>1. asker[a] \in Asking /\ tokens \in Nat /\ token \in 0..tokens
  BY DEF OpenInv, OpenShape, OpenTypeOK
<1>2. /\ UNCHANGED <<claim, raising, window, prompt, outside>> /\ asker[a].at \in {"gone", "minted"}
  BY DEF Mints, TakesTarget
<1>3. /\ \A w \in Window : Live(w)' <=> Live(w)
      /\ NoneStarts' <=> NoneStarts
  BY <1>2 DEF Live, NoneStarts
<1>4. ASSUME prompt, ~outside PROVE NoneStarts /\ \A w \in Window : ~Live(w)
  BY <1>2, <1>4 DEF OpenInv, OneWindow, NoneStarts, Live
<1>5. CASE Mints(a)
  <2> DEFINE r == [asker[a] EXCEPT !.at = "minted", !.token = token']
  <2>1. tokens' \in Nat /\ token' \in 0..tokens' /\ token' \in Nat /\ UNCHANGED <<onTab, asked>>
    BY <1>1, <1>5 DEF Mints
  <2>2. /\ r \in Asking /\ r.at = "minted" /\ r.claims = asker[a].claims
        /\ asker' = [asker EXCEPT ![a] = r]
    BY <1>1, <1>5, <2>1 DEF Mints, Asking
  <2> HIDE DEF r
  <2> QED
    BY <1>2, <1>3, <1>4, <2>1, <2>2, AskerGoes DEF OpenInv, OpenShape, OpenTypeOK, ClaimInv
<1>6. CASE TakesTarget(a)
  <2> DEFINE r == [asker[a] EXCEPT !.at = "ready", !.tab = onTab, !.want = asked]
  <2>1. onTab \in Tab \cup {NoTab} /\ asked \in Tab \cup {NoTab}
    BY DEF OpenInv, OpenShape, OpenTypeOK
  <2>2. /\ r \in Asking /\ r.at = "ready" /\ r.claims = asker[a].claims
        /\ r.tab = onTab /\ r.want = asked /\ asker' = [asker EXCEPT ![a] = r]
        /\ UNCHANGED <<token, tokens>> /\ onTab' = NoTab /\ asked' = NoTab
    BY <1>1, <1>6, <2>1 DEF TakesTarget, Asking
  <2>3. r.claims => r.tab = r.want
    BY <2>2 DEF OpenInv, ClaimInv
  <2> HIDE DEF r
  <2> QED
    BY <1>2, <1>3, <1>4, <2>2, <2>3, AskerGoes DEF OpenInv, OpenShape, OpenTypeOK
<1> QED
  BY <1>5, <1>6

\* The first window not yet used.
LEMMA LaunchedIs ==
  ASSUME OpenShape, Unused # {}, NEW u \in Opened, Launched(u)
  PROVE  \E v \in Unused : window' = [window EXCEPT ![v] = u]
<1>1. Unused \subseteq Nat
  BY OpenAssumption DEF Unused, Window, OpenAssumption
<1>2. PICK v \in Unused : \A w \in Unused : v <= w
  BY <1>1, LeastOf
<1> QED
  BY <1>2 DEF Launched

LEMMA LaunchesOpens == ASSUME OpenInv, NEW a \in Asker, Launches(a) PROVE OpenInv'
<1>1. /\ asker[a].at = "ready" /\ asker' = [asker EXCEPT ![a] = Resting] /\ asker[a] \in Asking
      /\ UNCHANGED <<onTab, token, tokens, prompt, asked, outside>>
  BY DEF Launches, OpenInv, OpenShape
<1>2. Resting \in Asking /\ ~Resting.claims /\ Resting.at = "idle"
  BY DEF Resting, Asking, NoToken
<1>3. /\ asker' \in [Asker -> Asking] /\ asker'[a] = Resting
      /\ \A b \in Asker \ {a} : asker'[b] = asker[b]
  BY <1>1, <1>2 DEF OpenInv, OpenShape
<1>4. claim' \in BOOLEAN /\ raising' \in BOOLEAN
  BY Zenon DEF Launches, HandsOver, OpenInv, OpenShape, OpenTypeOK
<1>5. /\ window' \in [Window -> Opened]
      /\ \/ window' = window
         \/ \E v \in Window : /\ window[v].at = "none" /\ window'[v].at = "starting"
                              /\ \A w \in Window \ {v} : window'[w] = window[w]
  <2>1. CASE window' = window
    BY <2>1 DEF OpenInv, OpenShape
  <2>2. CASE window' # window
    <3> DEFINE u == [at |-> "starting", token |-> asker[a].token, tab |-> asker[a].tab]
    <3>1. Unused # {} /\ Launched(u)
      BY <2>2 DEF Launches
    <3>2. u \in Opened /\ u.at = "starting"
      BY <1>1 DEF Opened, Asking
    <3> HIDE DEF u
    <3>3. PICK v \in Unused : window' = [window EXCEPT ![v] = u]
      BY <3>1, <3>2, LaunchedIs DEF OpenInv
    <3>4. v \in Window /\ window[v].at = "none" /\ window \in [Window -> Opened]
      BY DEF Unused, OpenInv, OpenShape
    <3> QED
      BY <3>2, <3>3, <3>4
  <2> QED
    BY <2>1, <2>2
<1>6. CASE asker[a].claims
  <2>1. claim' = TRUE /\ raising' = TRUE /\ claim /\ ~raising
    BY <1>6 DEF Launches, HandsOver, OpenInv, ClaimInv
  <2>2. \A b \in Asker : ~asker'[b].claims
    BY <1>2, <1>3, <1>6 DEF OpenInv, ClaimInv
  <2>3. ClaimInv'
    BY <1>1, <2>1, <2>2 DEF OpenInv, ClaimInv, OpensOnAsked
  <2>4. ASSUME prompt, ~outside PROVE OneWindow'
    <3>1. OneWindow
      BY <2>4 DEF OpenInv
    <3>2. \A w \in Window : ~Live(w)
      BY <1>1, <3>1 DEF OneWindow
    <3>3. \A b \in Asker : asker'[b].at = "idle"
      BY <1>2, <1>3, <1>6, <3>1 DEF OneWindow, OpenInv, ClaimInv
    <3>4. \A v, w \in Window : Live(v)' /\ Live(w)' => v = w
      BY <1>5, <3>2 DEF Live
    <3> QED
      BY <2>1, <3>3, <3>4 DEF OneWindow
  <2>5. OpenShape'
    BY <1>1, <1>3, <1>4, <1>5 DEF OpenInv, OpenShape, OpenTypeOK, Asking, Opened
  <2> QED
    BY <1>1, <2>3, <2>4, <2>5 DEF OpenInv
<1>7. CASE ~asker[a].claims
  <2>1. UNCHANGED <<claim, raising>>
    BY <1>7 DEF Launches, HandsOver
  <2>2. ClaimInv'
    BY <1>1, <1>2, <1>3, <2>1 DEF OpenInv, ClaimInv, OpensOnAsked
  <2>3. ~(prompt /\ ~outside)
    BY <1>1, <1>7 DEF OpenInv, OneWindow
  <2>4. OpenShape'
    BY <1>1, <1>3, <1>4, <1>5 DEF OpenInv, OpenShape, OpenTypeOK, Asking, Opened
  <2> QED
    BY <1>1, <2>2, <2>3, <2>4 DEF OpenInv
<1> QED
  BY <1>6, <1>7

\* The one that gets the claim, and the one that leaves its tab.
LEMMA ClaimsOpens ==
  ASSUME OpenInv, NEW a \in Asker, NEW t \in Tab \cup {NoTab}, Claims(a, t)
  PROVE  OpenInv'
<1>1. /\ asker[a].at = "idle" /\ asker[a] \in Asking /\ claim' = TRUE
      /\ UNCHANGED <<token, tokens, raising, window, prompt, outside>>
      /\ onTab' = (IF t = NoTab THEN onTab ELSE t)
      /\ asked' = IF t = NoTab /\ claim THEN asked ELSE t
  BY DEF Claims, Target, OpenInv, OpenShape
<1>2. claim' \in BOOLEAN /\ raising' \in BOOLEAN
  BY <1>1, Zenon DEF OpenInv, OpenShape, OpenTypeOK
<1>3. onTab' = asked' /\ onTab' \in Tab \cup {NoTab}
  BY <1>1 DEF OpenInv, ClaimInv, OpenShape, OpenTypeOK
<1>4. \A w \in Window : Live(w)' <=> Live(w)
  BY <1>1 DEF Live
<1>5. CASE claim
  <2>1. asker' = asker
    BY <1>5 DEF Claims
  <2>2. OpenShape'
    BY <1>1, <1>2, <1>3, <2>1 DEF OpenInv, OpenShape, OpenTypeOK, Asking, Opened
  <2>3. ClaimInv'
    BY <1>1, <1>3, <2>1 DEF OpenInv, ClaimInv, OpensOnAsked
  <2>4. OneWindow => OneWindow'
    BY <1>1, <1>4, <2>1 DEF OneWindow, NoneStarts
  <2> QED
    BY <1>1, <2>2, <2>3, <2>4 DEF OpenInv
<1>6. CASE ~claim
  <2> DEFINE r == [Resting EXCEPT !.at = "closes", !.claims = TRUE]
  <2>1. r \in Asking /\ r.at = "closes" /\ r.claims
    BY DEF Asking, Resting, NoToken
  <2>2. asker' = [asker EXCEPT ![a] = r]
    BY <1>6 DEF Claims
  <2> HIDE DEF r
  <2>3. /\ asker' \in [Asker -> Asking] /\ asker'[a] = r
        /\ \A b \in Asker \ {a} : asker'[b] = asker[b]
    BY <2>1, <2>2 DEF OpenInv, OpenShape
  <2>4. ~raising /\ \A b \in Asker : ~asker[b].claims
    BY <1>6 DEF OpenInv, ClaimInv
  <2>5. OpenShape'
    BY <1>1, <1>2, <1>3, <2>3 DEF OpenInv, OpenShape, OpenTypeOK, Asking, Opened
  <2>6. ClaimInv'
    BY <1>1, <1>3, <2>1, <2>3, <2>4 DEF ClaimInv, OpensOnAsked
  <2>7. ASSUME OneWindow PROVE OneWindow'
    <3>1. \A b \in Asker \ {a} : asker'[b].at = "idle"
      BY <2>3, <2>4, <2>7 DEF OneWindow
    <3> QED
      BY <1>1, <1>4, <2>1, <2>3, <2>7, <3>1 DEF OneWindow, NoneStarts
  <2> QED
    BY <1>1, <2>5, <2>6, <2>7 DEF OpenInv
<1> QED
  BY <1>5, <1>6

\* The claim is let go of when the window that was waited for is there.
LEMMA RaisesOpens == ASSUME OpenInv, Raises PROVE OpenInv'
<1>1. /\ raising /\ ~raising' /\ ~claim' /\ onTab' = NoTab /\ (AnyVisible \/ ~prompt \/ NoneStarts)
      /\ UNCHANGED <<token, tokens, asker, window, prompt, asked, outside>>
  BY DEF Raises
<1>2. claim' \in BOOLEAN /\ raising' \in BOOLEAN
  BY Zenon DEF Raises
<1>3. OpenShape'
  BY <1>1, <1>2 DEF OpenInv, OpenShape, OpenTypeOK, Asking, Opened
<1>4. \A b \in Asker : ~asker[b].claims
  BY <1>1 DEF OpenInv, ClaimInv
<1>5. ClaimInv'
  BY <1>1, <1>4 DEF ClaimInv, OpensOnAsked
<1>6. ASSUME prompt, ~outside PROVE OneWindow'
  <2>1. OneWindow
    BY <1>6 DEF OpenInv
  <2>2. NoneStarts
    BY <1>1, <1>6, <2>1 DEF OneWindow, AnyVisible, Visible, NoneStarts, Live
  <2>3. \A w \in Window : Live(w)' <=> Live(w)
    BY <1>1 DEF Live
  <2> QED
    BY <1>1, <2>1, <2>2, <2>3 DEF OneWindow, NoneStarts
<1> QED
  BY <1>1, <1>3, <1>5, <1>6 DEF OpenInv

\* A window goes from one state to the next.
LEMMA WindowTurns ==
  ASSUME OpenInv, NEW w \in Window, NEW from, NEW to \in {"shown", "closing", "gone"},
         Turns(w, from, to), outside => outside',
         ~outside' => /\ from \in {"starting", "shown", "closing"}
                      /\ from = "closing" => to = "gone"
                      /\ from = "shown" => to \in {"closing", "gone"}
  PROVE  OpenInv'
<1>1. /\ window[w].at = from /\ window' = [window EXCEPT ![w].at = to]
      /\ UNCHANGED <<claim, onTab, token, tokens, asker, raising, prompt, asked>>
  BY DEF Turns
<1>2. /\ window' \in [Window -> Opened] /\ window'[w].at = to
      /\ \A v \in Window \ {w} : window'[v] = window[v]
  BY <1>1 DEF OpenInv, OpenShape, Opened
<1>3. claim' \in BOOLEAN /\ raising' \in BOOLEAN
  BY <1>1, Zenon DEF OpenInv, OpenShape, OpenTypeOK
<1>4. OpenShape'
  BY <1>1, <1>2, <1>3 DEF OpenInv, OpenShape, OpenTypeOK, Asking, Opened
<1>5. ClaimInv'
  BY <1>1 DEF OpenInv, ClaimInv, OpensOnAsked
<1>6. ASSUME prompt, ~outside' PROVE OneWindow'
  <2>1. OneWindow /\ Live(w)
    BY <1>1, <1>6 DEF OpenInv, Live
  <2>2. \A v \in Window \ {w} : ~Live(v) /\ ~Live(v)'
    BY <1>2, <2>1 DEF OneWindow, Live
  <2>3. raising' \/ NoneStarts'
    BY <1>1, <1>2, <2>1 DEF OneWindow, NoneStarts
  <2>4. ASSUME NEW b \in Asker, asker[b].at = "waits" PROVE \A v \in Window : Live(v)' => window'[v].at = "closing"
    <3>1. from = "closing"
      BY <1>1, <2>1, <2>4 DEF OneWindow
    <3> QED
      BY <1>2, <1>6, <2>2, <3>1 DEF Live
  <2>5. \A b \in Asker : asker[b].at \notin {"gone", "minted", "ready"}
    BY <2>1 DEF OneWindow
  <2> QED
    BY <1>1, <2>1, <2>2, <2>3, <2>4, <2>5 DEF OneWindow
<1> QED
  BY <1>1, <1>4, <1>5, <1>6 DEF OpenInv

\* The opens without the claim.
LEMMA OutsideOpens ==
  ASSUME OpenInv, SecondCopy \/ \E a \in Asker : Spawns(a) \/ \E ui \in BOOLEAN : Restarts(a, ui)
  PROVE  OpenInv'
<1>1. CASE SecondCopy
  <2> DEFINE u == [at |-> "starting", token |-> NoToken, tab |-> NoTab]
  <2>1. /\ outside' /\ Unused # {} /\ Launched(u)
        /\ UNCHANGED <<claim, onTab, token, tokens, asker, raising, prompt, asked>>
    BY <1>1 DEF SecondCopy
  <2>2. u \in Opened
    BY DEF Opened, NoToken
  <2> HIDE DEF u
  <2>3. window' \in [Window -> Opened]
    BY <2>1, <2>2, LaunchedIs DEF OpenInv, OpenShape
  <2>4. claim' \in BOOLEAN /\ raising' \in BOOLEAN
    BY <2>1, Zenon DEF OpenInv, OpenShape, OpenTypeOK
  <2>5. OpenShape'
    BY <2>1, <2>3, <2>4 DEF OpenInv, OpenShape, OpenTypeOK, Asking, Opened
  <2>6. ClaimInv'
    BY <2>1 DEF OpenInv, ClaimInv, OpensOnAsked
  <2> QED
    BY <2>1, <2>5, <2>6 DEF OpenInv
<1>2. ASSUME NEW a \in Asker, Spawns(a) PROVE OpenInv'
  <2> DEFINE r == [asker[a] EXCEPT !.at = "gone"]
  <2>1. asker[a] \in Asking /\ asker[a].at = "idle" /\ asker' = [asker EXCEPT ![a] = r] /\ outside'
        /\ UNCHANGED <<claim, onTab, token, tokens, raising, window, prompt, asked>>
    BY <1>2 DEF Spawns, Goes, OpenInv, OpenShape
  <2>2. r \in Asking /\ r.at = "gone" /\ r.claims = asker[a].claims
    BY <2>1 DEF Asking
  <2> HIDE DEF r
  <2>3. /\ asker' \in [Asker -> Asking] /\ asker'[a] = r
        /\ \A b \in Asker \ {a} : asker'[b] = asker[b]
    BY <2>1, <2>2 DEF OpenInv, OpenShape
  <2>4. claim' \in BOOLEAN /\ raising' \in BOOLEAN
    BY <2>1, Zenon DEF OpenInv, OpenShape, OpenTypeOK
  <2>5. OpenShape'
    BY <2>1, <2>3, <2>4 DEF OpenInv, OpenShape, OpenTypeOK, Asking, Opened
  <2>6. ClaimInv'
    BY <2>1, <2>2, <2>3 DEF OpenInv, ClaimInv, OpensOnAsked
  <2> QED
    BY <2>1, <2>5, <2>6 DEF OpenInv
<1>3. ASSUME NEW a \in Asker, NEW ui \in BOOLEAN, Restarts(a, ui) PROVE OpenInv'
  <2> DEFINE to == IF ui THEN "closes" ELSE "idle"
             r  == [Resting EXCEPT !.at = to]
  <2>1. /\ outside' /\ ~claim' /\ ~raising' /\ token' = 0 /\ onTab' = NoTab /\ asked' = NoTab
        /\ asker' = [[b \in Asker |-> Resting] EXCEPT ![a] = r]
        /\ UNCHANGED <<tokens, window, prompt>>
    BY <1>3 DEF Restarts, NoToken
  <2>2. claim' \in BOOLEAN /\ raising' \in BOOLEAN
    BY <1>3, Zenon DEF Restarts
  <2>3. Resting \in Asking /\ ~Resting.claims /\ r \in Asking /\ ~r.claims
    BY DEF Resting, Asking, NoToken
  <2> HIDE DEF r
  <2>4. asker' \in [Asker -> Asking] /\ \A b \in Asker : ~asker'[b].claims
    BY <2>1, <2>3
  <2>5. OpenShape'
    BY <2>1, <2>2, <2>4 DEF OpenInv, OpenShape, OpenTypeOK, Asking, Opened
  <2>6. ClaimInv'
    BY <2>1, <2>4 DEF ClaimInv, OpensOnAsked
  <2> QED
    BY <2>1, <2>5, <2>6 DEF OpenInv
<1> QED
  BY <1>1, <1>2, <1>3

LEMMA TurnsOpens ==
  ASSUME OpenInv, NEW w \in Window,
         \/ Appears(w) \/ Closes(w) \/ StandsDown(w) \/ PersonCloses(w) \/ PersonReopens(w)
  PROVE  OpenInv'
<1>1. CASE Appears(w) \/ Closes(w)
  BY <1>1, WindowTurns DEF Appears, Closes
<1>2. CASE StandsDown(w) \/ PersonCloses(w)
  BY <1>2, WindowTurns DEF StandsDown, PersonCloses
<1>3. CASE PersonReopens(w)
  BY <1>3, WindowTurns DEF PersonReopens
<1> QED
  BY <1>1, <1>2, <1>3

LEMMA OpenKeeps == ASSUME OpenInv, [OpenNext]_openVars PROVE OpenInv'
<1>1. CASE UNCHANGED openVars
  <2>1. UNCHANGED <<claim, onTab, token, tokens, asker, raising, window, prompt, asked, outside>>
    BY <1>1 DEF openVars
  <2>2. claim' \in BOOLEAN /\ raising' \in BOOLEAN
    BY <2>1, Zenon DEF OpenInv, OpenShape, OpenTypeOK
  <2>3. OpenShape'
    BY <2>1, <2>2 DEF OpenInv, OpenShape, OpenTypeOK, Asking, Opened
  <2>4. ClaimInv'
    BY <2>1 DEF OpenInv, ClaimInv, OpensOnAsked
  <2>5. OneWindow => OneWindow'
    BY <2>1 DEF OneWindow, Live, NoneStarts
  <2> QED
    BY <2>1, <2>3, <2>4, <2>5 DEF OpenInv
<1>2. ASSUME NEW a \in Asker, AskerStep(a) PROVE OpenInv'
  BY <1>2, FindsNoneOpens, ClosesOldOpens, WaitEndsOpens, UrlOpens, LaunchesOpens, Zenon DEF AskerStep
<1>3. ASSUME NEW a \in Asker, OpensFor(a) PROVE OpenInv'
  BY <1>3, ClaimsOpens, Zenon DEF OpensFor
<1> QED
  BY <1>1, <1>2, <1>3, RaisesOpens, OutsideOpens, TurnsOpens, Zenon DEF OpenNext, OpenSteps

LEMMA OpenMeans == ASSUME OpenInv PROVE OpenHolds
<1>1. ASSUME prompt, ~outside
      PROVE  Cardinality({w \in Window : window[w].at \in {"starting", "shown"}}) <= 1
  <2> DEFINE S == {w \in Window : window[w].at \in {"starting", "shown"}}
  <2>1. \A v, w \in S : v = w
    BY <1>1 DEF OpenInv, OneWindow, Live
  <2> HIDE DEF S
  <2>2. S = {} \/ \E w : S = {w}
    BY <2>1
  <2>3. Cardinality(S) <= 1
    <3>1. CASE S = {}
      <4>1. Cardinality(S) = 0
        BY <3>1, FS_EmptySet
      <4> QED
        BY <4>1
    <3>2. CASE \E w : S = {w}
      <4>1. Cardinality(S) = 1
        BY <3>2, FS_Singleton
      <4> QED
        BY <4>1
    <3> QED
      BY <2>2, <3>1, <3>2
  <2> QED
    BY <2>3 DEF S
<1> QED
  BY <1>1 DEF OpenHolds, OpensOne, OpenInv, ClaimInv
----------------------------------------------------------------------------
(* WindowMemory: the window comes back as it was left.                     *)

Place == Int \ {Nowhere}
RectOf == [x : Place, w : 1..Span]

GoodMemory(m) ==
    /\ DOMAIN m = {"layout", "known", "idx", "pos", "cus"}
    /\ m.layout \in Layout /\ m.idx \in [Layout -> {0, 1}]
    /\ m.pos \in [Layout -> Int] /\ m.cus \in [Layout -> 0..Span]

MemoryShape ==
    /\ GoodMemory(mem) /\ GoodMemory(onDisk)
    /\ DOMAIN win = {"up", "face", "x", "w", "min", "own"}
    /\ win.up \in {"none", "up", "closing"} /\ win.face \in Layout
    /\ win.x \in Place /\ win.w \in 1..Span
    /\ page \in {"asks", "done"} /\ tray \in Layout \cup {"none"}
    /\ post \in Seq(Post)
    /\ drag.w \in 1..Span /\ DOMAIN drag = {"on", "same", "w"}
    /\ left \in [Layout -> RectOf \cup {NoRect}]

\* The size a layout will come back with.
Remembered(m, l) == IF m.cus[l] # NoSize THEN m.cus[l]
                    ELSE IF m.idx[l] = 0 THEN Small[l] ELSE Large[l]

\* What was last seen of a layout is what is remembered of it, clamped or not.
RemembersAt(m, f, l) ==
    f[l] # NoRect => /\ Remembered(m, l) = f[l].w
                     /\ m.pos[l] \in {f[l].x, Clamped(f[l].x, f[l].w)}
RemembersRects(m, f) == \A l \in Layout : RemembersAt(m, f, l)

LastPost(q) == q[Len(q)]

\* A request joins the others, or the first of them is taken.
LEMMA PostJoins ==
  ASSUME NEW q \in Seq(Post), NEW p \in Post
  PROVE  Append(q, p) \in Seq(Post) /\ Append(q, p) # <<>> /\ LastPost(Append(q, p)) = p
  BY DEF LastPost

LEMMA PostIsTaken ==
  ASSUME NEW q \in Seq(Post), q # <<>>
  PROVE  /\ Head(q) \in Post /\ Tail(q) \in Seq(Post)
         /\ Tail(q) = <<>> => Head(q) = LastPost(q)
         /\ Tail(q) # <<>> => LastPost(Tail(q)) = LastPost(q)
<1>1. Len(q) \in Nat \ {0} /\ Len(Tail(q)) = Len(q) - 1 /\ Tail(q) \in Seq(Post)
  OBVIOUS
<1>2. Head(q) = q[1] /\ Head(q) \in Post
  OBVIOUS
<1>3. ASSUME Tail(q) = <<>> PROVE Head(q) = LastPost(q)
  <2>1. Len(q) = 1
    BY <1>1, <1>3
  <2> QED
    BY <1>2, <2>1 DEF LastPost
<1>4. ASSUME Tail(q) # <<>> PROVE LastPost(Tail(q)) = LastPost(q)
  <2>1. Len(Tail(q)) > 0
    BY <1>1, <1>4
  <2> QED
    BY <1>1, <2>1 DEF LastPost
<1> QED
  BY <1>1, <1>2, <1>3, <1>4

\* Once its page is through, and its requests are handled, the window shows the layout that
\* is current, and before that the one of the last; if that one only tells of a switch there
\* is no rectangle to come back to.
ShowsItsLayout ==
    /\ page = "asks" => post = <<>>
    /\ Seen /\ page = "done" /\ post = <<>> /\ ~slow => win.face = mem.layout
    /\ Seen /\ page = "done" /\ post # <<>> => win.face = LastPost(post).layout
    /\ Seen /\ post # <<>> /\ ~LastPost(post).restore => left[win.face] = NoRect

MemoryInv == /\ MemoryShape /\ RemembersRects(mem, left) /\ ShowsItsLayout
             /\ ComesBack /\ FiledUnderItsLayout

LEMMA ClampedIs ==
  ASSUME NEW x \in Int, NEW w \in 1..Span
  PROVE  /\ Clamped(x, w) \in 0..Span /\ Clamped(x, w) \in Place
         /\ Clamped(Clamped(x, w), w) = Clamped(x, w)
  BY MemoryAssumption DEF Clamped, Place, Nowhere, MemoryAssumption

LEMMA HomeIs == ASSUME NEW w \in 1..Span PROVE Home(w) \in Place
<1>1. w \in Int /\ Span \in Int /\ (Span - w) \div 2 \in Int
  BY MemoryAssumption DEF MemoryAssumption
<1> QED
  BY <1>1, ClampedIs DEF Home

LEMMA SnappedIs ==
  ASSUME NEW l \in Layout, NEW x \in Int, NEW w \in 1..Span
  PROVE  Snapped(l, x, w) \in Place
<1> DEFINE i == CHOOSE i \in At(x, w) : \A j \in At(x, w) : i <= j
<1>1. Targets(w)[1] \in Place /\ Targets(w)[2] \in Place /\ Targets(w)[3] \in Place
  BY ClampedIs, HomeIs, MemoryAssumption DEF Targets, MemoryAssumption
<1>2. CASE At(x, w) # {}
  <2>1. At(x, w) \subseteq 1..3
    BY DEF At
  <2>2. \E n \in At(x, w) : \A j \in At(x, w) : n <= j
    BY <1>2, <2>1, LeastOf
  <2>3. i \in 1..3
    BY <2>1, <2>2
  <2>4. (i % 3) + 1 \in 1..3
    <3> HIDE DEF i
    <3> QED
      BY <2>3
  <2>5. Snapped(l, x, w) \in {Home(w), Targets(w)[(i % 3) + 1]}
    BY DEF Snapped
  <2> HIDE DEF i
  <2>6. \/ (i % 3) + 1 = 1
        \/ (i % 3) + 1 = 2
        \/ (i % 3) + 1 = 3
    BY <2>4
  <2> QED
    BY <1>1, <2>5, <2>6, HomeIs
<1>3. CASE At(x, w) = {}
  BY <1>3, HomeIs DEF Snapped
<1> QED
  BY <1>2, <1>3

\* What the memory's operations change.
LEMMA SizeOfIs ==
  ASSUME NEW m, GoodMemory(m)
  PROVE  SizeOf(m) = Remembered(m, m.layout) /\ SizeOf(m) \in 1..Span
  BY MemoryAssumption DEF GoodMemory, SizeOf, PresetSize, Remembered, NoSize, MemoryAssumption

LEMMA NotedIs ==
  ASSUME NEW m, GoodMemory(m), NEW x \in Int
  PROVE  /\ GoodMemory(Noted(m, x)) /\ Noted(m, x).layout = m.layout
         /\ \A l \in Layout : /\ Remembered(Noted(m, x), l) = Remembered(m, l)
                              /\ Noted(m, x).pos[l] = IF l = m.layout THEN x ELSE m.pos[l]
  BY DEF GoodMemory, Noted, Remembered

LEMMA ClearedIs ==
  ASSUME NEW m, GoodMemory(m)
  PROVE  /\ GoodMemory(Cleared(m)) /\ Cleared(m).layout = m.layout
         /\ \A l \in Layout : /\ Cleared(m).pos[l] = m.pos[l]
                              /\ l # m.layout => Remembered(Cleared(m), l) = Remembered(m, l)
         /\ Cleared(m).idx = m.idx
<1>1. 0 \in 0..Span
  BY MemoryAssumption DEF MemoryAssumption
<1> QED
  BY <1>1 DEF GoodMemory, Cleared, Remembered, NoSize

LEMMA IndexSet ==
  ASSUME NEW m, GoodMemory(m), NEW k \in Layout, NEW i \in {0, 1}
  PROVE  /\ GoodMemory([m EXCEPT !.idx[k] = i]) /\ [m EXCEPT !.idx[k] = i].layout = m.layout
         /\ \A l \in Layout : /\ [m EXCEPT !.idx[k] = i].pos[l] = m.pos[l]
                              /\ l # k => Remembered([m EXCEPT !.idx[k] = i], l) = Remembered(m, l)
  BY DEF GoodMemory, Remembered

LEMMA SizeNotedIs ==
  ASSUME NEW m, GoodMemory(m), NEW w \in 1..Span
  PROVE  /\ GoodMemory(SizeNoted(m, w)) /\ SizeNoted(m, w).layout = m.layout
         /\ \A l \in Layout : /\ SizeNoted(m, w).pos[l] = m.pos[l]
                              /\ Remembered(SizeNoted(m, w), l) = IF l = m.layout THEN w ELSE Remembered(m, l)
<1>1. CASE w = PresetSize(m)
  <2>1. Remembered(Cleared(m), m.layout) = PresetSize(m)
    BY <1>1, ClearedIs DEF GoodMemory, Cleared, Remembered, NoSize, PresetSize
  <2> QED
    BY <1>1, <2>1, ClearedIs DEF SizeNoted
<1>2. CASE w # PresetSize(m)
  BY <1>2 DEF GoodMemory, SizeNoted, Remembered, NoSize
<1> QED
  BY <1>1, <1>2

LEMMA MemoryBegins == ASSUME MemoryInit PROVE MemoryInv
<1>1. GoodMemory(Blank)
  <2>1. 0 \in 0..Span /\ Nowhere \in Int
    BY MemoryAssumption DEF MemoryAssumption, Nowhere
  <2> QED
    BY <2>1 DEF GoodMemory, Blank, Layout, NoSize
<1>2. 0 \in Place /\ 1 \in 1..Span /\ Large["advanced"] \in 1..Span
  BY MemoryAssumption DEF MemoryAssumption, Place, Nowhere, Layout
<1>3. MemoryShape
  BY <1>1, <1>2 DEF MemoryInit, MemoryShape, NoWindow, NoDrag, Layout
<1>4. RemembersRects(mem, left) /\ ShowsItsLayout /\ ComesBack /\ FiledUnderItsLayout
  BY DEF MemoryInit, RemembersRects, RemembersAt, ShowsItsLayout, ComesBack, FiledUnderItsLayout, NoWindow,
         Layout, Seen
<1> QED
  BY <1>3, <1>4 DEF MemoryInv

\* The steps that change nothing of what is remembered.
LEMMA MemoryCalm ==
  ASSUME MemoryInv, UNCHANGED <<mem, onDisk, left, slow, misfiled, drag, tray>>,
         DOMAIN win' = {"up", "face", "x", "w", "min", "own"},
         win'.up \in {"none", "up", "closing"}, win'.face \in Layout,
         win'.x \in Place, win'.w \in 1..Span, page' \in {"asks", "done"},
         post' \in Seq(Post), ShowsItsLayout', ComesBack'
  PROVE  MemoryInv'
<1>1. MemoryShape'
  BY DEF MemoryInv, MemoryShape, GoodMemory, RectOf
<1>2. RemembersRects(mem, left)'
  BY DEF MemoryInv, RemembersRects, RemembersAt, Remembered, Clamped
<1> QED
  BY <1>1, <1>2 DEF MemoryInv, FiledUnderItsLayout

LEMMA ClosingCalm ==
  ASSUME MemoryInv, ShowCloses \/ ClosesUnlooked
  PROVE  MemoryInv'
<1>1. /\ win.up = "up" /\ win' = [win EXCEPT !.up = "closing"]
      /\ UNCHANGED <<mem, onDisk, page, post, restoring, drag, tray, left, slow, misfiled>>
  BY DEF ShowCloses, ClosesUnlooked, Closing
<1>2. /\ DOMAIN win' = {"up", "face", "x", "w", "min", "own"} /\ win'.up = "closing"
      /\ win'.face = win.face /\ win'.x = win.x /\ win'.w = win.w
  BY <1>1 DEF MemoryInv, MemoryShape
<1>3. ShowsItsLayout'
  BY <1>1, <1>2 DEF MemoryInv, ShowsItsLayout, Seen
<1>4. ComesBack'
  BY <1>2 DEF ComesBack
<1> QED
  BY <1>1, <1>2, <1>3, <1>4, MemoryCalm DEF MemoryInv, MemoryShape

LEMMA OpeningCalm == ASSUME MemoryInv, ShowOpens \/ WindowGoes PROVE MemoryInv'
<1>1. UNCHANGED <<mem, onDisk, left, slow, misfiled, post, tray>>
  BY DEF ShowOpens, WindowGoes
<1>2. CASE ShowOpens
  <2>1. PICK x \in OpensAt : win' = [NoWindow EXCEPT !.up = "up", !.x = x, !.w = Small["advanced"]]
    BY <1>2 DEF ShowOpens
  <2>2. post = <<>> /\ page' = "asks" /\ drag' = drag
    BY <1>2 DEF ShowOpens
  <2>3. /\ DOMAIN win' = {"up", "face", "x", "w", "min", "own"} /\ win'.up = "up"
        /\ win'.face = "advanced" /\ win'.x = x /\ win'.w = Small["advanced"]
    BY <2>1 DEF NoWindow
  <2>4. x \in Place /\ Small["advanced"] \in 1..Span
    BY MemoryAssumption DEF MemoryAssumption, Place, Layout
  <2>5. ShowsItsLayout'
    BY <1>1, <2>2 DEF ShowsItsLayout
  <2>6. ComesBack'
    BY <2>2 DEF ComesBack, Quiet
  <2> QED
    BY <1>1, <2>2, <2>3, <2>4, <2>5, <2>6, MemoryCalm DEF Layout
<1>3. CASE WindowGoes
  <2>1. win' = NoWindow /\ page' = "done" /\ drag' = [drag EXCEPT !.same = FALSE]
    BY <1>3 DEF WindowGoes
  <2>2. /\ DOMAIN win' = {"up", "face", "x", "w", "min", "own"} /\ win'.up = "none"
        /\ win'.face = "advanced" /\ win'.x = 0 /\ win'.w = Large["advanced"]
    BY <2>1 DEF NoWindow
  <2>3. 0 \in Place /\ Large["advanced"] \in 1..Span
    BY MemoryAssumption DEF MemoryAssumption, Place, Nowhere, Layout
  <2>4. drag'.w = drag.w /\ DOMAIN drag' = DOMAIN drag
    BY <2>1 DEF MemoryInv, MemoryShape
  <2>5. MemoryShape'
    BY <1>1, <2>1, <2>2, <2>3, <2>4 DEF MemoryInv, MemoryShape, GoodMemory, RectOf, Layout
  <2>6. RemembersRects(mem, left)'
    BY <1>1 DEF MemoryInv, RemembersRects, RemembersAt, Remembered, Clamped
  <2>7. ShowsItsLayout' /\ ComesBack'
    BY <2>1, <2>2 DEF ShowsItsLayout, ComesBack, Seen
  <2> QED
    BY <1>1, <2>5, <2>6, <2>7 DEF MemoryInv, FiledUnderItsLayout
<1> QED
  BY <1>2, <1>3

LEMMA PageAsksCalm == ASSUME MemoryInv, PageAsks PROVE MemoryInv'
<1>1. /\ page = "asks" /\ page' = "done" /\ UNCHANGED <<mem, onDisk, left, slow, misfiled, drag, tray>>
  BY DEF PageAsks
<1>2. PICK l \in Layout :
        /\ win' \in {[win EXCEPT !.face = l], Placed(l)}
        /\ post' = Append(post, [layout |-> l, restore |-> TRUE])
  <2>1. mem.layout \in Layout
    BY DEF MemoryInv, MemoryShape, GoodMemory
  <2>2. CASE mem.known
    BY <2>1, <2>2 DEF PageAsks
  <2>3. CASE ~mem.known
    BY <2>3 DEF PageAsks
  <2> QED
    BY <2>2, <2>3
<1>3. Small[l] \in 1..Span /\ Home(Small[l]) \in Place
  BY HomeIs, MemoryAssumption DEF MemoryAssumption
<1>4. /\ DOMAIN win' = {"up", "face", "x", "w", "min", "own"} /\ win'.up = win.up
      /\ win'.face = l /\ win'.x \in Place /\ win'.w \in 1..Span
  BY <1>2, <1>3 DEF Placed, MemoryInv, MemoryShape
<1>5. /\ post' \in Seq(Post) /\ post' # <<>>
      /\ LastPost(post').layout = l /\ LastPost(post').restore
  <2> DEFINE p == [layout |-> l, restore |-> TRUE]
  <2>1. p \in Post /\ p.layout = l /\ p.restore /\ post \in Seq(Post) /\ post' = Append(post, p)
    BY <1>2 DEF MemoryInv, MemoryShape, Post
  <2> HIDE DEF p
  <2> QED
    BY <2>1, PostJoins
<1>6. ShowsItsLayout'
  BY <1>1, <1>4, <1>5 DEF ShowsItsLayout
<1>7. ComesBack'
  BY <1>5 DEF ComesBack, Quiet
<1> QED
  BY <1>1, <1>4, <1>5, <1>6, <1>7, MemoryCalm DEF MemoryInv, MemoryShape

LEMMA StillCalm ==
  ASSUME MemoryInv, Shows \/ RestoreGivesUp \/ Minimises
  PROVE  MemoryInv'
<1>1. UNCHANGED <<mem, onDisk, left, slow, misfiled, drag, tray, page, post>>
  BY DEF Shows, RestoreGivesUp, Minimises
<1>2. /\ DOMAIN win' = {"up", "face", "x", "w", "min", "own"} /\ win'.up = win.up
      /\ win'.face = win.face /\ win'.x = win.x /\ win'.w = win.w
  BY DEF Shows, RestoreGivesUp, Minimises, MemoryInv, MemoryShape
<1>3. ShowsItsLayout'
  BY <1>1, <1>2 DEF MemoryInv, ShowsItsLayout, Seen
<1>4. win.up = "up" => restoring' = restoring
  BY DEF Shows, RestoreGivesUp, Minimises, Seen
<1>5. ComesBack'
  BY <1>1, <1>2, <1>4 DEF MemoryInv, ComesBack, Quiet, Clamped
<1> QED
  BY <1>1, <1>2, <1>3, <1>5, MemoryCalm DEF MemoryInv, MemoryShape

LEMMA DragBeginsCalm == ASSUME MemoryInv, DragBegins PROVE MemoryInv'
<1>1. /\ UNCHANGED <<mem, onDisk, left, slow, misfiled, win, restoring, tray, page, post>>
      /\ drag' = [on |-> TRUE, same |-> TRUE, w |-> win.w]
  BY DEF DragBegins
<1>2. MemoryShape'
  BY <1>1 DEF MemoryInv, MemoryShape, GoodMemory, RectOf
<1>3. RemembersRects(mem, left)'
  BY <1>1 DEF MemoryInv, RemembersRects, RemembersAt, Remembered, Clamped
<1>4. ShowsItsLayout' /\ ComesBack'
  BY <1>1 DEF MemoryInv, ShowsItsLayout, Seen, ComesBack, Quiet, Clamped
<1> QED
  BY <1>1, <1>2, <1>3, <1>4 DEF MemoryInv, FiledUnderItsLayout

\* A person and the page change the rectangle of the layout that is shown, which is then no
\* longer one to come back to.
LEMMA ReshapesMoves == ASSUME MemoryInv, Reshapes PROVE MemoryInv'
<1>1. PICK r \in Rect : win' = [win EXCEPT !.x = r.x, !.w = r.w, !.own = win.own \/ r.w # win.w]
  BY DEF Reshapes
<1>2. r.x \in Place /\ r.w \in 1..Span
  BY MemoryAssumption DEF MemoryAssumption, Place
<1>3. /\ UNCHANGED <<mem, onDisk, page, post, drag, tray, slow, misfiled>>
      /\ left' = [left EXCEPT ![win.face] = NoRect]
  BY DEF Reshapes, Changed
<1>4. /\ DOMAIN win' = {"up", "face", "x", "w", "min", "own"} /\ win'.up = win.up
      /\ win'.face = win.face /\ win'.x = r.x /\ win'.w = r.w
  BY <1>1 DEF MemoryInv, MemoryShape
<1>5. /\ left' \in [Layout -> RectOf \cup {NoRect}] /\ left'[win.face] = NoRect
      /\ \A l \in Layout : left'[l] # NoRect => left'[l] = left[l]
  BY <1>3 DEF MemoryInv, MemoryShape
<1>6. MemoryShape'
  BY <1>2, <1>3, <1>4, <1>5 DEF MemoryInv, MemoryShape, GoodMemory, RectOf
<1>7. RemembersRects(mem, left)'
  BY <1>3, <1>5 DEF MemoryInv, RemembersRects, RemembersAt, Remembered, Clamped
<1>8. ShowsItsLayout' /\ ComesBack'
  BY <1>3, <1>4, <1>5 DEF MemoryInv, ShowsItsLayout, ComesBack, Seen
<1> QED
  BY <1>3, <1>6, <1>7, <1>8 DEF MemoryInv, FiledUnderItsLayout

LEMMA SwitchesMoves == ASSUME MemoryInv, Switches PROVE MemoryInv'
<1>1. PICK l \in Layout \ {win.face} :
        /\ win' = Placed(l) /\ post' = Append(post, [layout |-> l, restore |-> FALSE])
        /\ left' = [left EXCEPT ![l] = NoRect]
  BY DEF Switches, Changed
<1>2. /\ UNCHANGED <<mem, onDisk, page, drag, tray, slow, misfiled>> /\ page = "done"
  BY DEF Switches, InFront
<1>3. Small[l] \in 1..Span /\ Home(Small[l]) \in Place
  BY HomeIs, MemoryAssumption DEF MemoryAssumption
<1>4. /\ DOMAIN win' = {"up", "face", "x", "w", "min", "own"} /\ win'.up = win.up
      /\ win'.face = l /\ win'.x \in Place /\ win'.w \in 1..Span
  BY <1>1, <1>3 DEF Placed, MemoryInv, MemoryShape
<1>5. post' \in Seq(Post) /\ post' # <<>> /\ LastPost(post').layout = l
  <2> DEFINE p == [layout |-> l, restore |-> FALSE]
  <2>1. p \in Post /\ p.layout = l /\ post \in Seq(Post) /\ post' = Append(post, p)
    BY <1>1 DEF MemoryInv, MemoryShape, Post
  <2> HIDE DEF p
  <2> QED
    BY <2>1, PostJoins
<1>6. /\ left' \in [Layout -> RectOf \cup {NoRect}] /\ left'[l] = NoRect
      /\ \A k \in Layout : left'[k] # NoRect => left'[k] = left[k]
  BY <1>1 DEF MemoryInv, MemoryShape
<1>7. MemoryShape'
  BY <1>2, <1>4, <1>5, <1>6 DEF MemoryInv, MemoryShape, GoodMemory, RectOf
<1>8. RemembersRects(mem, left)'
  BY <1>2, <1>6 DEF MemoryInv, RemembersRects, RemembersAt, Remembered, Clamped
<1>9. ShowsItsLayout' /\ ComesBack'
  BY <1>2, <1>4, <1>5, <1>6 DEF ShowsItsLayout, ComesBack
<1> QED
  BY <1>2, <1>7, <1>8, <1>9 DEF MemoryInv, FiledUnderItsLayout
\* What a switch of the layout does to what is remembered.
LEMMA ViewSetIs ==
  ASSUME MemoryInv, NEW l \in Layout, NEW r, ViewSet(l, r)
  PROVE  /\ GoodMemory(mem') /\ onDisk' = mem' /\ mem'.layout = l
         /\ left' \in [Layout -> RectOf \cup {NoRect}] /\ RemembersRects(mem', left')
         /\ \A k \in Layout : left'[k] # NoRect => left'[k] = left[k]
<1> DEFINE m == [mem EXCEPT !.layout = l, !.known = TRUE]
           c == Cleared(m)
<1>1. /\ GoodMemory(mem) /\ left \in [Layout -> RectOf \cup {NoRect}]
      /\ \A k \in Layout : RemembersAt(mem, left, k)
  BY DEF MemoryInv, MemoryShape, RemembersRects
<1>2. /\ GoodMemory(m) /\ m.layout = l
      /\ \A k \in Layout : Remembered(m, k) = Remembered(mem, k) /\ m.pos[k] = mem.pos[k]
  BY <1>1 DEF GoodMemory, Remembered
<1>3. CASE r \/ l = mem.layout
  <2>1. mem' = m /\ onDisk' = m /\ left' = left
    BY <1>3 DEF ViewSet, Saves
  <2> HIDE DEF m
  <2> QED
    BY <1>1, <1>2, <2>1 DEF RemembersRects, RemembersAt
<1>4. CASE ~(r \/ l = mem.layout)
  <2> DEFINE n == [c EXCEPT !.idx[l] = 0]
  <2>1. mem' = n /\ onDisk' = n /\ left' = [left EXCEPT ![l] = NoRect]
    BY <1>4 DEF ViewSet, Saves, Changed
  <2> HIDE DEF m
  <2>2. /\ GoodMemory(c) /\ c.layout = l
        /\ \A k \in Layout : /\ c.pos[k] = m.pos[k]
                             /\ k # l => Remembered(c, k) = Remembered(m, k)
    BY <1>2, ClearedIs
  <2> HIDE DEF c
  <2>3. /\ GoodMemory(n) /\ n.layout = l
        /\ \A k \in Layout : /\ n.pos[k] = c.pos[k]
                             /\ k # l => Remembered(n, k) = Remembered(c, k)
    BY <2>2, IndexSet
  <2> HIDE DEF n
  <2>4. /\ left' \in [Layout -> RectOf \cup {NoRect}] /\ left'[l] = NoRect
        /\ \A k \in Layout : k # l => left'[k] = left[k]
    BY <1>1, <2>1
  <2>5. \A k \in Layout : RemembersAt(n, left', k)
    BY <1>1, <1>2, <2>2, <2>3, <2>4 DEF RemembersAt
  <2> QED
    BY <2>1, <2>3, <2>4, <2>5 DEF RemembersRects
<1> QED
  BY <1>3, <1>4

LEMMA PostSettles == ASSUME MemoryInv, HandlesPost PROVE MemoryInv'
<1>1. /\ post # <<>> /\ post' = Tail(post) /\ ViewSet(Head(post).layout, Head(post).restore)
      /\ restoring' = (restoring \/ Head(post).restore)
      /\ UNCHANGED <<win, page, drag, tray, slow, misfiled>>
  BY DEF HandlesPost
<1>2. /\ post \in Seq(Post) /\ page = "done" /\ win.face \in Layout
  BY <1>1 DEF MemoryInv, MemoryShape, ShowsItsLayout
<1>0. /\ Head(post).layout \in Layout /\ post' \in Seq(Post)
      /\ post' = <<>> => Head(post) = LastPost(post)
      /\ post' # <<>> => LastPost(post') = LastPost(post)
  BY <1>1, <1>2, PostIsTaken DEF Post
<1>3. /\ GoodMemory(mem') /\ onDisk' = mem' /\ mem'.layout = Head(post).layout
      /\ left' \in [Layout -> RectOf \cup {NoRect}] /\ RemembersRects(mem', left')
      /\ \A k \in Layout : left'[k] # NoRect => left'[k] = left[k]
  BY <1>0, <1>1, ViewSetIs
<1>4. MemoryShape'
  BY <1>0, <1>1, <1>3 DEF MemoryInv, MemoryShape, GoodMemory, RectOf
<1>5. RemembersRects(mem, left)'
  BY <1>3 DEF RemembersRects, RemembersAt, Remembered, Clamped
<1>6. ShowsItsLayout'
  BY <1>0, <1>1, <1>2, <1>3 DEF MemoryInv, ShowsItsLayout, Seen
<1>7. ComesBack'
  BY <1>0, <1>1, <1>2, <1>3 DEF MemoryInv, ShowsItsLayout, ComesBack, Quiet, Seen
<1> QED
  BY <1>1, <1>4, <1>5, <1>6, <1>7 DEF MemoryInv, FiledUnderItsLayout

LEMMA TraySettles == ASSUME MemoryInv, TrayWrites PROVE MemoryInv'
<1>1. /\ tray # "none" /\ tray' = "none" /\ ViewSet(tray, FALSE) /\ slow' = (slow \/ Seen)
      /\ UNCHANGED <<win, page, post, drag, misfiled>>
  BY DEF TrayWrites
<1>2. tray \in Layout /\ win.face \in Layout
  BY <1>1 DEF MemoryInv, MemoryShape
<1>3. /\ GoodMemory(mem') /\ onDisk' = mem' /\ mem'.layout = tray
      /\ left' \in [Layout -> RectOf \cup {NoRect}] /\ RemembersRects(mem', left')
      /\ \A k \in Layout : left'[k] # NoRect => left'[k] = left[k]
  BY <1>1, <1>2, ViewSetIs
<1>4. MemoryShape'
  BY <1>1, <1>3 DEF MemoryInv, MemoryShape, GoodMemory, RectOf
<1>5. RemembersRects(mem, left)'
  BY <1>3 DEF RemembersRects, RemembersAt, Remembered, Clamped
<1>6. ShowsItsLayout'
  BY <1>1, <1>2, <1>3 DEF MemoryInv, ShowsItsLayout, Seen
<1>7. ComesBack'
  BY <1>1 DEF ComesBack, Seen
<1> QED
  BY <1>1, <1>4, <1>5, <1>6, <1>7 DEF MemoryInv, FiledUnderItsLayout

LEMMA RestorePutsBack == ASSUME MemoryInv, Restores PROVE MemoryInv'
<1> DEFINE L == mem.layout
           s == SizeOf(mem)
           p == PlaceToTake(mem)
<1>1. /\ Seen /\ restoring' = FALSE /\ UNCHANGED <<page, post, drag, tray, left, slow, misfiled>>
      /\ win' = [Resized(mem) EXCEPT !.x = p] /\ mem' = Noted(mem, p) /\ onDisk' = Noted(mem, p)
  BY DEF Restores, Saves
<1>2. /\ GoodMemory(mem) /\ L \in Layout /\ mem.pos[L] \in Int /\ win.face \in Layout
      /\ left \in [Layout -> RectOf \cup {NoRect}]
      /\ DOMAIN win = {"up", "face", "x", "w", "min", "own"}
  BY DEF MemoryInv, MemoryShape, GoodMemory
<1>3. s = Remembered(mem, L) /\ s \in 1..Span
  BY <1>2, SizeOfIs
<1>4. p = (IF mem.pos[L] = Nowhere THEN Home(s) ELSE Clamped(mem.pos[L], s))
  BY DEF PlaceToTake
<1>5. p \in Place /\ p \in Int
  BY <1>2, <1>3, <1>4, ClampedIs, HomeIs DEF Place
<1>6. /\ DOMAIN win' = {"up", "face", "x", "w", "min", "own"} /\ win'.up = win.up
      /\ win'.face = win.face /\ win'.x = p /\ win'.w = s
  BY <1>1, <1>2 DEF Resized
<1>7. /\ GoodMemory(Noted(mem, p)) /\ Noted(mem, p).layout = L
      /\ \A l \in Layout : /\ Remembered(Noted(mem, p), l) = Remembered(mem, l)
                           /\ Noted(mem, p).pos[l] = IF l = L THEN p ELSE mem.pos[l]
  BY <1>2, <1>5, NotedIs
<1>8. ASSUME left[L] # NoRect
      PROVE  s = left[L].w /\ p = Clamped(left[L].x, left[L].w)
  <2>1. left[L] \in RectOf
    BY <1>2, <1>8
  <2>2. left[L].x \in Place /\ left[L].x \in Int /\ left[L].w \in 1..Span
    BY <2>1 DEF RectOf, Place
  <2>3. Remembered(mem, L) = left[L].w /\ mem.pos[L] \in {left[L].x, Clamped(left[L].x, left[L].w)}
    BY <1>2, <1>8 DEF MemoryInv, RemembersRects, RemembersAt
  <2>4. mem.pos[L] # Nowhere
    BY <2>2, <2>3, ClampedIs DEF Place
  <2>5. Clamped(mem.pos[L], left[L].w) = Clamped(left[L].x, left[L].w)
    BY <2>2, <2>3, ClampedIs
  <2> QED
    BY <1>3, <1>4, <2>3, <2>4, <2>5
<1> HIDE DEF L, s, p
<1>9. MemoryShape'
  BY <1>1, <1>2, <1>3, <1>5, <1>6, <1>7 DEF MemoryInv, MemoryShape, GoodMemory, RectOf
<1>10. RemembersRects(Noted(mem, p), left)
  BY <1>3, <1>7, <1>8 DEF MemoryInv, RemembersRects, RemembersAt
<1>11. RemembersRects(mem, left)'
  BY <1>1, <1>10 DEF RemembersRects, RemembersAt, Remembered, Clamped
<1>12. ShowsItsLayout'
  BY <1>1, <1>6, <1>7 DEF L, MemoryInv, ShowsItsLayout, Seen
<1>13. ComesBack'
  <2> SUFFICES ASSUME win'.up = "up", Quiet', ~slow', left'[win'.face] # NoRect
               PROVE  /\ win'.w = left'[win'.face].w
                      /\ win'.x \in {left'[win'.face].x, Clamped(left'[win'.face].x, win'.w)}
    BY DEF ComesBack, Clamped
  <2>1. win.face = L
    BY <1>1 DEF L, MemoryInv, ShowsItsLayout, Quiet
  <2> QED
    BY <1>1, <1>6, <1>8, <2>1
<1> QED
  BY <1>1, <1>9, <1>11, <1>12, <1>13 DEF MemoryInv, FiledUnderItsLayout
\* The listener's own moves and sizes: the place and the size of the layout that is current
\* are written anew, and its rectangle, with that of the layout shown, is no longer one to
\* come back to.
LEMMA TouchedSettles ==
  ASSUME MemoryInv, NEW m, GoodMemory(m), m.layout = mem.layout,
         \A l \in Layout : l # mem.layout =>
            Remembered(m, l) = Remembered(mem, l) /\ m.pos[l] = mem.pos[l],
         Saves(m), Touched,
         DOMAIN win' = {"up", "face", "x", "w", "min", "own"}, win'.up = win.up,
         win'.face = win.face, win'.x \in Place, win'.w \in 1..Span,
         drag'.w \in 1..Span, DOMAIN drag' = {"on", "same", "w"},
         UNCHANGED <<page, post, tray, slow, misfiled>>
  PROVE  MemoryInv'
<1>1. mem' = m /\ onDisk' = m /\ left' = [l \in Layout |-> IF l \in {mem.layout, win.face} THEN NoRect ELSE left[l]]
  BY DEF Saves, Touched
<1>2. left \in [Layout -> RectOf \cup {NoRect}] /\ win.face \in Layout
  BY DEF MemoryInv, MemoryShape
<1>3. /\ left' \in [Layout -> RectOf \cup {NoRect}] /\ left'[win.face] = NoRect
      /\ \A l \in Layout : left'[l] # NoRect => l # mem.layout /\ left'[l] = left[l]
  BY <1>1, <1>2
<1>4. MemoryShape'
  BY <1>1, <1>3 DEF MemoryInv, MemoryShape, GoodMemory, RectOf
<1>5. RemembersRects(m, left')
  BY <1>3 DEF MemoryInv, RemembersRects, RemembersAt
<1>6. RemembersRects(mem, left)'
  BY <1>1, <1>5 DEF RemembersRects, RemembersAt, Remembered, Clamped
<1>7. ShowsItsLayout'
  BY <1>1, <1>3 DEF MemoryInv, ShowsItsLayout, Seen
<1>8. ComesBack'
  BY <1>3 DEF ComesBack
<1> QED
  BY <1>4, <1>6, <1>7, <1>8 DEF MemoryInv, FiledUnderItsLayout

LEMMA SnapsSettle == ASSUME MemoryInv, Snaps \/ Nudges PROVE MemoryInv'
<1>1. /\ GoodMemory(mem) /\ mem.layout \in Layout /\ win.x \in Int /\ win.w \in 1..Span
      /\ DOMAIN win = {"up", "face", "x", "w", "min", "own"} /\ drag.w \in 1..Span
      /\ DOMAIN drag = {"on", "same", "w"}
  BY DEF MemoryInv, MemoryShape, GoodMemory, Place
<1>2. PICK x \in Place : Moves(x)
  <2>1. CASE Snaps
    BY <1>1, <2>1, SnappedIs DEF Snaps
  <2>2. CASE Nudges
    <3>1. PICK r \in Rect : Moves(Clamped(r.x, win.w))
      BY <2>2 DEF Nudges
    <3>2. r.x \in Int
      BY MemoryAssumption DEF MemoryAssumption
    <3> QED
      BY <1>1, <3>1, <3>2, ClampedIs
  <2> QED
    BY <2>1, <2>2
<1>3. /\ win' = [win EXCEPT !.x = x] /\ Saves(Noted(mem, x)) /\ Touched
      /\ UNCHANGED <<page, post, drag, tray, slow, misfiled>>
  BY <1>2 DEF Moves
<1>4. x \in Int
  BY DEF Place
<1>5. /\ GoodMemory(Noted(mem, x)) /\ Noted(mem, x).layout = mem.layout
      /\ \A l \in Layout : /\ Remembered(Noted(mem, x), l) = Remembered(mem, l)
                           /\ Noted(mem, x).pos[l] = IF l = mem.layout THEN x ELSE mem.pos[l]
  BY <1>1, <1>4, NotedIs
<1>6. /\ DOMAIN win' = {"up", "face", "x", "w", "min", "own"} /\ win'.up = win.up
      /\ win'.face = win.face /\ win'.x = x /\ win'.w = win.w
  BY <1>1, <1>3
<1> DEFINE m == Noted(mem, x)
<1> HIDE DEF m
<1> QED
  BY <1>1, <1>3, <1>5, <1>6, TouchedSettles DEF m

LEMMA SizesSettle == ASSUME MemoryInv, ResizesNext PROVE MemoryInv'
<1> DEFINE c == Cleared(mem)
           m == [c EXCEPT !.idx[mem.layout] = 1 - mem.idx[mem.layout]]
<1>1. /\ GoodMemory(mem) /\ mem.layout \in Layout /\ win.x \in Int /\ win.w \in 1..Span
      /\ DOMAIN win = {"up", "face", "x", "w", "min", "own"} /\ drag.w \in 1..Span
      /\ DOMAIN drag = {"on", "same", "w"} /\ mem.idx[mem.layout] \in {0, 1}
  BY DEF MemoryInv, MemoryShape, GoodMemory, Place
<1>2. /\ win' = Resized(m) /\ Saves(m) /\ Touched
      /\ UNCHANGED <<page, post, drag, tray, slow, misfiled>>
  BY DEF ResizesNext
<1>3. /\ GoodMemory(c) /\ c.layout = mem.layout
      /\ \A l \in Layout : /\ c.pos[l] = mem.pos[l]
                           /\ l # mem.layout => Remembered(c, l) = Remembered(mem, l)
  BY <1>1, ClearedIs
<1> HIDE DEF c
<1>4. /\ GoodMemory(m) /\ m.layout = c.layout
      /\ \A l \in Layout : /\ m.pos[l] = c.pos[l]
                           /\ l # mem.layout => Remembered(m, l) = Remembered(c, l)
  <2>1. 1 - mem.idx[mem.layout] \in {0, 1}
    BY <1>1
  <2> DEFINE i == 1 - mem.idx[mem.layout]
             k == mem.layout
  <2>2. m = [c EXCEPT !.idx[k] = i] /\ k \in Layout /\ i \in {0, 1} /\ k = mem.layout
    BY <1>1, <2>1
  <2> HIDE DEF i, k, m
  <2>3. /\ GoodMemory(m) /\ m.layout = c.layout
        /\ \A l \in Layout : /\ m.pos[l] = c.pos[l]
                             /\ l # k => Remembered(m, l) = Remembered(c, l)
    BY <1>3, <2>2 DEF GoodMemory, Remembered
  <2> QED
    BY <2>2, <2>3
<1> HIDE DEF m
<1>5. SizeOf(m) \in 1..Span
  BY <1>4, SizeOfIs
<1>6. win.x + win.w \div 2 - SizeOf(m) \div 2 \in Int
  BY <1>1, <1>5
<1>7. Clamped(win.x + win.w \div 2 - SizeOf(m) \div 2, SizeOf(m)) \in Place
  BY <1>5, <1>6, ClampedIs
<1>8. /\ DOMAIN win' = {"up", "face", "x", "w", "min", "own"} /\ win'.up = win.up
      /\ win'.face = win.face /\ win'.x \in Place /\ win'.w \in 1..Span
  BY <1>1, <1>2, <1>5, <1>7 DEF Resized
<1> QED
  BY <1>1, <1>2, <1>3, <1>4, <1>8, TouchedSettles

LEMMA DragSettles == ASSUME MemoryInv, DragEnds PROVE MemoryInv'
<1>1. /\ GoodMemory(mem) /\ mem.layout \in Layout /\ win.x \in Place /\ win.w \in 1..Span
      /\ DOMAIN win = {"up", "face", "x", "w", "min", "own"} /\ drag.w \in 1..Span
  BY DEF MemoryInv, MemoryShape, GoodMemory
<1>2. PICK r \in Rect :
        /\ win' = IF drag.same THEN [win EXCEPT !.x = Clamped(r.x, drag.w)] ELSE win
        /\ Saves(Noted(mem, Clamped(r.x, drag.w)))
  BY DEF DragEnds
<1> DEFINE x == Clamped(r.x, drag.w)
           m == Noted(mem, x)
<1>3. r.x \in Int /\ 1 \in 1..Span
  BY <1>1, MemoryAssumption DEF MemoryAssumption
<1>4. x \in Place /\ x \in Int
  BY <1>1, <1>3, ClampedIs DEF Place
<1>5. Touched /\ drag' = NoDrag /\ UNCHANGED <<page, post, tray, slow, misfiled>>
  BY DEF DragEnds
<1>6. drag'.w \in 1..Span /\ DOMAIN drag' = {"on", "same", "w"}
  BY <1>3, <1>5 DEF NoDrag
<1> HIDE DEF x
<1>7. /\ GoodMemory(m) /\ m.layout = mem.layout
      /\ \A l \in Layout : /\ Remembered(m, l) = Remembered(mem, l)
                           /\ m.pos[l] = IF l = mem.layout THEN x ELSE mem.pos[l]
  BY <1>1, <1>4, NotedIs
<1>8. /\ DOMAIN win' = {"up", "face", "x", "w", "min", "own"} /\ win'.up = win.up
      /\ win'.face = win.face /\ win'.x \in Place /\ win'.w \in 1..Span
  BY <1>1, <1>2, <1>4 DEF x
<1>9. Saves(m)
  BY <1>2 DEF x
<1> HIDE DEF m
<1> QED
  BY <1>1, <1>5, <1>6, <1>7, <1>8, <1>9, TouchedSettles
\* A look: the layout that is current gets the rectangle of the window, and only where that
\* is the layout shown, the page being through, is it one to come back to.
LEMMA LookIs ==
  ASSUME MemoryInv, LooksNow
  PROVE  /\ GoodMemory(mem') /\ GoodMemory(onDisk') /\ mem'.layout = mem.layout
         /\ left' \in [Layout -> RectOf \cup {NoRect}] /\ RemembersRects(mem', left')
         /\ left'[win.face] # NoRect => Quiet /\ left'[win.face] = [x |-> win.x, w |-> win.w]
         /\ misfiled' = (misfiled \/ (Quiet /\ ~slow /\ win.face # mem.layout))
<1> DEFINE placed == Noted(mem, win.x)
           sized  == SizeNoted(placed, win.w)
           rect   == [x |-> win.x, w |-> win.w]
<1>1. /\ GoodMemory(mem) /\ win.x \in Place /\ win.x \in Int /\ win.w \in 1..Span
      /\ win.face \in Layout /\ mem.layout \in Layout
      /\ left \in [Layout -> RectOf \cup {NoRect}] /\ RemembersRects(mem, left)
  BY DEF MemoryInv, MemoryShape, GoodMemory, Place
<1>2. /\ mem' = sized /\ onDisk' \in {placed, sized}
      /\ left' = [l \in Layout |->
                    IF l \notin {win.face, mem.layout} THEN left[l]
                    ELSE IF Quiet /\ win.face = mem.layout THEN rect ELSE NoRect]
      /\ misfiled' = (misfiled \/ (Quiet /\ ~slow /\ win.face # mem.layout))
  BY DEF LooksNow, RectAsLeft
<1>3. /\ GoodMemory(placed) /\ placed.layout = mem.layout
      /\ \A l \in Layout : /\ Remembered(placed, l) = Remembered(mem, l)
                           /\ placed.pos[l] = IF l = mem.layout THEN win.x ELSE mem.pos[l]
  BY <1>1, NotedIs
<1> HIDE DEF placed
<1>4. /\ GoodMemory(sized) /\ sized.layout = placed.layout
      /\ \A l \in Layout : /\ sized.pos[l] = placed.pos[l]
                           /\ Remembered(sized, l) = IF l = placed.layout THEN win.w ELSE Remembered(placed, l)
  BY <1>1, <1>3, SizeNotedIs
<1> HIDE DEF sized
<1>5. rect \in RectOf /\ rect.x = win.x /\ rect.w = win.w
  BY <1>1 DEF RectOf
<1> HIDE DEF rect
<1>6. left' \in [Layout -> RectOf \cup {NoRect}]
  BY <1>1, <1>2, <1>5
<1>7. \A l \in Layout : RemembersAt(sized, left', l)
  BY <1>1, <1>2, <1>3, <1>4, <1>5 DEF RemembersRects, RemembersAt
<1>8. left'[win.face] # NoRect => Quiet /\ left'[win.face] = rect
  BY <1>1, <1>2
<1> QED
  BY <1>2, <1>3, <1>4, <1>6, <1>7, <1>8 DEF RemembersRects, rect

LEMMA ClosingSettles ==
  ASSUME MemoryInv, LooksNow, Closing, Seen, tray' \in Layout \cup {"none"},
         UNCHANGED <<page, post, drag, slow>>
  PROVE  MemoryInv'
<1>1. /\ GoodMemory(mem') /\ GoodMemory(onDisk') /\ mem'.layout = mem.layout
      /\ left' \in [Layout -> RectOf \cup {NoRect}] /\ RemembersRects(mem', left')
      /\ left'[win.face] # NoRect => Quiet /\ left'[win.face] = [x |-> win.x, w |-> win.w]
      /\ misfiled' = (misfiled \/ (Quiet /\ ~slow /\ win.face # mem.layout))
  BY LookIs
<1>2. /\ DOMAIN win' = {"up", "face", "x", "w", "min", "own"} /\ win'.up = "closing"
      /\ win'.face = win.face /\ win'.x = win.x /\ win'.w = win.w
  BY DEF Closing, MemoryInv, MemoryShape
<1>3. MemoryShape'
  BY <1>1, <1>2 DEF MemoryInv, MemoryShape, GoodMemory, RectOf
<1>4. RemembersRects(mem, left)'
  BY <1>1 DEF RemembersRects, RemembersAt, Remembered, Clamped
<1>5. ShowsItsLayout'
  BY <1>1, <1>2 DEF MemoryInv, ShowsItsLayout, Seen, Quiet
<1>6. ComesBack'
  BY <1>2 DEF ComesBack
<1>7. ~misfiled'
  BY <1>1 DEF MemoryInv, FiledUnderItsLayout, ShowsItsLayout, Quiet
<1> QED
  BY <1>3, <1>4, <1>5, <1>6, <1>7 DEF MemoryInv, FiledUnderItsLayout

LEMMA BeaconSettles == ASSUME MemoryInv, HandlesBeacon PROVE MemoryInv'
<1>1. UNCHANGED <<win, page, post, restoring, drag, tray, slow>>
  BY DEF HandlesBeacon
<1>2. CASE Seen
  <2>0. LooksNow
    BY <1>2 DEF HandlesBeacon
  <2>1. /\ GoodMemory(mem') /\ GoodMemory(onDisk') /\ mem'.layout = mem.layout
        /\ left' \in [Layout -> RectOf \cup {NoRect}] /\ RemembersRects(mem', left')
        /\ left'[win.face] # NoRect => Quiet /\ left'[win.face] = [x |-> win.x, w |-> win.w]
        /\ misfiled' = (misfiled \/ (Quiet /\ ~slow /\ win.face # mem.layout))
    BY <2>0, LookIs
  <2>3. MemoryShape'
    BY <1>1, <2>1 DEF MemoryInv, MemoryShape, GoodMemory, RectOf
  <2>4. RemembersRects(mem, left)'
    BY <2>1 DEF RemembersRects, RemembersAt, Remembered, Clamped
  <2>5. ShowsItsLayout'
    BY <1>1, <2>1 DEF MemoryInv, ShowsItsLayout, Seen, Quiet
  <2>6. ComesBack'
    BY <1>1, <2>1 DEF ComesBack
  <2>7. ~misfiled'
    BY <1>2, <2>1 DEF MemoryInv, FiledUnderItsLayout, ShowsItsLayout, Quiet
  <2> QED
    BY <2>3, <2>4, <2>5, <2>6, <2>7 DEF MemoryInv, FiledUnderItsLayout
<1>3. CASE ~Seen
  <2>1. UNCHANGED <<mem, onDisk, left, misfiled>>
    BY <1>3 DEF HandlesBeacon
  <2>2. ShowsItsLayout' /\ ComesBack'
    BY <1>1, <2>1 DEF MemoryInv, ShowsItsLayout, Seen, ComesBack, Quiet, Clamped
  <2> QED
    BY <1>1, <2>1, <2>2, MemoryCalm DEF MemoryInv, MemoryShape
<1> QED
  BY <1>2, <1>3

LEMMA TrayAskSettles == ASSUME MemoryInv, NEW l \in Layout, TrayChanges(l) PROVE MemoryInv'
<1>1. CASE Seen
  <2>1. LooksNow /\ Closing /\ tray' = l /\ UNCHANGED <<page, post, drag, slow>>
    BY <1>1 DEF TrayChanges
  <2> QED
    BY <1>1, <2>1, ClosingSettles
<1>2. CASE ~Seen
  <2>1. ViewSet(l, FALSE) /\ UNCHANGED <<win, page, post, drag, tray, slow, misfiled>>
    BY <1>2 DEF TrayChanges
  <2>2. /\ GoodMemory(mem') /\ onDisk' = mem' /\ mem'.layout = l
        /\ left' \in [Layout -> RectOf \cup {NoRect}] /\ RemembersRects(mem', left')
        /\ \A k \in Layout : left'[k] # NoRect => left'[k] = left[k]
    BY <2>1, ViewSetIs
  <2>3. MemoryShape'
    BY <2>1, <2>2 DEF MemoryInv, MemoryShape, GoodMemory, RectOf
  <2>4. RemembersRects(mem, left)'
    BY <2>2 DEF RemembersRects, RemembersAt, Remembered, Clamped
  <2>5. ShowsItsLayout' /\ ComesBack'
    BY <1>2, <2>1 DEF MemoryInv, ShowsItsLayout, Seen, ComesBack
  <2> QED
    BY <2>1, <2>3, <2>4, <2>5 DEF MemoryInv, FiledUnderItsLayout
<1> QED
  BY <1>1, <1>2

LEMMA RestartSettles == ASSUME MemoryInv, ListenerRestarts PROVE MemoryInv'
<1>1. /\ mem' = onDisk /\ win' = NoWindow /\ page' = "done" /\ post' = <<>> /\ drag' = NoDrag
      /\ tray' = "none" /\ UNCHANGED <<onDisk, slow, misfiled>>
      /\ left' = IF onDisk = mem THEN left ELSE [l \in Layout |-> NoRect]
  BY DEF ListenerRestarts
<1>2. /\ DOMAIN win' = {"up", "face", "x", "w", "min", "own"} /\ win'.up = "none"
      /\ win'.face = "advanced" /\ win'.x = 0 /\ win'.w = Large["advanced"]
  BY <1>1 DEF NoWindow
<1>3. 0 \in Place /\ Large["advanced"] \in 1..Span /\ 1 \in 1..Span
  BY MemoryAssumption DEF MemoryAssumption, Place, Nowhere, Layout
<1>4. left' \in [Layout -> RectOf \cup {NoRect}]
  BY <1>1 DEF MemoryInv, MemoryShape
<1>5. MemoryShape'
  BY <1>1, <1>2, <1>3, <1>4 DEF MemoryInv, MemoryShape, GoodMemory, RectOf, NoDrag, Layout
<1>6. RemembersRects(mem', left')
  BY <1>1 DEF MemoryInv, RemembersRects, RemembersAt
<1>7. RemembersRects(mem, left)'
  BY <1>6 DEF RemembersRects, RemembersAt, Remembered, Clamped
<1>8. ShowsItsLayout' /\ ComesBack'
  BY <1>1, <1>2 DEF ShowsItsLayout, Seen, ComesBack
<1> QED
  BY <1>1, <1>5, <1>7, <1>8 DEF MemoryInv, FiledUnderItsLayout

LEMMA MemoryStays == ASSUME MemoryInv, UNCHANGED memoryVars PROVE MemoryInv'
<1>1. UNCHANGED <<mem, onDisk, win, page, post, restoring, drag, tray, left, slow, misfiled>>
  BY DEF memoryVars
<1>2. ShowsItsLayout' /\ ComesBack'
  BY <1>1 DEF MemoryInv, ShowsItsLayout, Seen, ComesBack, Quiet, Clamped
<1> QED
  BY <1>1, <1>2, MemoryCalm DEF MemoryInv, MemoryShape

LEMMA ClosesSettles == ASSUME MemoryInv, ClosesLooked PROVE MemoryInv'
<1>1. LooksNow /\ Closing /\ Seen /\ UNCHANGED <<page, post, drag, tray, slow>>
  BY DEF ClosesLooked, Seen
<1> QED
  BY <1>1, ClosingSettles DEF MemoryInv, MemoryShape

LEMMA MemoryKeeps == ASSUME MemoryInv, [MemoryNext]_memoryVars PROVE MemoryInv'
<1>1. CASE ShowCloses \/ ClosesUnlooked
  BY <1>1, ClosingCalm
<1>2. CASE ShowOpens \/ WindowGoes
  BY <1>2, OpeningCalm
<1>3. CASE Shows \/ RestoreGivesUp \/ Minimises
  BY <1>3, StillCalm
<1>4. CASE Snaps \/ Nudges
  BY <1>4, SnapsSettle
<1>5. CASE \E l \in Layout : TrayChanges(l)
  BY <1>5, TrayAskSettles
<1> QED
  BY <1>1, <1>2, <1>3, <1>4, <1>5, PageAsksCalm, DragBeginsCalm, ReshapesMoves, SwitchesMoves,
     PostSettles, TraySettles, RestorePutsBack, SizesSettle, DragSettles, ClosesSettles,
     BeaconSettles, RestartSettles, MemoryStays, Zenon DEF MemoryNext

LEMMA MemoryMeans == ASSUME MemoryInv PROVE MemoryTypeOK /\ ComesBack /\ FiledUnderItsLayout
  BY DEF MemoryInv, MemoryShape, GoodMemory, MemoryTypeOK
----------------------------------------------------------------------------
(* EnetLink: the device comes and goes with its link, and its reports are   *)
(* handed on in the order they came.                                        *)

Kinds   == {"connect", "hello", "input", "answer", "disconnect"}
Message == [kind : Kinds, n : Nat]

\* Of the numbers above lo and up to hi, in order; among the messages, those of the reports.
Ascends(q, lo, hi) ==
    /\ \A i \in DOMAIN q : q[i] \in lo + 1..hi
    /\ \A i, j \in DOMAIN q : i < j => q[i] < q[j]
Reported(q, lo, hi) ==
    /\ \A i \in DOMAIN q : q[i].kind = "input" => q[i].n \in lo + 1..hi
    /\ \A i, j \in DOMAIN q : i < j /\ q[i].kind = "input" /\ q[j].kind = "input" => q[i].n < q[j].n
Asked(q) == \A i \in DOMAIN q : q[i].kind = "answer" => q[i].n \in 1..asks

\* The reports are one row from the TV to the device: those handed on are the first, those
\* queued for the worker come next, then those that came with the events, then the host's.
Rows(a, b, c) ==
    /\ a <= b /\ b <= c /\ c <= inputs
    /\ Ascends(handed, 0, a) /\ Ascends(inputQ, a, b)
    /\ Reported(inQ, b, c) /\ Reported(events, c, inputs)
InOneRow == \E a, b, c \in Nat : Rows(a, b, c)

EnetShape ==
    /\ asks \in Nat /\ inputs \in Nat /\ waiter \in 0..asks
    /\ events \in Seq(Message) /\ inQ \in Seq(Message) /\ Asked(events) /\ Asked(inQ)
    /\ outQ \in Seq(Nat) /\ \A i \in DOMAIN outQ : outQ[i] \in 1..asks
    /\ inputQ \in Seq(Nat) /\ handed \in Seq(Nat)
    /\ result \in Seq(Nat \X Nat) /\ \A i \in DOMAIN result : result[i][1] = result[i][2]

Linked == /\ service = "plug" => handshake
          /\ plugged => handshake /\ service \in {"flush", "events", "lost"}

EnetInv == EnetTypeOK /\ EnetShape /\ Linked /\ InOneRow

LEMMA AscendsTail ==
  ASSUME NEW q \in Seq(Nat), q # <<>>, NEW lo \in Nat, NEW hi \in Nat, Ascends(q, lo, hi)
  PROVE  /\ Tail(q) \in Seq(Nat) /\ Ascends(Tail(q), Head(q), hi) /\ Head(q) \in lo + 1..hi
         /\ Ascends(Tail(q), lo, hi) /\ Len(Tail(q)) = Len(q) - 1
<1>1. /\ Tail(q) \in Seq(Nat) /\ Len(Tail(q)) = Len(q) - 1 /\ Head(q) = q[1] /\ 1 \in DOMAIN q
      /\ \A i \in DOMAIN Tail(q) : i \in Nat /\ i > 0 /\ i + 1 \in DOMAIN q /\ Tail(q)[i] = q[i + 1]
  OBVIOUS
<1>0. /\ \A i \in DOMAIN q : q[i] \in lo + 1..hi /\ q[i] \in Nat /\ i \in Nat
      /\ \A i, j \in DOMAIN q : i < j => q[i] < q[j]
  BY DEF Ascends
<1> DEFINE t == Tail(q)
<1> HIDE DEF t
<1>2. \A i \in DOMAIN t : t[i] \in lo + 1..hi /\ t[i] \in q[1] + 1..hi
  <2> SUFFICES ASSUME NEW i \in DOMAIN t PROVE t[i] \in lo + 1..hi /\ t[i] \in q[1] + 1..hi
    OBVIOUS
  <2>1. i \in Nat /\ i > 0 /\ i + 1 \in DOMAIN q /\ t[i] = q[i + 1] /\ 1 \in DOMAIN q /\ 1 < i + 1
    BY <1>1 DEF t
  <2> QED
    BY <1>0, <2>1
<1>3. \A i, j \in DOMAIN t : i < j => t[i] < t[j]
  BY <1>1 DEF Ascends, t
<1> QED
  BY <1>1, <1>2, <1>3 DEF Ascends, t

LEMMA AscendsAppend ==
  ASSUME NEW q \in Seq(Nat), NEW lo \in Nat, NEW hi \in Nat, NEW n \in Nat, Ascends(q, lo, hi),
         lo <= hi, n > hi
  PROVE  Append(q, n) \in Seq(Nat) /\ Ascends(Append(q, n), lo, n) /\ Len(Append(q, n)) = Len(q) + 1
<1> DEFINE p == Append(q, n)
<1>1. /\ p \in Seq(Nat) /\ Len(p) = Len(q) + 1
      /\ \A i \in DOMAIN p : i \in Nat /\ (i \in DOMAIN q \/ i = Len(q) + 1)
      /\ \A i \in DOMAIN q : p[i] = q[i] /\ i \in Nat /\ i < Len(q) + 1 /\ q[i] \in Nat
      /\ p[Len(q) + 1] = n
  OBVIOUS
<1> HIDE DEF p
<1>2. \A i \in DOMAIN p : p[i] \in lo + 1..n
  BY <1>1 DEF Ascends
<1>3. \A i, j \in DOMAIN p : i < j => p[i] < p[j]
  <2> SUFFICES ASSUME NEW i \in DOMAIN p, NEW j \in DOMAIN p, i < j
               PROVE  p[i] < p[j]
    OBVIOUS
  <2>1. CASE j \in DOMAIN q
    <3>1. i \in DOMAIN q /\ p[i] = q[i] /\ p[j] = q[j]
      BY <1>1, <2>1
    <3> QED
      BY <2>1, <3>1 DEF Ascends
  <2>2. CASE j = Len(q) + 1
    <3>1. i \in DOMAIN q /\ p[i] = q[i] /\ p[j] = n
      BY <1>1, <2>2
    <3> QED
      BY <3>1 DEF Ascends
  <2> QED
    BY <1>1, <2>1, <2>2
<1> QED
  BY <1>1, <1>2, <1>3 DEF Ascends, p

LEMMA ReportedTail ==
  ASSUME NEW q \in Seq(Message), q # <<>>, NEW lo \in Nat, NEW hi \in Nat, Reported(q, lo, hi)
  PROVE  /\ Tail(q) \in Seq(Message) /\ Head(q) \in Message
         /\ Head(q).kind = "input" => Head(q).n \in lo + 1..hi /\ Reported(Tail(q), Head(q).n, hi)
         /\ Reported(Tail(q), lo, hi) /\ \E i \in DOMAIN q : q[i] = Head(q)
<1>1. /\ Tail(q) \in Seq(Message) /\ Len(Tail(q)) = Len(q) - 1 /\ Head(q) = q[1] /\ 1 \in DOMAIN q
      /\ \A i \in DOMAIN Tail(q) : i \in Nat /\ i > 0 /\ i + 1 \in DOMAIN q /\ Tail(q)[i] = q[i + 1]
      /\ \A i \in DOMAIN q : q[i] \in Message
  OBVIOUS
<1> DEFINE t == Tail(q)
<1> HIDE DEF t
<1>2. \A i \in DOMAIN t : t[i].kind = "input" => t[i].n \in lo + 1..hi
  BY <1>1 DEF Reported, t
<1>3. q[1].kind = "input" =>
        \A i \in DOMAIN t : t[i].kind = "input" => t[i].n \in q[1].n + 1..hi
  <2> SUFFICES ASSUME q[1].kind = "input", NEW i \in DOMAIN t, t[i].kind = "input"
               PROVE  t[i].n \in q[1].n + 1..hi
    OBVIOUS
  <2>1. i + 1 \in DOMAIN q /\ t[i] = q[i + 1] /\ 1 < i + 1 /\ q[1].n \in Nat /\ q[i + 1].n \in Nat
    BY <1>1 DEF t, Message
  <2> QED
    BY <1>1, <2>1 DEF Reported
<1>4. \A i, j \in DOMAIN t : i < j /\ t[i].kind = "input" /\ t[j].kind = "input" => t[i].n < t[j].n
  BY <1>1 DEF Reported, t
<1> QED
  BY <1>1, <1>2, <1>3, <1>4 DEF Reported, t

LEMMA ReportedAppend ==
  ASSUME NEW q \in Seq(Message), NEW e \in Message, NEW lo \in Nat, NEW hi \in Nat, NEW top \in Nat,
         Reported(q, lo, hi), lo <= hi, hi <= top, e.kind = "input" => e.n \in hi + 1..top
  PROVE  Append(q, e) \in Seq(Message) /\ Reported(Append(q, e), lo, top)
<1> DEFINE p == Append(q, e)
<1>0. \A m \in Message : m.n \in Nat
  BY DEF Message
<1>1. /\ p \in Seq(Message)
      /\ \A i \in DOMAIN p : i \in Nat /\ (i \in DOMAIN q \/ i = Len(q) + 1)
      /\ \A i \in DOMAIN q : p[i] = q[i] /\ i \in Nat /\ i < Len(q) + 1 /\ q[i].n \in Nat
      /\ p[Len(q) + 1] = e /\ e.n \in Nat
  BY <1>0
<1> HIDE DEF p
<1>2. \A i \in DOMAIN p : p[i].kind = "input" => p[i].n \in lo + 1..top
  BY <1>1 DEF Reported
<1>3. \A i, j \in DOMAIN p : i < j /\ p[i].kind = "input" /\ p[j].kind = "input" => p[i].n < p[j].n
  <2> SUFFICES ASSUME NEW i \in DOMAIN p, NEW j \in DOMAIN p, i < j, p[i].kind = "input", p[j].kind = "input"
               PROVE  p[i].n < p[j].n
    OBVIOUS
  <2>1. CASE j \in DOMAIN q
    BY <1>1, <2>1 DEF Reported
  <2>2. CASE j = Len(q) + 1
    BY <1>1, <2>2 DEF Reported
  <2> QED
    BY <1>1, <2>1, <2>2
<1> QED
  BY <1>1, <1>2, <1>3 DEF Reported, p

LEMMA AskedMoves ==
  ASSUME NEW q \in Seq(Message)
  PROVE  /\ q # <<>> /\ Asked(q) => Asked(Tail(q)) /\ (Head(q).kind = "answer" => Head(q).n \in 1..asks)
         /\ \A e \in Message : Asked(q) /\ (e.kind = "answer" => e.n \in 1..asks) => Asked(Append(q, e))
  BY DEF Asked
LEMMA EnetBegins == ASSUME EnetInit PROVE EnetInv
<1>1. /\ tvSide = "away" /\ links = 0 /\ heard = {} /\ inputs = 0 /\ events = <<>>
      /\ service = "accept" /\ plugged = FALSE /\ inQ = <<>> /\ outQ = <<>>
      /\ waiter = 0 /\ asks = 0 /\ answers = {} /\ result = <<>> /\ inputQ = <<>> /\ handed = <<>>
  BY DEF EnetInit
<1>2. /\ connected \in BOOLEAN /\ hasPeer \in BOOLEAN /\ handshake \in BOOLEAN /\ plugged \in BOOLEAN
  BY Zenon DEF EnetInit
<1>3. MaxLinks \in Nat /\ InputCapacity \in Nat
  BY EnetAssumption DEF EnetAssumption
<1>4. EnetTypeOK
  BY <1>1, <1>2, <1>3 DEF EnetTypeOK
<1>5. EnetShape
  BY <1>1 DEF EnetShape, Asked
<1>6. Rows(0, 0, 0)
  BY <1>1 DEF Rows, Ascends, Reported
<1>7. Linked
  BY <1>1 DEF Linked
<1> QED
  BY <1>4, <1>5, <1>6, <1>7 DEF EnetInv, InOneRow

\* The TV's steps put one message into the host's row.
LEMMA TvSends ==
  ASSUME EnetInv, TvConnects \/ TvSaysHello \/ TvReports \/ TvReplies \/ TvGoes
  PROVE  EnetInv'
<1>1. /\ UNCHANGED <<connected, hasPeer, handshake, service, first, plugged, inQ, outQ, waiter, asks,
                     answers, result, inputQ, handed>>
  BY DEF TvConnects, TvSaysHello, TvReports, TvReplies, TvGoes, TvRest, waitVars, takenVars
<1>2. PICK e \in Message :
        /\ events' = Append(events, e)
        /\ inputs' \in {inputs, inputs + 1} /\ (e.kind = "input" => e.n = inputs + 1 /\ inputs' = inputs + 1)
        /\ e.kind = "answer" => e.n \in 1..asks
  <2>1. CASE TvConnects
    BY <2>1 DEF TvConnects, Sends, Message, Kinds
  <2>2. CASE TvSaysHello
    BY <2>2 DEF TvSaysHello, Sends, Message, Kinds
  <2>3. CASE TvReports
    <3>1. inputs + 1 \in Nat
      BY DEF EnetInv, EnetShape
    <3> DEFINE m == [kind |-> "input", n |-> inputs + 1]
    <3>2. m \in Message /\ m.n = inputs + 1
      BY <3>1 DEF Message, Kinds
    <3>3. events' = Append(events, m) /\ inputs' = inputs + 1 /\ m.kind # "answer"
      BY <2>3 DEF TvReports, Sends
    <3> QED
      BY <3>2, <3>3
  <2>4. CASE TvReplies
    <3>1. PICK n \in heard : events' = Append(events, [kind |-> "answer", n |-> n])
      BY <2>4 DEF TvReplies, Sends
    <3>2. n \in 1..asks /\ asks \in Nat
      BY DEF EnetInv, EnetShape, EnetTypeOK
    <3> QED
      BY <2>4, <3>1, <3>2 DEF TvReplies, Message, Kinds
  <2>5. CASE TvGoes
    BY <2>5 DEF TvGoes, Sends, Message, Kinds
  <2> QED
    BY <2>1, <2>2, <2>3, <2>4, <2>5
<1>3. tvSide' \in {"away", "up", "hello"} /\ links' \in 0..MaxLinks /\ heard' \subseteq heard
  BY EnetAssumption DEF EnetAssumption, EnetInv, EnetTypeOK, TvConnects, TvSaysHello, TvReports, TvReplies, TvGoes
<1>4. PICK a, b, c \in Nat : Rows(a, b, c)
  BY DEF EnetInv, InOneRow
<1>5. /\ events \in Seq(Message) /\ inputs \in Nat /\ Asked(events)
  BY DEF EnetInv, EnetShape
<1>6. inputs' \in Nat /\ inputs <= inputs' /\ (e.kind = "input" => e.n \in inputs + 1..inputs')
  BY <1>2, <1>5
<1>7. events' \in Seq(Message) /\ Reported(events', c, inputs')
  BY <1>2, <1>4, <1>5, <1>6, ReportedAppend DEF Rows
<1>8. Asked(events')
  BY <1>2, <1>5, AskedMoves
<1>9. Rows(a, b, c)'
  BY <1>1, <1>4, <1>5, <1>6, <1>7 DEF Rows, Ascends, Reported
<1>10. EnetShape'
  BY <1>1, <1>6, <1>7, <1>8 DEF EnetInv, EnetShape, Asked
<1>11. EnetTypeOK'
  BY <1>1, <1>3 DEF EnetInv, EnetTypeOK
<1>12. Linked'
  BY <1>1 DEF EnetInv, Linked
<1> QED
  BY <1>9, <1>10, <1>11, <1>12 DEF EnetInv, InOneRow

\* The service thread takes a message from the host.
LEMMA Took ==
  ASSUME EnetInv, TakesEvent, Serves
  PROVE  connected' \in BOOLEAN /\ hasPeer' \in BOOLEAN /\ EnetShape' /\ InOneRow'
<1> DEFINE e == Head(events)
<1>1. /\ events # <<>> /\ events' = Tail(events)
      /\ UNCHANGED <<tvSide, links, heard, inputs, waiter, asks, answers, result, inputQ, handed, outQ>>
  BY DEF TakesEvent, Serves, tvVars, waitVars, takenVars
<1>2. /\ events \in Seq(Message) /\ inQ \in Seq(Message) /\ inputs \in Nat /\ Asked(events) /\ Asked(inQ)
      /\ connected \in BOOLEAN /\ hasPeer \in BOOLEAN
  BY DEF EnetInv, EnetShape, EnetTypeOK
<1>3. connected' \in BOOLEAN /\ hasPeer' \in BOOLEAN
  <2>1. CASE e.kind = "connect"
    <3>1. connected' = TRUE /\ hasPeer' = TRUE
      BY <2>1 DEF TakesEvent
    <3> QED
      BY <3>1, Zenon
  <2>2. CASE e.kind = "disconnect"
    <3>1. connected' = FALSE /\ hasPeer' = FALSE
      BY <2>2 DEF TakesEvent
    <3> QED
      BY <3>1, Zenon
  <2>3. CASE e.kind \notin {"connect", "disconnect"}
    <3>1. connected' = connected /\ hasPeer' = hasPeer
      BY <2>3 DEF TakesEvent
    <3> QED
      BY <1>2, <3>1, Zenon
  <2> QED
    BY <2>1, <2>2, <2>3
<1>4. PICK a, b, c \in Nat : Rows(a, b, c)
  BY DEF EnetInv, InOneRow
<1>5. /\ Tail(events) \in Seq(Message) /\ e \in Message
      /\ e.kind = "input" => e.n \in c + 1..inputs /\ Reported(Tail(events), e.n, inputs)
      /\ Reported(Tail(events), c, inputs)
  BY <1>1, <1>2, <1>4, ReportedTail DEF Rows
<1>6. Asked(Tail(events)) /\ (e.kind = "answer" => e.n \in 1..asks)
  BY <1>1, <1>2, AskedMoves
<1> HIDE DEF e
<1>7. CASE e.kind \in {"connect", "disconnect"}
  <2>1. inQ' = inQ
    BY <1>7 DEF TakesEvent, e
  <2>2. EnetShape'
    BY <1>1, <1>5, <1>6, <2>1 DEF EnetInv, EnetShape, Asked
  <2>3. Rows(a, b, c)'
    BY <1>1, <1>4, <1>5, <2>1 DEF Rows, Ascends, Reported
  <2> QED
    BY <1>3, <2>2, <2>3 DEF InOneRow
<1>8. CASE e.kind \notin {"connect", "disconnect"}
  <2>1. inQ' = Append(inQ, e)
    BY <1>8 DEF TakesEvent, e
  <2>2. PICK d \in Nat : /\ c <= d /\ d <= inputs /\ (e.kind = "input" => e.n \in c + 1..d)
                         /\ Reported(Tail(events), d, inputs)
    <3>1. CASE e.kind = "input"
      <4>1. e.n \in Nat /\ c <= e.n /\ e.n <= inputs /\ e.n \in c + 1..e.n
        BY <1>2, <1>5, <3>1
      <4> QED
        BY <1>5, <3>1, <4>1
    <3>2. CASE e.kind # "input"
      BY <1>2, <1>4, <1>5, <3>2 DEF Rows
    <3> QED
      BY <3>1, <3>2
  <2>3. Append(inQ, e) \in Seq(Message) /\ Reported(Append(inQ, e), b, d)
    BY <1>2, <1>4, <1>5, <2>2, ReportedAppend DEF Rows
  <2>4. Asked(Append(inQ, e))
    BY <1>2, <1>5, <1>6, AskedMoves
  <2>5. EnetShape'
    BY <1>1, <1>5, <1>6, <2>1, <2>3, <2>4 DEF EnetInv, EnetShape, Asked
  <2>6. b <= d
    BY <1>4, <2>2 DEF Rows
  <2>7. Rows(a, b, d)'
    BY <1>1, <1>4, <2>1, <2>2, <2>3, <2>6 DEF Rows, Ascends, Reported
  <2> QED
    BY <1>3, <2>2, <2>5, <2>7 DEF InOneRow
<1> QED
  BY <1>7, <1>8
LEMMA ServiceHears ==
  ASSUME EnetInv, Listens \/ WaitsForHello \/ ServesEvents
  PROVE  EnetInv'
<1>1. TakesEvent /\ Serves /\ UNCHANGED <<handshake, plugged>>
  BY DEF Listens, WaitsForHello, ServesEvents
<1>2. connected' \in BOOLEAN /\ hasPeer' \in BOOLEAN /\ EnetShape' /\ InOneRow'
  BY <1>1, Took
<1>3. UNCHANGED <<tvSide, links, heard, asks, answers, inputQ>>
  BY <1>1 DEF Serves, tvVars, waitVars, takenVars
<1>4. service' \in {"listen", "hello", "lost", "events"} /\ Linked'
  BY <1>1 DEF Listens, WaitsForHello, ServesEvents, EnetInv, Linked
<1>5. EnetTypeOK'
  BY <1>1, <1>2, <1>3, <1>4 DEF EnetInv, EnetTypeOK
<1> QED
  BY <1>2, <1>4, <1>5 DEF EnetInv

\* What is put away or taken from the rows leaves them in order.
LEMMA RowsShrink ==
  ASSUME EnetInv, events' \in {events, <<>>}, inQ' \in {inQ, <<>>} \/ (inQ # <<>> /\ inQ' = Tail(inQ)),
         outQ' \in {outQ, <<>>}, UNCHANGED <<inputs, waiter, asks, answers, result, inputQ, handed>>
  PROVE  EnetShape' /\ InOneRow'
<1>1. <<>> \in Seq(Message) /\ Asked(<<>>) /\ \A lo, hi \in Nat : Reported(<<>>, lo, hi)
  BY DEF Asked, Reported
<1>2. PICK a, b, c \in Nat : Rows(a, b, c)
  BY DEF EnetInv, InOneRow
<1>3. inputs \in Nat /\ events \in Seq(Message) /\ inQ \in Seq(Message) /\ Asked(events) /\ Asked(inQ)
  BY DEF EnetInv, EnetShape
<1>4. events' \in Seq(Message) /\ Asked(events') /\ Reported(events', c, inputs)
  <2>1. CASE events' = events
    BY <1>2, <1>3, <2>1 DEF Rows
  <2>2. CASE events' = <<>>
    BY <1>1, <1>3, <2>2
  <2> QED
    BY <2>1, <2>2
<1>5. inQ' \in Seq(Message) /\ Asked(inQ') /\ Reported(inQ', b, c)
  <2>1. CASE inQ' = inQ
    BY <1>2, <1>3, <2>1 DEF Rows
  <2>2. CASE inQ' = <<>>
    BY <1>1, <2>2
  <2>3. CASE inQ # <<>> /\ inQ' = Tail(inQ)
    BY <1>2, <1>3, <2>3, ReportedTail, AskedMoves DEF Rows
  <2> QED
    BY <2>1, <2>2, <2>3
<1>6. outQ' \in Seq(Nat) /\ \A i \in DOMAIN outQ' : outQ'[i] \in 1..asks
  <2>1. CASE outQ' = outQ
    BY <2>1 DEF EnetInv, EnetShape
  <2>2. CASE outQ' = <<>>
    BY <2>2
  <2> QED
    BY <2>1, <2>2
<1>7. EnetShape'
  BY <1>4, <1>5, <1>6 DEF EnetInv, EnetShape, Asked
<1>8. Rows(a, b, c)'
  BY <1>2, <1>4, <1>5 DEF Rows, Ascends, Reported
<1> QED
  BY <1>7, <1>8 DEF InOneRow

LEMMA LinkTurns ==
  ASSUME EnetInv, Accepts \/ EnetHelloFails \/ Configures \/ Plugs \/ LinkLost
  PROVE  EnetInv'
<1>1. /\ events' \in {events, <<>>} /\ outQ' = outQ
      /\ inQ' \in {inQ, <<>>} \/ (inQ # <<>> /\ inQ' = Tail(inQ))
      /\ UNCHANGED <<links, inputs, waiter, asks, answers, result, inputQ, handed>>
  BY DEF Accepts, EnetHelloFails, Configures, Plugs, LinkLost, Serves, tvVars, waitVars, takenVars
<1>2. EnetShape' /\ InOneRow'
  BY <1>1, RowsShrink
<1>3. tvSide' \in {tvSide, "away"} /\ heard' \in {heard, {}}
  BY DEF Accepts, EnetHelloFails, Configures, Plugs, LinkLost, Serves, tvVars
<1>4. /\ connected \in BOOLEAN /\ hasPeer \in BOOLEAN /\ handshake \in BOOLEAN /\ plugged \in BOOLEAN
  BY DEF EnetInv, EnetTypeOK
<1>5. /\ connected' \in {connected, FALSE} /\ hasPeer' \in {hasPeer, FALSE}
      /\ handshake' \in {handshake, TRUE, FALSE} /\ plugged' \in {plugged, TRUE, FALSE}
  BY Zenon DEF Accepts, EnetHelloFails, Configures, Plugs, LinkLost, ResetPeer
<1>6. connected' \in BOOLEAN /\ hasPeer' \in BOOLEAN /\ handshake' \in BOOLEAN /\ plugged' \in BOOLEAN
  BY <1>4, <1>5, Zenon
<1>7. service' \in {"accept", "listen", "plug", "flush", "failed"}
  BY DEF Accepts, EnetHelloFails, Configures, Plugs, LinkLost
<1>8. EnetTypeOK'
  BY <1>1, <1>3, <1>6, <1>7 DEF EnetInv, EnetTypeOK
<1>9. Linked'
  <2>1. CASE Accepts
    BY <2>1 DEF Accepts, EnetInv, Linked
  <2>2. CASE EnetHelloFails
    BY <2>2 DEF EnetHelloFails, EnetInv, Linked
  <2>3. CASE Configures
    BY <2>3 DEF Configures, EnetInv, Linked
  <2>4. CASE Plugs
    BY <2>4 DEF Plugs, EnetInv, Linked
  <2>5. CASE LinkLost
    BY <2>5 DEF LinkLost, EnetInv, Linked
  <2> QED
    BY <2>1, <2>2, <2>3, <2>4, <2>5
<1> QED
  BY <1>2, <1>8, <1>9 DEF EnetInv

LEMMA FlushesOut == ASSUME EnetInv, Flush PROVE EnetInv'
<1>1. /\ service = "flush" /\ service' = "events" /\ outQ' = <<>>
      /\ UNCHANGED <<tvSide, links, inputs, events, connected, hasPeer, handshake, plugged, inQ,
                     waiter, asks, answers, result, inputQ, handed>>
  BY DEF Flush, waitVars, takenVars
<1>2. EnetShape' /\ InOneRow'
  BY <1>1, RowsShrink
<1>3. heard' \subseteq 1..asks
  BY DEF Flush, EnetInv, EnetTypeOK, EnetShape
<1>4. EnetTypeOK'
  BY <1>1, <1>3 DEF EnetInv, EnetTypeOK
<1>5. Linked'
  BY <1>1 DEF EnetInv, Linked
<1> QED
  BY <1>2, <1>4, <1>5 DEF EnetInv

\* A report goes from the events' row into the worker's; the oldest makes room for it.
LEMMA EnqueuedIs ==
  ASSUME EnetInv, NEW a \in Nat, NEW b \in Nat, Ascends(inputQ, a, b), a <= b, NEW n \in Nat, n > b
  PROVE  Enqueued(n) \in Seq(Nat) /\ Ascends(Enqueued(n), a, n) /\ Len(Enqueued(n)) <= InputCapacity
<1>1. inputQ \in Seq(Nat) /\ Len(inputQ) <= InputCapacity /\ InputCapacity \in Nat \ {0}
  BY EnetAssumption DEF EnetAssumption, EnetInv, EnetShape, EnetTypeOK
<1>2. CASE Len(inputQ) >= InputCapacity
  <2>1. inputQ # <<>> /\ Len(inputQ) = InputCapacity
    BY <1>1, <1>2
  <2>2. Tail(inputQ) \in Seq(Nat) /\ Ascends(Tail(inputQ), a, b) /\ Len(Tail(inputQ)) = Len(inputQ) - 1
    BY <1>1, <2>1, AscendsTail
  <2> DEFINE t == Tail(inputQ)
  <2> HIDE DEF t
  <2>3. Append(t, n) \in Seq(Nat) /\ Ascends(Append(t, n), a, n) /\ Len(Append(t, n)) = Len(t) + 1
    BY <2>2, AscendsAppend DEF t
  <2> QED
    BY <1>1, <1>2, <2>1, <2>2, <2>3 DEF Enqueued, t
<1>3. CASE ~(Len(inputQ) >= InputCapacity)
  <2>1. Append(inputQ, n) \in Seq(Nat) /\ Ascends(Append(inputQ, n), a, n)
        /\ Len(Append(inputQ, n)) = Len(inputQ) + 1
    BY <1>1, AscendsAppend
  <2> QED
    BY <1>1, <1>3, <2>1 DEF Enqueued
<1> QED
  BY <1>2, <1>3
LEMMA ServiceDrains == ASSUME EnetInv, Drains PROVE EnetInv'
<1> DEFINE e == Head(inQ)
<1>1. /\ service = "events" /\ service' \in {"events", "flush"}
      /\ UNCHANGED <<tvSide, links, heard, inputs, events, connected, hasPeer, handshake, plugged, outQ,
                     waiter, asks, result, handed>>
  BY DEF Drains, tvVars
<1>2. Linked'
  BY <1>1 DEF EnetInv, Linked
<1>3. CASE inQ = <<>>
  <2>1. UNCHANGED <<inQ, inputQ, answers>>
    BY <1>3 DEF Drains
  <2>2. EnetShape' /\ InOneRow'
    BY <1>1, <2>1, RowsShrink
  <2>3. EnetTypeOK'
    BY <1>1, <2>1 DEF EnetInv, EnetTypeOK
  <2> QED
    BY <1>2, <2>2, <2>3 DEF EnetInv
<1>4. CASE inQ # <<>>
  <2>1. /\ inQ' = Tail(inQ) /\ inputQ' = IF e.kind = "input" THEN Enqueued(e.n) ELSE inputQ
        /\ answers' = IF e.kind = "answer" THEN answers \cup {e.n} ELSE answers
    BY <1>4 DEF Drains
  <2>2. PICK a, b, c \in Nat : Rows(a, b, c)
    BY DEF EnetInv, InOneRow
  <2>3. /\ inQ \in Seq(Message) /\ inputs \in Nat /\ Asked(inQ) /\ answers \subseteq 1..asks
        /\ Len(inputQ) <= InputCapacity /\ inputQ \in Seq(Nat)
    BY DEF EnetInv, EnetShape, EnetTypeOK
  <2>4. /\ Tail(inQ) \in Seq(Message) /\ e \in Message
        /\ e.kind = "input" => e.n \in b + 1..c /\ Reported(Tail(inQ), e.n, c)
        /\ Reported(Tail(inQ), b, c)
    BY <1>4, <2>2, <2>3, ReportedTail DEF Rows
  <2>5. Asked(Tail(inQ)) /\ (e.kind = "answer" => e.n \in 1..asks)
    BY <1>4, <2>3, AskedMoves
  <2> HIDE DEF e
  <2>6. answers' \subseteq 1..asks
    BY <2>1, <2>3, <2>5
  <2>7. PICK d \in Nat : /\ a <= d /\ d <= c /\ Reported(Tail(inQ), d, c)
                         /\ inputQ' \in Seq(Nat) /\ Ascends(inputQ', a, d) /\ Len(inputQ') <= InputCapacity
    <3>1. CASE e.kind = "input"
      <4>1. e.n \in Nat /\ e.n > b /\ e.n <= c /\ Reported(Tail(inQ), e.n, c)
        BY <2>4, <3>1
      <4>2. /\ Enqueued(e.n) \in Seq(Nat) /\ Ascends(Enqueued(e.n), a, e.n)
            /\ Len(Enqueued(e.n)) <= InputCapacity /\ a <= b
        BY <2>2, <4>1, EnqueuedIs DEF Rows
      <4>3. inputQ' = Enqueued(e.n)
        BY <2>1, <3>1
      <4> QED
        BY <4>1, <4>2, <4>3
    <3>2. CASE e.kind # "input"
      <4>1. inputQ' = inputQ
        BY <2>1, <3>2
      <4> QED
        BY <2>2, <2>3, <2>4, <4>1 DEF Rows
    <3> QED
      BY <3>1, <3>2
  <2>8. Rows(a, d, c)'
    BY <1>1, <2>1, <2>2, <2>7 DEF Rows, Ascends, Reported
  <2>9. EnetShape'
    BY <1>1, <2>1, <2>4, <2>5, <2>7 DEF EnetInv, EnetShape, Asked
  <2>10. EnetTypeOK'
    BY <1>1, <2>6, <2>7 DEF EnetInv, EnetTypeOK
  <2> QED
    BY <1>2, <2>8, <2>9, <2>10 DEF EnetInv, InOneRow
<1> QED
  BY <1>3, <1>4

\* The callers of remote_feature.
LEMMA AskGoes == ASSUME EnetInv, Asks PROVE EnetInv'
<1> DEFINE k == asks + 1
<1>1. /\ asks' = k /\ waiter' = k /\ outQ' = Append(outQ, k)
      /\ UNCHANGED <<tvSide, links, heard, inputs, events, connected, hasPeer, handshake, service, plugged,
                     inQ, answers, result, inputQ, handed>>
  BY DEF Asks, OthersRest, tvVars, takenVars
<1>2. asks \in Nat /\ k \in Nat /\ k > asks /\ k \in 1..k /\ outQ \in Seq(Nat) /\ \A i \in DOMAIN outQ : outQ[i] \in 1..asks
  BY DEF EnetInv, EnetShape
<1> HIDE DEF k
<1>3. 1..asks \subseteq 1..k /\ k \in 0..k
  BY <1>2
<1>4. outQ' \in Seq(Nat) /\ \A i \in DOMAIN outQ' : outQ'[i] \in 1..k
  BY <1>1, <1>2, <1>3
<1>5. EnetShape'
  BY <1>1, <1>2, <1>3, <1>4 DEF EnetInv, EnetShape, Asked
<1>6. EnetTypeOK'
  BY <1>1, <1>3 DEF EnetInv, EnetTypeOK
<1>7. InOneRow' /\ Linked'
  BY <1>1 DEF EnetInv, InOneRow, Rows, Ascends, Reported, Linked
<1> QED
  BY <1>5, <1>6, <1>7 DEF EnetInv

LEMMA AskComesBack == ASSUME EnetInv, AskReturns PROVE EnetInv'
<1>1. /\ waiter' = 0 /\ answers' \subseteq answers
      /\ UNCHANGED <<tvSide, links, heard, inputs, events, connected, hasPeer, handshake, service, plugged,
                     inQ, outQ, asks, inputQ, handed>>
  BY DEF AskReturns, TakesOwnAnswer, OthersRest, tvVars, takenVars
<1>2. result \in Seq(Nat \X Nat) /\ (\A i \in DOMAIN result : result[i][1] = result[i][2]) /\ waiter \in Nat
      /\ asks \in Nat
  BY DEF EnetInv, EnetShape
<1>3. result' \in {result, Append(result, <<waiter, waiter>>)}
  BY DEF AskReturns, TakesOwnAnswer
<1>4. result' \in Seq(Nat \X Nat) /\ \A i \in DOMAIN result' : result'[i][1] = result'[i][2]
  <2>1. CASE result' = result
    BY <1>2, <2>1
  <2>2. CASE result' = Append(result, <<waiter, waiter>>)
    BY <1>2, <2>2
  <2> QED
    BY <1>3, <2>1, <2>2
<1>5. EnetShape'
  BY <1>1, <1>2, <1>4 DEF EnetInv, EnetShape, Asked
<1>6. EnetTypeOK'
  BY <1>1 DEF EnetInv, EnetTypeOK
<1>7. InOneRow' /\ Linked'
  BY <1>1 DEF EnetInv, InOneRow, Rows, Ascends, Reported, Linked
<1> QED
  BY <1>5, <1>6, <1>7 DEF EnetInv

\* The worker hands a report on.
LEMMA WorkerHandsOn == ASSUME EnetInv, HandsOn PROVE EnetInv'
<1> DEFINE n == Head(inputQ)
<1>1. /\ inputQ # <<>> /\ inputQ' = Tail(inputQ) /\ handed' = Append(handed, n)
      /\ UNCHANGED <<tvSide, links, heard, inputs, events, connected, hasPeer, handshake, service, plugged,
                     inQ, outQ, waiter, asks, answers, result>>
  BY DEF HandsOn, OthersRest, tvVars, waitVars
<1>2. PICK a, b, c \in Nat : Rows(a, b, c)
  BY DEF EnetInv, InOneRow
<1>3. inputQ \in Seq(Nat) /\ handed \in Seq(Nat) /\ Len(inputQ) <= InputCapacity /\ InputCapacity \in Nat
  BY EnetAssumption DEF EnetAssumption, EnetInv, EnetShape, EnetTypeOK
<1>4. /\ Tail(inputQ) \in Seq(Nat) /\ Ascends(Tail(inputQ), n, b) /\ n \in a + 1..b
      /\ Len(Tail(inputQ)) = Len(inputQ) - 1
  BY <1>1, <1>2, <1>3, AscendsTail DEF Rows
<1> HIDE DEF n
<1>5. n \in Nat /\ n > a /\ n <= b /\ 0 \in Nat /\ 0 <= a
  BY <1>4
<1>6. Append(handed, n) \in Seq(Nat) /\ Ascends(Append(handed, n), 0, n)
  BY <1>2, <1>3, <1>5, AscendsAppend DEF Rows
<1>7. InOneRow'
  <2>1. PICK k \in Nat : k = n
    BY <1>5
  <2>2. Rows(k, b, c)'
    BY <1>1, <1>2, <1>4, <1>5, <1>6, <2>1 DEF Rows, Ascends, Reported
  <2> QED
    BY <2>2 DEF InOneRow
<1>8. EnetShape'
  BY <1>1, <1>4, <1>6 DEF EnetInv, EnetShape, Asked
<1>9. Len(inputQ') <= InputCapacity
  BY <1>1, <1>3, <1>4
<1>10. EnetTypeOK'
  BY <1>1, <1>9 DEF EnetInv, EnetTypeOK
<1>11. Linked'
  BY <1>1 DEF EnetInv, Linked
<1> QED
  BY <1>7, <1>8, <1>10, <1>11 DEF EnetInv

LEMMA EnetStays == ASSUME EnetInv, UNCHANGED enetVars PROVE EnetInv'
<1>1. /\ UNCHANGED <<asks, inputs, waiter, events, inQ, outQ, inputQ, handed, result>>
      /\ EnetTypeOK' /\ Linked'
  BY DEF EnetInv, EnetTypeOK, Linked, enetVars
<1>2. EnetShape'
  BY <1>1 DEF EnetInv, EnetShape, Asked
<1>3. InOneRow'
  BY <1>1 DEF EnetInv, InOneRow, Rows, Ascends, Reported
<1> QED
  BY <1>1, <1>2, <1>3 DEF EnetInv

LEMMA EnetKeeps == ASSUME EnetInv, [EnetNext]_enetVars PROVE EnetInv'
<1>1. CASE TvConnects \/ TvSaysHello \/ TvReports \/ TvReplies \/ TvGoes
  BY <1>1, TvSends
<1>2. CASE Listens \/ WaitsForHello \/ ServesEvents
  BY <1>2, ServiceHears
<1>3. CASE Accepts \/ EnetHelloFails \/ Configures \/ Plugs \/ LinkLost
  BY <1>3, LinkTurns
<1> QED
  BY <1>1, <1>2, <1>3, FlushesOut, ServiceDrains, AskGoes, AskComesBack, WorkerHandsOn, EnetStays, Zenon
     DEF EnetNext, Service

LEMMA EnetMeans == ASSUME EnetInv PROVE EnetTypeOK /\ LinkPlugs
  BY DEF EnetInv, EnetShape, Linked, InOneRow, Rows, Ascends, LinkPlugs
----------------------------------------------------------------------------
(* ConfigStore: the configs agree with their files.                         *)

CfgFile == [claims : SUBSET CfgSerial, ver : -1..MaxEdits]
CfgName == Config \cup {Shared}

FilesShape ==
    /\ file \in [Config -> CfgFile] /\ \A c \in Config : ~There(c) => file[c].claims = {}
    /\ table \in [Config -> (SUBSET CfgSerial) \cup {{"none"}}]
    /\ section \in [CfgName -> -1..MaxEdits]
    /\ edits \in 0..MaxEdits /\ shared \in 0..edits /\ stamp \in 0..shared

WorkShape ==
    /\ DOMAIN work = {"at", "to", "put", "more", "from", "link", "new"}
    /\ work.at \in {"idle", "filling", "written", "relink"}
    /\ work.to \in CfgName /\ work.from \in CfgName /\ work.link \in {Shared, work.to}
    /\ work.put \in CfgFile /\ work.more \in Nat /\ work.new \subseteq CfgSession

LinksShape ==
    /\ told \in BOOLEAN /\ pending \in BOOLEAN
    /\ watch \in {"waits", "looks", "applies", "reloads"} /\ todo \subseteq CfgSession
    /\ link \in [CfgSession -> CfgName] /\ taken \in [CfgSession -> CfgName]
    /\ phase \in [CfgSession -> {"none", "linking", "ready", "reading", "settled"}]
    /\ \A s \in CfgSession : phase[s] = "none" => link[s] = Shared

\* What a request has under way: the file it fills is one it may fill, and it is there once
\* it was filled.
Underway ==
    work.at # "idle" =>
      /\ work.to \in Config => work.put.ver >= 0
      /\ work.put.ver + work.more <= MaxEdits
      /\ work.at = "filling" \/ work.more > 0 => work.to \in Config
      /\ work.at # "filling" /\ work.to \in Config => There(work.to)
      /\ \A s \in work.new : phase[s] # "none"
      /\ \A c \in Config \ {work.to} : work.put.claims \cap file[c].claims = {}

Disjoint == \A c, d \in Config : c # d => file[c].claims \cap file[d].claims = {}

\* A config that someone may still read: it is there, or it is being written, or its readers
\* are still to be pointed elsewhere.
Alive(c) == \/ There(c)
            \/ work.at = "filling" /\ c = work.to
            \/ work.at # "idle" /\ work.from # Shared /\ c = work.from
Agrees == work.at \in {"idle", "relink"} =>
              \A c \in Config : table[c] = LoadOne(c) /\ section[c] = file[c].ver

ConfigInv ==
    /\ FilesShape /\ WorkShape /\ LinksShape /\ Underway /\ Disjoint /\ Agrees
    /\ \A c \in Loaded : Alive(c)
    /\ \A s \in CfgSession : link[s] # Shared => Alive(link[s])

LEMMA LoadOneIs ==
  ASSUME FilesShape, NEW c \in Config
  PROVE  /\ LoadOne(c) \in (SUBSET CfgSerial) \cup {{"none"}}
         /\ LoadOne(c) # {"none"} <=> There(c)
         /\ There(c) => LoadOne(c) = file[c].claims
         /\ file[c] \in CfgFile /\ file[c].claims \in SUBSET CfgSerial /\ file[c].ver \in -1..MaxEdits
<1>1. file[c] \in CfgFile
  BY DEF FilesShape
<1>2. file[c].claims \in SUBSET CfgSerial /\ file[c].ver \in -1..MaxEdits
  BY <1>1 DEF CfgFile
<1>3. file[c].claims # {"none"}
  BY <1>2, CfgAssumption DEF CfgAssumption
<1>4. CASE There(c)
  BY <1>1, <1>2, <1>3, <1>4 DEF LoadOne
<1>5. CASE ~There(c)
  BY <1>1, <1>2, <1>5 DEF LoadOne
<1> QED
  BY <1>4, <1>5

\* Between requests, what is loaded is what is there.
LEMMA LoadedIs ==
  ASSUME ConfigInv, work.at \in {"idle", "relink"}, NEW c \in Config
  PROVE  /\ c \in Loaded <=> There(c)
         /\ There(c) => table[c] = file[c].claims
  BY LoadOneIs DEF ConfigInv, Agrees, Loaded

LEMMA ConfigBegins == ASSUME ConfigInit PROVE ConfigInv
<1>1. MaxEdits \in Nat /\ Shared \notin Config
  BY CfgAssumption DEF CfgAssumption
<1>2. /\ file = [c \in Config |-> NoFile] /\ shared = 0 /\ table = [c \in Config |-> {"none"}]
      /\ section = [c \in CfgName |-> -1] /\ stamp = 0 /\ watch = "waits"
      /\ work = NoWork /\ todo = {} /\ link = [s \in CfgSession |-> Shared]
      /\ phase = [s \in CfgSession |-> "none"] /\ taken = link /\ edits = 0
  BY DEF ConfigInit, CfgName
<1>3. told \in BOOLEAN /\ pending \in BOOLEAN
  BY Zenon DEF ConfigInit
<1>4. NoFile \in CfgFile /\ NoFile.claims = {} /\ NoFile.ver = -1
  BY <1>1 DEF CfgFile, NoFile
<1>5. FilesShape
  <2>1. file \in [Config -> CfgFile] /\ \A c \in Config : file[c].claims = {}
    BY <1>2, <1>4
  <2>2. table \in [Config -> (SUBSET CfgSerial) \cup {{"none"}}]
    BY <1>2
  <2>3. section \in [CfgName -> -1..MaxEdits]
    BY <1>1, <1>2
  <2>4. edits \in 0..MaxEdits /\ shared \in 0..edits /\ stamp \in 0..shared
    BY <1>1, <1>2
  <2> QED
    BY <2>1, <2>2, <2>3, <2>4 DEF FilesShape
<1>6. WorkShape /\ work.at = "idle"
  BY <1>2, <1>4 DEF WorkShape, NoWork, CfgName
<1>7. LinksShape
  BY <1>2, <1>3 DEF LinksShape, CfgName
<1>8. Disjoint
  BY <1>2, <1>4 DEF Disjoint
<1>9. Agrees
  BY <1>1, <1>2, <1>4 DEF Agrees, LoadOne, There, CfgName
<1>10. Loaded = {} /\ \A s \in CfgSession : link[s] = Shared
  BY <1>2 DEF Loaded
<1> QED
  BY <1>5, <1>6, <1>7, <1>8, <1>9, <1>10 DEF ConfigInv, Underway

\* A request begins to write a file.
LEMMA WriteBegins ==
  ASSUME ConfigInv, NEW c \in Config, NEW put \in CfgFile, put.ver >= 0, NEW more \in Nat,
         put.ver + more <= MaxEdits, NEW new \in SUBSET CfgSession,
         \A s \in new : phase[s] # "none",
         \A d \in Config \ {c} : put.claims \cap file[d].claims = {},
         Writes(file, c, put, more, new)
  PROVE  ConfigInv'
<1>1. /\ work.at = "idle" /\ edits + (1 + more) <= MaxEdits /\ edits' = edits + (1 + more)
      /\ file' = [file EXCEPT ![c] = NoFile]
      /\ work' = [NoWork EXCEPT !.at = "filling", !.to = c, !.put = put, !.more = more, !.new = new]
      /\ UNCHANGED <<shared, stamp, told, table, section, watch, pending, todo, link, phase, taken>>
  BY DEF Writes, Idle, EditsBy, linkVars
<1>2. /\ DOMAIN work' = {"at", "to", "put", "more", "from", "link", "new"} /\ work'.at = "filling"
      /\ work'.to = c /\ work'.put = put /\ work'.more = more /\ work'.new = new
      /\ work'.from = Shared /\ work'.link = Shared
  BY <1>1 DEF NoWork
<1>3. NoFile \in CfgFile /\ NoFile.claims = {} /\ NoFile.ver = -1
  BY CfgAssumption DEF CfgFile, NoFile, CfgAssumption
<1>4. /\ file' \in [Config -> CfgFile] /\ file'[c] = NoFile
      /\ \A d \in Config \ {c} : file'[d] = file[d]
  BY <1>1, <1>3 DEF ConfigInv, FilesShape
<1>5. edits' \in 0..MaxEdits /\ shared' \in 0..edits' /\ stamp' \in 0..shared'
  BY <1>1, CfgAssumption DEF ConfigInv, FilesShape, CfgAssumption
<1>6. FilesShape'
  BY <1>1, <1>3, <1>4, <1>5 DEF ConfigInv, FilesShape, There
<1>7. WorkShape' /\ LinksShape'
  BY <1>1, <1>2 DEF ConfigInv, WorkShape, LinksShape, CfgName
<1>8. Underway'
  BY <1>1, <1>2, <1>4 DEF Underway
<1>9. Disjoint' /\ Agrees'
  BY <1>2, <1>3, <1>4 DEF ConfigInv, Disjoint, Agrees
<1>10. \A d \in Config : There(d) => Alive(d)'
  BY <1>2, <1>4 DEF Alive, There
<1>11. \A d \in Loaded' : Alive(d)'
  BY <1>1, <1>10, LoadedIs DEF Loaded
<1>12. (\A s \in CfgSession : link[s] # Shared => Alive(link[s]))'
  <2> SUFFICES ASSUME NEW s \in CfgSession, link'[s] # Shared
               PROVE  Alive(link[s])'
    OBVIOUS
  <2>1. link'[s] = link[s] /\ link[s] \in Config /\ There(link[s])
    BY <1>1 DEF ConfigInv, LinksShape, CfgName, Alive
  <2> QED
    BY <1>2, <1>4, <2>1 DEF Alive, There
<1> QED
  BY <1>6, <1>7, <1>8, <1>9, <1>11, <1>12 DEF ConfigInv
LEMMA RequestWrites ==
  ASSUME ConfigInv, NEW c \in Config,
         \/ Create(c) \/ SetSetting(c)
         \/ \E n \in CfgSerial : AddClaim(c, n) \/ RemoveClaim(c, n)
         \/ \E d \in Config : Copy(d, c)
  PROVE  ConfigInv'
<1>1. /\ edits \in 0..MaxEdits /\ MaxEdits \in Nat /\ file \in [Config -> CfgFile]
      /\ \A d \in Config : file[d] \in CfgFile /\ file[d].claims \in SUBSET CfgSerial /\ file[d].ver \in -1..MaxEdits
      /\ \A d \in Config : ~There(d) => file[d].claims = {}
  BY LoadOneIs, CfgAssumption DEF ConfigInv, FilesShape, CfgAssumption
<1>2. work.at = "idle"
  BY DEF Create, SetSetting, AddClaim, RemoveClaim, Copy, Writes, Idle
<1>3. \A d \in Config \ {c} : file[c].claims \cap file[d].claims = {}
  BY DEF ConfigInv, Disjoint
<1>4. CASE Create(c)
  <2> DEFINE put == [claims |-> {}, ver |-> edits]
  <2>1. PICK n \in Preset, new \in {{}} \cup {{s} : s \in {t \in CfgSession : phase[t] # "none"}} :
          Writes(file, c, put, n, new)
    BY <1>4 DEF Create
  <2>2. edits + (1 + n) <= MaxEdits /\ n \in Nat
    BY <2>1 DEF Writes, EditsBy, Preset
  <2>3. put \in CfgFile /\ put.ver >= 0 /\ put.ver + n <= MaxEdits /\ put.claims = {}
    BY <1>1, <2>2 DEF CfgFile
  <2>4. new \in SUBSET CfgSession /\ \A s \in new : phase[s] # "none"
    OBVIOUS
  <2> HIDE DEF put
  <2> QED
    BY <2>1, <2>2, <2>3, <2>4, WriteBegins
<1>5. CASE SetSetting(c)
  <2> DEFINE put == [file[c] EXCEPT !.ver = edits]
  <2>1. PICK n \in 0..1 : Writes(file, c, put, n, {})
    BY <1>5 DEF SetSetting
  <2>2. edits + (1 + n) <= MaxEdits /\ n \in Nat
    BY <2>1 DEF Writes, EditsBy
  <2>3. put \in CfgFile /\ put.ver >= 0 /\ put.ver + n <= MaxEdits /\ put.claims = file[c].claims
    BY <1>1, <2>2 DEF CfgFile
  <2> HIDE DEF put
  <2> QED
    BY <1>3, <2>1, <2>2, <2>3, WriteBegins
<1>6. ASSUME NEW n \in CfgSerial, AddClaim(c, n)
      PROVE  ConfigInv'
  <2> DEFINE put == [claims |-> table[c] \cup {n}, ver |-> file[c].ver]
  <2>1. c \in Loaded /\ ClaimedBy(n, c) = {} /\ Writes(file, c, put, 0, {})
    BY <1>6 DEF AddClaim
  <2>2. There(c) /\ table[c] = file[c].claims
    BY <1>2, <2>1, LoadedIs
  <2>3. /\ put \in CfgFile /\ put.ver >= 0 /\ put.ver + 0 <= MaxEdits
        /\ put.claims = file[c].claims \cup {n}
    BY <1>1, <2>2 DEF CfgFile, There
  <2>4. ASSUME NEW d \in Config \ {c}
        PROVE  n \notin file[d].claims
    <3>1. CASE There(d)
      <4>1. d \in Loaded /\ table[d] = file[d].claims
        BY <1>2, <3>1, LoadedIs
      <4> QED
        BY <2>1, <4>1 DEF ClaimedBy
    <3>2. CASE ~There(d)
      BY <1>1, <3>2
    <3> QED
      BY <3>1, <3>2
  <2>5. \A d \in Config \ {c} : put.claims \cap file[d].claims = {}
    BY <1>3, <2>3, <2>4
  <2> HIDE DEF put
  <2> QED
    BY <2>1, <2>3, <2>5, WriteBegins
<1>7. ASSUME NEW n \in CfgSerial, RemoveClaim(c, n)
      PROVE  ConfigInv'
  <2> DEFINE put == [claims |-> table[c] \ {n}, ver |-> file[c].ver]
  <2>1. c \in Loaded /\ Writes(file, c, put, 0, {})
    BY <1>7 DEF RemoveClaim
  <2>2. There(c) /\ table[c] = file[c].claims
    BY <1>2, <2>1, LoadedIs
  <2>3. /\ put \in CfgFile /\ put.ver >= 0 /\ put.ver + 0 <= MaxEdits
        /\ put.claims \subseteq file[c].claims
    BY <1>1, <2>2 DEF CfgFile, There
  <2> HIDE DEF put
  <2> QED
    BY <1>3, <2>1, <2>3, WriteBegins
<1>8. ASSUME NEW d \in Config, Copy(d, c)
      PROVE  ConfigInv'
  <2> DEFINE put == [file[d] EXCEPT !.claims = {}]
  <2>1. d \in Loaded /\ Writes(file, c, put, 0, {})
    BY <1>8 DEF Copy
  <2>2. There(d)
    BY <1>2, <2>1, LoadedIs
  <2>3. put \in CfgFile /\ put.ver >= 0 /\ put.ver + 0 <= MaxEdits /\ put.claims = {}
    BY <1>1, <2>2 DEF CfgFile, There
  <2> HIDE DEF put
  <2> QED
    BY <2>1, <2>3, WriteBegins
<1> QED
  BY <1>4, <1>5, <1>6, <1>7, <1>8

\* A file is moved away: to another name, which it is written under, or to the archive.
LEMMA ConfigMoves ==
  ASSUME ConfigInv, NEW c \in Config,
         Archive(c) \/ \E d \in Config : RenameConfig(c, d)
  PROVE  ConfigInv'
<1>1. /\ edits \in 0..MaxEdits /\ MaxEdits \in Nat /\ file \in [Config -> CfgFile] /\ Shared \notin Config
      /\ \A d \in Config : file[d] \in CfgFile /\ file[d].claims \in SUBSET CfgSerial /\ file[d].ver \in -1..MaxEdits
  BY LoadOneIs, CfgAssumption DEF ConfigInv, FilesShape, CfgAssumption
<1>2. /\ work.at = "idle" /\ edits + 1 <= MaxEdits /\ edits' = edits + 1 /\ c \in Loaded
      /\ UNCHANGED <<shared, stamp, told, table, section, watch, pending, todo, link, phase, taken>>
  BY DEF Archive, RenameConfig, Idle, Edits, EditsBy, linkVars
<1>3. NoFile \in CfgFile /\ NoFile.claims = {} /\ NoFile.ver = -1
  BY <1>1 DEF CfgFile, NoFile
<1>4. There(c) /\ c # Shared
  BY <1>1, <1>2, LoadedIs
<1>5. PICK d \in CfgName, put \in CfgFile, at \in {"filling", "written"} :
        /\ DOMAIN work' = {"at", "to", "put", "more", "from", "link", "new"} /\ work'.at = at
        /\ work'.to = d /\ work'.put = put /\ work'.more = 0 /\ work'.new = {}
        /\ work'.from = c /\ work'.link = d
        /\ d \in Config => at = "filling" /\ d # c /\ ~There(d) /\ put = file[c]
        /\ d = Shared => at = "written" /\ put = NoFile
        /\ file' = [e \in Config |-> IF e \in {c, d} THEN NoFile ELSE file[e]]
  <2>1. CASE Archive(c)
    <3>1. /\ DOMAIN work' = {"at", "to", "put", "more", "from", "link", "new"} /\ work'.at = "written"
          /\ work'.to = Shared /\ work'.put = NoFile /\ work'.more = 0 /\ work'.new = {}
          /\ work'.from = c /\ work'.link = Shared
      BY <2>1 DEF Archive, NoWork
    <3>2. file' = [e \in Config |-> IF e \in {c, Shared} THEN NoFile ELSE file[e]]
      BY <1>1, <2>1 DEF Archive
    <3> QED
      BY <1>1, <1>3, <3>1, <3>2 DEF CfgName
  <2>2. ASSUME NEW d \in Config, RenameConfig(c, d)
        PROVE  /\ DOMAIN work' = {"at", "to", "put", "more", "from", "link", "new"}
               /\ work'.at = "filling" /\ work'.to = d /\ work'.put = file[c] /\ work'.more = 0
               /\ work'.new = {} /\ work'.from = c /\ work'.link = d
               /\ d # c /\ ~There(d) /\ d # Shared
               /\ file' = [e \in Config |-> IF e \in {c, d} THEN NoFile ELSE file[e]]
    <3>1. d \notin Loaded
      BY <2>2 DEF RenameConfig
    <3>2. d # c /\ ~There(d) /\ d # Shared
      BY <1>1, <1>2, <3>1, LoadedIs
    <3>3. /\ DOMAIN work' = {"at", "to", "put", "more", "from", "link", "new"}
          /\ work'.at = "filling" /\ work'.to = d /\ work'.put = file[c] /\ work'.more = 0
          /\ work'.new = {} /\ work'.from = c /\ work'.link = d
      BY <2>2 DEF RenameConfig, NoWork
    <3>4. file' = [e \in Config |-> IF e \in {c, d} THEN NoFile ELSE file[e]]
      BY <1>1, <2>2 DEF RenameConfig
    <3> QED
      BY <3>2, <3>3, <3>4
  <2>3. CASE \E d \in Config : RenameConfig(c, d)
    BY <1>1, <2>2, <2>3 DEF CfgName
  <2> QED
    BY <2>1, <2>3
<1>6. /\ file' \in [Config -> CfgFile] /\ file'[c] = NoFile
      /\ \A e \in Config : file'[e] = IF e \in {c, d} THEN NoFile ELSE file[e]
  BY <1>3, <1>5, <1>1
<1>7. edits' \in 0..MaxEdits /\ shared' \in 0..edits' /\ stamp' \in 0..shared'
  BY <1>1, <1>2 DEF ConfigInv, FilesShape
<1>8. FilesShape'
  BY <1>2, <1>3, <1>6, <1>7 DEF ConfigInv, FilesShape, There
<1>9. WorkShape' /\ LinksShape'
  BY <1>2, <1>5 DEF ConfigInv, WorkShape, LinksShape, CfgName
<1>10. Underway'
  <2>1. d \in Config => put.ver >= 0 /\ put.ver + 0 <= MaxEdits
    BY <1>1, <1>4, <1>5 DEF There
  <2>2. d = Shared => put.ver + 0 <= MaxEdits /\ put.claims = {}
    BY <1>1, <1>3, <1>5
  <2>3. \A e \in Config \ {d} : put.claims \cap file'[e].claims = {}
    BY <1>1, <1>3, <1>5, <1>6, <2>2 DEF CfgName, ConfigInv, Disjoint
  <2> QED
    BY <1>1, <1>5, <2>1, <2>2, <2>3 DEF Underway, CfgName
<1>11. Disjoint' /\ Agrees'
  BY <1>3, <1>5, <1>6 DEF ConfigInv, Disjoint, Agrees
<1>12. \A e \in Config : There(e) => Alive(e)'
  BY <1>4, <1>5, <1>6 DEF Alive, There, CfgName
<1>13. \A e \in Loaded' : Alive(e)'
  BY <1>2, <1>12, LoadedIs DEF Loaded
<1>14. (\A s \in CfgSession : link[s] # Shared => Alive(link[s]))'
  <2> SUFFICES ASSUME NEW s \in CfgSession, link'[s] # Shared
               PROVE  Alive(link[s])'
    OBVIOUS
  <2>1. link'[s] = link[s] /\ link[s] \in Config /\ There(link[s])
    BY <1>2 DEF ConfigInv, LinksShape, CfgName, Alive
  <2> QED
    BY <1>4, <1>5, <1>6, <2>1 DEF Alive, There, CfgName
<1> QED
  BY <1>8, <1>9, <1>10, <1>11, <1>13, <1>14 DEF ConfigInv
LEMMA FileFills == ASSUME ConfigInv, Fills PROVE ConfigInv'
<1>1. /\ work.at = "filling" /\ file' = [file EXCEPT ![work.to] = work.put]
      /\ work' = [work EXCEPT !.at = "written"]
      /\ UNCHANGED <<shared, stamp, told, edits, table, section, watch, pending, todo, link, phase, taken>>
  BY DEF Fills, linkVars
<1> DEFINE c == work.to
           put == work.put
<1>2. c \in Config /\ put \in CfgFile /\ put.ver >= 0 /\ file \in [Config -> CfgFile]
  BY <1>1 DEF ConfigInv, WorkShape, Underway, FilesShape
<1>3. /\ DOMAIN work' = {"at", "to", "put", "more", "from", "link", "new"} /\ work'.at = "written"
      /\ work'.to = c /\ work'.put = put /\ work'.more = work.more /\ work'.new = work.new
      /\ work'.from = work.from /\ work'.link = work.link
  BY <1>1 DEF ConfigInv, WorkShape
<1> HIDE DEF c, put
<1>4. /\ file' \in [Config -> CfgFile] /\ file'[c] = put
      /\ \A d \in Config \ {c} : file'[d] = file[d]
  BY <1>1, <1>2 DEF c, put
<1>5. \A d \in Config \ {c} : put.claims \cap file[d].claims = {}
  BY <1>1 DEF ConfigInv, Underway, c, put
<1>6. FilesShape'
  BY <1>1, <1>2, <1>4 DEF ConfigInv, FilesShape, There
<1>7. WorkShape' /\ LinksShape'
  BY <1>1, <1>3 DEF ConfigInv, WorkShape, LinksShape, c, put
<1>8. Underway'
  BY <1>1, <1>2, <1>3, <1>4 DEF ConfigInv, Underway, There, c, put
<1>9. Disjoint' /\ Agrees'
  BY <1>3, <1>4, <1>5 DEF ConfigInv, Disjoint, Agrees
<1>10. \A d \in Config : Alive(d) => Alive(d)'
  BY <1>1, <1>2, <1>3, <1>4 DEF Alive, There, c
<1>11. (\A d \in Loaded : Alive(d))'
  BY <1>1, <1>10 DEF ConfigInv, Loaded
<1>12. (\A s \in CfgSession : link[s] # Shared => Alive(link[s]))'
  <2> SUFFICES ASSUME NEW s \in CfgSession, link'[s] # Shared
               PROVE  Alive(link[s])'
    OBVIOUS
  <2>1. link'[s] = link[s] /\ link[s] \in Config /\ Alive(link[s])
    BY <1>1 DEF ConfigInv, LinksShape, CfgName
  <2> QED
    BY <1>1, <1>2, <1>3, <1>4, <2>1 DEF Alive, There, c
<1> QED
  BY <1>6, <1>7, <1>8, <1>9, <1>11, <1>12 DEF ConfigInv

\* Everything is read again.
LEMMA RereadIs ==
  ASSUME FilesShape, table' = [c \in Config |-> LoadOne(c)], file' = file
  PROVE  /\ table' \in [Config -> (SUBSET CfgSerial) \cup {{"none"}}]
         /\ \A c \in Config : table'[c] = LoadOne(c) /\ LoadOne(c)' = LoadOne(c)
         /\ \A c \in Loaded' : c \in Config /\ There(c)
<1>1. \A c \in Config : table'[c] = LoadOne(c) /\ LoadOne(c)' = LoadOne(c)
  BY DEF LoadOne, There
<1>2. table' \in [Config -> (SUBSET CfgSerial) \cup {{"none"}}]
  BY LoadOneIs
<1>3. \A c \in Loaded' : c \in Config /\ There(c)
  BY <1>1, LoadOneIs DEF Loaded
<1> QED
  BY <1>1, <1>2, <1>3

LEMMA RereadKeeps ==
  ASSUME ConfigInv, table' = [c \in Config |-> LoadOne(c)],
         section' \in [CfgName -> -1..MaxEdits], \A c \in Config : section'[c] = file[c].ver,
         UNCHANGED <<file, work, link, edits, shared, stamp, told, todo, taken>>,
         watch' \in {"waits", "looks", "applies", "reloads"}, pending' \in BOOLEAN,
         phase' \in [CfgSession -> {"none", "linking", "ready", "reading", "settled"}],
         \A s \in CfgSession : phase'[s] = "none" => phase[s] = "none"
  PROVE  ConfigInv'
<1>1. FilesShape
  BY DEF ConfigInv
<1>2. /\ table' \in [Config -> (SUBSET CfgSerial) \cup {{"none"}}]
      /\ \A c \in Config : table'[c] = LoadOne(c) /\ LoadOne(c)' = LoadOne(c)
      /\ \A c \in Loaded' : c \in Config /\ There(c)
  BY <1>1, RereadIs
<1>3. FilesShape'
  BY <1>1, <1>2 DEF FilesShape, There
<1>4. WorkShape' /\ LinksShape'
  BY DEF ConfigInv, WorkShape, LinksShape
<1>5. Underway' /\ Disjoint' /\ Agrees'
  BY <1>2 DEF ConfigInv, WorkShape, Underway, Disjoint, Agrees, There
<1>6. (\A c \in Loaded : Alive(c))'
  BY <1>2 DEF Alive, There
<1>7. (\A s \in CfgSession : link[s] # Shared => Alive(link[s]))'
  BY DEF ConfigInv, Alive, There
<1> QED
  BY <1>3, <1>4, <1>5, <1>6, <1>7 DEF ConfigInv

LEMMA Rereads ==
  ASSUME ConfigInv, Lists \/ ApplyChange \/ \E s \in CfgSession : Starts(s)
  PROVE  ConfigInv'
<1>1. /\ table' = [c \in Config |-> LoadOne(c)]
      /\ UNCHANGED <<file, work, link, edits, shared, stamp, told, todo, taken>>
  BY DEF Lists, ApplyChange, Starts, ReloadAll, diskVars, linkVars
<1>2. /\ Shared \notin Config /\ MaxEdits \in Nat /\ section \in [CfgName -> -1..MaxEdits]
      /\ edits \in 0..MaxEdits /\ shared \in 0..edits
      /\ \A c \in Config : file[c].ver \in -1..MaxEdits
  BY LoadOneIs, CfgAssumption DEF ConfigInv, FilesShape, CfgAssumption
<1>3. PICK v \in -1..MaxEdits :
        section' = [x \in CfgName |-> IF x = Shared THEN v ELSE file[x].ver]
  <2>1. shared \in -1..MaxEdits /\ section[Shared] \in -1..MaxEdits /\ -1 \in -1..MaxEdits
    BY <1>2 DEF CfgName
  <2>2. CASE Lists
    <3>1. section' = [x \in CfgName |-> IF x = Shared THEN shared ELSE file[x].ver]
      BY <2>2 DEF Lists, CfgName
    <3> QED
      BY <2>1, <3>1
  <2>3. CASE ApplyChange
    <3>1. section' = [x \in CfgName |-> IF x = Shared THEN section[Shared] ELSE file[x].ver]
      BY <2>3 DEF ApplyChange, ReloadAll, CfgName
    <3> QED
      BY <2>1, <3>1
  <2>4. CASE \E s \in CfgSession : Starts(s)
    <3>1. section' = [x \in CfgName |-> IF x = Shared THEN -1 ELSE file[x].ver]
      BY <2>4 DEF Starts, CfgName
    <3> QED
      BY <2>1, <3>1
  <2> QED
    BY <2>2, <2>3, <2>4
<1>4. section' \in [CfgName -> -1..MaxEdits] /\ \A c \in Config : section'[c] = file[c].ver
  BY <1>2, <1>3 DEF CfgName
<1>5. watch' \in {"waits", "looks", "applies", "reloads"}
  BY DEF Lists, ApplyChange, Starts, ConfigInv, LinksShape
<1>6. pending' \in BOOLEAN
  <2>1. pending \in BOOLEAN
    BY DEF ConfigInv, LinksShape
  <2>2. pending' \in {pending, TRUE}
    BY DEF Lists, ApplyChange, Starts
  <2> QED
    BY <2>1, <2>2, Zenon
<1>7. /\ phase' \in [CfgSession -> {"none", "linking", "ready", "reading", "settled"}]
      /\ \A s \in CfgSession : phase'[s] = "none" => phase[s] = "none"
  BY DEF Lists, ApplyChange, Starts, linkVars, ConfigInv, LinksShape
<1> QED
  BY <1>1, <1>4, <1>5, <1>6, <1>7, RereadKeeps

\* The end of a verb.
LEMMA VerbEnds == ASSUME ConfigInv, Reloads PROVE ConfigInv'
<1>1. /\ work.at = "written" /\ table' = [c \in Config |-> LoadOne(c)]
      /\ section' = [x \in CfgName |-> IF x = Shared THEN section[x] ELSE file[x].ver]
      /\ UNCHANGED <<shared, stamp, told, edits, watch, todo, link, phase, taken>>
  BY DEF Reloads, ReloadAll, linkVars, CfgName
<1>2. pending' \in BOOLEAN
  BY Zenon DEF Reloads
<1>3. /\ Shared \notin Config /\ MaxEdits \in Nat /\ section \in [CfgName -> -1..MaxEdits]
      /\ file \in [Config -> CfgFile] /\ work.more \in Nat
      /\ \A c \in Config : file[c] \in CfgFile /\ file[c].ver \in -1..MaxEdits
      /\ FilesShape /\ WorkShape
  BY LoadOneIs, CfgAssumption DEF ConfigInv, FilesShape, WorkShape, CfgAssumption
<1>4. /\ section' \in [CfgName -> -1..MaxEdits] /\ \A c \in Config : section'[c] = file[c].ver
  BY <1>1, <1>3 DEF CfgName
<1>5. LinksShape'
  BY <1>1, <1>2 DEF ConfigInv, LinksShape
<1>6. \A s \in CfgSession : link[s] # Shared =>
        link[s] \in Config /\ (There(link[s]) \/ (work.from # Shared /\ link[s] = work.from))
  BY <1>1 DEF ConfigInv, LinksShape, CfgName, Alive
<1>7. CASE work.more > 0
  <2> DEFINE c == work.to
             put == [work.put EXCEPT !.ver = @ + 1]
  <2>1. /\ c \in Config /\ work.put \in CfgFile /\ work.put.ver >= 0 /\ work.put.ver \in Int
        /\ work.put.ver + work.more <= MaxEdits /\ work.put.claims \in SUBSET CfgSerial
    <3>1. c \in Config /\ work.put \in CfgFile /\ work.put.ver >= 0
          /\ work.put.ver + work.more <= MaxEdits
      BY <1>1, <1>7 DEF ConfigInv, WorkShape, Underway
    <3> QED
      BY <3>1 DEF CfgFile
  <2>2. /\ put \in CfgFile /\ put.ver = work.put.ver + 1 /\ put.claims = work.put.claims
    BY <1>3, <1>7, <2>1 DEF CfgFile
  <2>3. /\ file' = [file EXCEPT ![c] = NoFile]
        /\ work' = [work EXCEPT !.at = "filling", !.more = @ - 1, !.put.ver = @ + 1]
    BY <1>7 DEF Reloads
  <2>4. /\ DOMAIN work' = {"at", "to", "put", "more", "from", "link", "new"} /\ work'.at = "filling"
        /\ work'.to = c /\ work'.put = put /\ work'.more = work.more - 1 /\ work'.new = work.new
        /\ work'.from = work.from /\ work'.link = work.link
    BY <1>3, <2>3 DEF WorkShape
  <2> HIDE DEF c, put
  <2>5. NoFile \in CfgFile /\ NoFile.claims = {} /\ NoFile.ver = -1
    BY <1>3 DEF CfgFile, NoFile
  <2>6. /\ file' \in [Config -> CfgFile] /\ file'[c] = NoFile
        /\ \A d \in Config \ {c} : file'[d] = file[d]
    BY <1>3, <2>1, <2>3, <2>5
  <2>7. table' \in [Config -> (SUBSET CfgSerial) \cup {{"none"}}]
    BY <1>1, <1>3, LoadOneIs
  <2>8. FilesShape'
    BY <1>1, <1>4, <2>5, <2>6, <2>7 DEF ConfigInv, FilesShape, There
  <2>9. work.more - 1 \in Nat
    BY <1>3, <1>7
  <2>10. WorkShape'
    BY <1>3, <2>2, <2>4, <2>9 DEF WorkShape, c
  <2>11. Underway'
    BY <1>1, <1>3, <1>7, <2>1, <2>2, <2>4, <2>6, <2>9 DEF ConfigInv, Underway, c
  <2>12. Disjoint' /\ Agrees'
    BY <2>4, <2>5, <2>6 DEF ConfigInv, Disjoint, Agrees
  <2>13. (\A d \in Loaded : Alive(d))'
    <3> SUFFICES ASSUME NEW d \in Config, table'[d] # {"none"}
                 PROVE  Alive(d)'
      BY DEF Loaded
    <3>1. There(d)
      BY <1>1, <1>3, LoadOneIs
    <3> QED
      BY <2>4, <2>6, <3>1 DEF Alive, There
  <2>14. (\A s \in CfgSession : link[s] # Shared => Alive(link[s]))'
    BY <1>1, <1>6, <2>4, <2>6 DEF Alive, There
  <2> QED
    BY <1>5, <2>8, <2>10, <2>11, <2>12, <2>13, <2>14 DEF ConfigInv
<1>8. CASE work.more = 0
  <2>1. /\ file' = file
        /\ \/ (work.from # Shared \/ work.new # {}) /\ work' = [work EXCEPT !.at = "relink"]
           \/ work.from = Shared /\ work' = NoWork
    BY <1>8 DEF Reloads
  <2>2. /\ table' \in [Config -> (SUBSET CfgSerial) \cup {{"none"}}]
        /\ \A c \in Config : table'[c] = LoadOne(c) /\ LoadOne(c)' = LoadOne(c)
        /\ \A c \in Loaded' : c \in Config /\ There(c)
    BY <1>1, <1>3, <2>1, RereadIs
  <2>3. FilesShape'
    BY <1>1, <1>4, <2>1, <2>2 DEF ConfigInv, FilesShape, There
  <2>4. Disjoint' /\ Agrees'
    BY <1>4, <2>1, <2>2 DEF ConfigInv, Disjoint, Agrees
  <2>5. (\A c \in Loaded : Alive(c))'
    BY <2>1, <2>2 DEF Alive, There
  <2>6. CASE work' = [work EXCEPT !.at = "relink"]
    <3>1. /\ DOMAIN work' = {"at", "to", "put", "more", "from", "link", "new"} /\ work'.at = "relink"
          /\ work'.to = work.to /\ work'.put = work.put /\ work'.more = work.more /\ work'.new = work.new
          /\ work'.from = work.from /\ work'.link = work.link
      BY <1>3, <2>6 DEF WorkShape
    <3>2. WorkShape'
      BY <1>3, <3>1 DEF WorkShape
    <3>3. Underway'
      BY <1>1, <2>1, <3>1 DEF ConfigInv, Underway, There
    <3>4. (\A s \in CfgSession : link[s] # Shared => Alive(link[s]))'
      BY <1>1, <1>6, <2>1, <3>1 DEF Alive, There
    <3> QED
      BY <1>5, <2>3, <2>4, <2>5, <3>2, <3>3, <3>4 DEF ConfigInv
  <2>7. CASE work.from = Shared /\ work' = NoWork
    <3>1. NoFile \in CfgFile
      BY <1>3 DEF CfgFile, NoFile
    <3>2. WorkShape' /\ Underway'
      BY <2>7, <3>1 DEF WorkShape, Underway, NoWork, CfgName
    <3>3. (\A s \in CfgSession : link[s] # Shared => Alive(link[s]))'
      BY <1>1, <1>6, <2>1, <2>7 DEF Alive, There
    <3> QED
      BY <1>5, <2>3, <2>4, <2>5, <3>2, <3>3 DEF ConfigInv
  <2> QED
    BY <2>1, <2>6, <2>7
<1> QED
  BY <1>3, <1>7, <1>8
\* The steps that leave the files, what was read of them and the request as they are.
LEMMA ConfigCalm ==
  ASSUME ConfigInv, UNCHANGED <<file, table, work>>,
         section' \in [CfgName -> -1..MaxEdits], \A c \in Config : section'[c] = section[c],
         edits' \in 0..MaxEdits, shared' \in 0..edits', stamp' \in 0..shared', LinksShape',
         \A s \in CfgSession : link'[s] \in {link[s], Shared} \/ link'[s] \in Loaded,
         work.at = "idle" \/ \A s \in CfgSession : phase'[s] = "none" => phase[s] = "none"
  PROVE  ConfigInv'
<1>1. FilesShape' /\ WorkShape'
  BY DEF ConfigInv, FilesShape, WorkShape, There
<1>2. Underway'
  BY DEF ConfigInv, WorkShape, Underway, There
<1>3. Disjoint' /\ Agrees'
  BY DEF ConfigInv, Disjoint, Agrees, LoadOne, There
<1>4. (\A c \in Loaded : Alive(c))'
  BY DEF ConfigInv, Loaded, Alive, There
<1>5. (\A s \in CfgSession : link[s] # Shared => Alive(link[s]))'
  <2> SUFFICES ASSUME NEW s \in CfgSession, link'[s] # Shared
               PROVE  Alive(link[s])'
    OBVIOUS
  <2>1. Alive(link'[s])
    BY DEF ConfigInv
  <2> QED
    BY <2>1 DEF Alive, There
<1> QED
  BY <1>1, <1>2, <1>3, <1>4, <1>5, CfgAssumption DEF ConfigInv

LEMMA LoadedNames == ASSUME NEW c \in Loaded PROVE c \in Config /\ c # Shared /\ c \in CfgName
  BY CfgAssumption DEF Loaded, CfgName, CfgAssumption

LEMMA ConfigTypes ==
  ASSUME ConfigInv
  PROVE  /\ section \in [CfgName -> -1..MaxEdits] /\ edits \in 0..MaxEdits /\ shared \in 0..edits
         /\ stamp \in 0..shared /\ LinksShape /\ MaxEdits \in Nat
  BY CfgAssumption DEF ConfigInv, FilesShape, CfgAssumption

LEMMA WatcherCalm ==
  ASSUME ConfigInv, EditShared \/ Wakes \/ ConfigChanged \/ Invalidates
  PROVE  ConfigInv'
<1>1. UNCHANGED <<file, table, work, todo, link, phase, taken, pending>>
  BY DEF EditShared, Wakes, ConfigChanged, Invalidates, linkVars, diskVars
<1>2. /\ section \in [CfgName -> -1..MaxEdits] /\ edits \in 0..MaxEdits /\ shared \in 0..edits
      /\ stamp \in 0..shared /\ LinksShape /\ MaxEdits \in Nat
  BY ConfigTypes
<1>3. section' \in [CfgName -> -1..MaxEdits] /\ \A c \in Config : section'[c] = section[c]
  <2>1. section' \in {section, [section EXCEPT ![Shared] = -1]}
    BY DEF EditShared, Wakes, ConfigChanged, Invalidates
  <2> QED
    BY <1>2, <2>1, CfgAssumption DEF CfgAssumption, CfgName
<1>4. edits' \in 0..MaxEdits /\ shared' \in 0..edits' /\ stamp' \in 0..shared'
  BY <1>2 DEF EditShared, Edits, EditsBy, Wakes, ConfigChanged, Invalidates, diskVars
<1>5. told' \in BOOLEAN
  <2>1. told \in BOOLEAN
    BY <1>2 DEF LinksShape
  <2>2. told' \in {told, TRUE, FALSE}
    BY Zenon DEF EditShared, Wakes, ConfigChanged, Invalidates, diskVars
  <2> QED
    BY <2>1, <2>2, Zenon
<1>6. watch' \in {"waits", "looks", "applies", "reloads"}
  BY <1>2 DEF EditShared, Wakes, ConfigChanged, Invalidates, LinksShape
<1>7. LinksShape'
  BY <1>1, <1>2, <1>5, <1>6 DEF LinksShape
<1> QED
  BY <1>1, <1>3, <1>4, <1>7, ConfigCalm

LEMMA LinksCalm ==
  ASSUME ConfigInv,
         \/ \E s \in CfgSession, c \in CfgName : LinkDevice(s, c)
         \/ \E s \in CfgSession : AutoLinks(s) \/ TakesLink(s) \/ SessionEnds(s)
         \/ SweepTakes
  PROVE  ConfigInv'
<1>1. /\ UNCHANGED <<file, table, work, section, shared, stamp, told, watch>>
  BY DEF LinkDevice, AutoLinks, TakesLink, SessionEnds, SweepTakes, diskVars
<1>2. /\ section \in [CfgName -> -1..MaxEdits] /\ edits \in 0..MaxEdits /\ shared \in 0..edits
      /\ stamp \in 0..shared /\ LinksShape /\ MaxEdits \in Nat
  BY ConfigTypes
<1>3. edits' \in {edits, edits + 1} /\ edits' \in 0..MaxEdits
  BY <1>2 DEF LinkDevice, AutoLinks, TakesLink, SessionEnds, SweepTakes, diskVars, Edits, EditsBy
<1>4. shared' \in 0..edits' /\ stamp' \in 0..shared'
  BY <1>1, <1>2, <1>3
<1>5. /\ link \in [CfgSession -> CfgName] /\ taken \in [CfgSession -> CfgName]
      /\ phase \in [CfgSession -> {"none", "linking", "ready", "reading", "settled"}]
      /\ todo \subseteq CfgSession /\ pending \in BOOLEAN /\ Shared \in CfgName
      /\ \A s \in CfgSession : phase[s] = "none" => link[s] = Shared
  BY <1>2 DEF LinksShape, CfgName
<1>6. pending' \in BOOLEAN
  <2>1. pending' \in {pending, TRUE, FALSE}
    BY Zenon DEF LinkDevice, AutoLinks, TakesLink, SessionEnds, SweepTakes
  <2> QED
    BY <1>5, <2>1, Zenon
<1>7. todo' \subseteq CfgSession
  BY <1>5 DEF LinkDevice, AutoLinks, TakesLink, SessionEnds, SweepTakes
<1>8. /\ link' \in [CfgSession -> CfgName] /\ taken' \in [CfgSession -> CfgName]
      /\ phase' \in [CfgSession -> {"none", "linking", "ready", "reading", "settled"}]
      /\ \A s \in CfgSession : phase'[s] = "none" => link'[s] = Shared
      /\ \A s \in CfgSession : link'[s] \in {link[s], Shared} \/ link'[s] \in Loaded
      /\ work.at = "idle" \/ \A s \in CfgSession : phase'[s] = "none" => phase[s] = "none"
  <2>1. CASE \E s \in CfgSession, c \in CfgName : LinkDevice(s, c)
    <3>1. PICK s \in CfgSession, c \in CfgName : LinkDevice(s, c)
      BY <2>1
    <3>2. /\ phase[s] # "none" /\ c \in Loaded \cup {Shared} /\ link' = [link EXCEPT ![s] = c]
          /\ UNCHANGED <<phase, taken>>
      BY <3>1 DEF LinkDevice, Links
    <3> QED
      BY <1>5, <3>2
  <2>2. CASE \E s \in CfgSession : AutoLinks(s)
    <3>1. PICK s \in CfgSession : AutoLinks(s)
      BY <2>2
    <3>2. phase[s] = "linking" /\ phase' = [phase EXCEPT ![s] = "ready"] /\ taken' = taken
      BY <3>1 DEF AutoLinks
    <3>3. PICK c \in IF link[s] = Shared THEN AutoLink(SerialOf[s]) ELSE {link[s]} :
            link' = [link EXCEPT ![s] = c]
      BY <3>1 DEF AutoLinks
    <3>4. c \in {link[s], Shared} \/ c \in Loaded
      BY <3>3 DEF AutoLink, ClaimedBy
    <3>5. c \in CfgName
      BY <1>5, <3>4, LoadedNames
    <3> QED
      BY <1>5, <3>2, <3>3, <3>4, <3>5
  <2>3. CASE \E s \in CfgSession : TakesLink(s)
    <3>1. PICK s \in CfgSession : TakesLink(s)
      BY <2>3
    <3>2. /\ phase[s] = "ready" /\ phase' = [phase EXCEPT ![s] = "reading"]
          /\ taken' = [taken EXCEPT ![s] = link[s]] /\ link' = link
      BY <3>1 DEF TakesLink
    <3> QED
      BY <1>5, <3>2
  <2>4. CASE \E s \in CfgSession : SessionEnds(s)
    <3>1. PICK s \in CfgSession : SessionEnds(s)
      BY <2>4
    <3>2. /\ work.at = "idle" /\ phase' = [phase EXCEPT ![s] = "none"]
          /\ taken' = [taken EXCEPT ![s] = Shared] /\ link' = [link EXCEPT ![s] = Shared]
      BY <3>1 DEF SessionEnds, Idle
    <3> QED
      BY <1>5, <3>2
  <2>5. CASE SweepTakes
    BY <1>5, <2>5 DEF SweepTakes, linkVars
  <2> QED
    BY <2>1, <2>2, <2>3, <2>4, <2>5
<1> QED
  BY <1>1, <1>2, <1>3, <1>4, <1>6, <1>7, <1>8, ConfigCalm DEF LinksShape

\* Settings are sent: only the shared section may be loaded for it.
LEMMA SendsCalm ==
  ASSUME ConfigInv, \E s \in CfgSession : InitialSettings(s) \/ SweepSendsTo(s)
  PROVE  ConfigInv'
<1>1. UNCHANGED <<file, table, work, edits, shared, stamp, told, watch, pending, link, taken>>
  BY DEF InitialSettings, SweepSendsTo, diskVars
<1>2. /\ section \in [CfgName -> -1..MaxEdits] /\ edits \in 0..MaxEdits /\ shared \in 0..edits
      /\ stamp \in 0..shared /\ LinksShape /\ MaxEdits \in Nat
  BY ConfigTypes
<1>3. PICK s \in CfgSession, c \in CfgName : SendsTo(s, c)
  BY <1>2 DEF InitialSettings, SweepSendsTo, LinksShape
<1>4. LoadShared \in -1..MaxEdits
  BY <1>2 DEF LoadShared, CfgName
<1>5. section' = [section EXCEPT ![Shared] = IF c = Shared THEN LoadShared ELSE section[Shared]]
  BY <1>3 DEF SendsTo
<1>6. section' \in [CfgName -> -1..MaxEdits] /\ \A d \in Config : section'[d] = section[d]
  BY <1>2, <1>4, <1>5, CfgAssumption DEF CfgAssumption, CfgName
<1>7. /\ phase' \in [CfgSession -> {"none", "linking", "ready", "reading", "settled"}]
      /\ todo' \subseteq CfgSession
      /\ \A t \in CfgSession : phase'[t] = "none" => phase[t] = "none"
  BY <1>2 DEF InitialSettings, SweepSendsTo, LinksShape
<1>8. LinksShape'
  BY <1>1, <1>2, <1>7 DEF LinksShape
<1> QED
  BY <1>1, <1>2, <1>6, <1>7, <1>8, ConfigCalm
\* The sessions that read a config that was moved are pointed to where it went, and the
\* device a config was made for is linked to it: afterwards none reads a file that is not
\* there.
LEMMA LinksFollow == ASSUME ConfigInv, Relink PROVE ConfigInv'
<1> DEFINE readers   == {s \in CfgSession : phase[s] # "none" /\ link[s] = work.from}
           movable == work.new \cup (IF work.from = Shared THEN {} ELSE readers)
           goes(s) == IF s \in work.new THEN work.to ELSE work.link
<1>1. /\ work.at = "relink" /\ work' = NoWork
      /\ link' = [s \in CfgSession |->
                    IF s \in movable /\ Links(s, goes(s)) THEN goes(s) ELSE link[s]]
      /\ pending' = (pending \/ link' # link)
      /\ UNCHANGED <<file, shared, stamp, told, edits, table, section, watch, todo, phase, taken>>
  BY DEF Relink, diskVars
<1>2. /\ FilesShape /\ WorkShape /\ LinksShape /\ Underway /\ Disjoint /\ Agrees
      /\ Shared \notin Config /\ MaxEdits \in Nat
  BY CfgAssumption DEF ConfigInv, CfgAssumption
<1>3. \A c \in Config : c \in Loaded <=> There(c)
  BY <1>1, LoadedIs
<1>4. \A s \in CfgSession : Links(s, goes(s)) /\ goes(s) \in CfgName /\ (goes(s) # Shared => There(goes(s)))
  <2>1. work.to \in Config => There(work.to)
    BY <1>1, <1>2 DEF Underway
  <2>2. work.to \in CfgName /\ work.link \in {Shared, work.to} /\ Shared \in CfgName
    BY <1>2 DEF WorkShape, CfgName
  <2> QED
    BY <1>2, <1>3, <2>1, <2>2 DEF Links, CfgName
<1>5. \A s \in CfgSession : link[s] # Shared => There(link[s]) \/ s \in movable
  <2> SUFFICES ASSUME NEW s \in CfgSession, link[s] # Shared, ~There(link[s])
               PROVE  s \in movable
    OBVIOUS
  <2>1. work.from # Shared /\ link[s] = work.from
    BY <1>1 DEF ConfigInv, Alive
  <2>2. phase[s] # "none"
    BY <1>2 DEF LinksShape
  <2> QED
    BY <2>1, <2>2
<1>6. \A s \in CfgSession : s \in movable => phase[s] # "none"
  BY <1>1, <1>2 DEF Underway
<1> HIDE DEF movable, goes
<1>7. /\ link' \in [CfgSession -> CfgName]
      /\ \A s \in CfgSession : link'[s] = IF s \in movable THEN goes(s) ELSE link[s]
  BY <1>1, <1>2, <1>4 DEF LinksShape
<1>8. pending' \in BOOLEAN
  <2> DEFINE turned == link' # link
  <2>1. turned \in BOOLEAN /\ pending \in BOOLEAN
    BY <1>2 DEF LinksShape
  <2>2. pending' = (pending \/ turned)
    BY <1>1
  <2> HIDE DEF turned
  <2> QED
    BY <2>1, <2>2, Zenon
<1>9. LinksShape'
  BY <1>1, <1>2, <1>6, <1>7, <1>8 DEF LinksShape
<1>10. FilesShape'
  BY <1>1, <1>2 DEF FilesShape, There
<1>11. WorkShape' /\ Underway'
  <2>1. NoFile \in CfgFile
    BY <1>2 DEF CfgFile, NoFile
  <2> QED
    BY <1>1, <2>1 DEF WorkShape, Underway, NoWork, CfgName
<1>12. Disjoint' /\ Agrees'
  BY <1>1, <1>2 DEF Disjoint, Agrees, LoadOne, There
<1>13. (\A c \in Loaded : Alive(c))'
  BY <1>1, <1>3 DEF Loaded, Alive, There
<1>14. (\A s \in CfgSession : link[s] # Shared => Alive(link[s]))'
  <2> SUFFICES ASSUME NEW s \in CfgSession, link'[s] # Shared
               PROVE  Alive(link[s])'
    OBVIOUS
  <2>1. There(link'[s])
    BY <1>4, <1>5, <1>7
  <2> QED
    BY <1>1, <2>1 DEF Alive, There
<1> QED
  BY <1>9, <1>10, <1>11, <1>12, <1>13, <1>14 DEF ConfigInv

LEMMA ConfigStays == ASSUME ConfigInv, UNCHANGED cfgVars PROVE ConfigInv'
<1>1. UNCHANGED <<file, shared, table, section, stamp, told, watch, pending, work, todo, link, phase, taken, edits>>
  BY DEF cfgVars
<1>2. LinksShape'
  BY <1>1 DEF ConfigInv, LinksShape
<1> QED
  BY <1>1, <1>2, ConfigTypes, ConfigCalm

LEMMA ConfigKeeps == ASSUME ConfigInv, [ConfigNext]_cfgVars PROVE ConfigInv'
<1>1. CASE \/ \E c \in Config : Create(c) \/ SetSetting(c)
           \/ \E c \in Config, n \in CfgSerial : AddClaim(c, n) \/ RemoveClaim(c, n)
           \/ \E c, d \in Config : Copy(c, d)
  BY <1>1, RequestWrites
<1>2. CASE \/ \E c \in Config : Archive(c)
           \/ \E c, d \in Config : RenameConfig(c, d)
  BY <1>2, ConfigMoves
<1>3. CASE Lists \/ ApplyChange \/ \E s \in CfgSession : Starts(s)
  BY <1>3, Rereads
<1>4. CASE EditShared \/ Wakes \/ ConfigChanged \/ Invalidates
  BY <1>4, WatcherCalm
<1>5. CASE \/ \E s \in CfgSession, c \in Config \cup {Shared} : LinkDevice(s, c)
           \/ \E s \in CfgSession : AutoLinks(s) \/ TakesLink(s) \/ SessionEnds(s)
           \/ SweepTakes
  BY <1>5, LinksCalm DEF CfgName
<1>6. CASE \E s \in CfgSession : InitialSettings(s) \/ SweepSendsTo(s)
  BY <1>6, SendsCalm
<1> QED
  BY <1>1, <1>2, <1>3, <1>4, <1>5, <1>6, FileFills, VerbEnds, LinksFollow, ConfigStays, Zenon
     DEF ConfigNext, Requests, Loop, Watcher, CfgWorker

LEMMA ConfigMeans == ASSUME ConfigInv PROVE ConfigTypeOK /\ ConfigsHold
<1>1. /\ FilesShape /\ WorkShape /\ LinksShape /\ MaxEdits \in Nat /\ Shared \notin Config
      /\ \A c \in Config : file[c].claims \in SUBSET CfgSerial /\ file[c].ver \in -1..MaxEdits
  BY LoadOneIs, CfgAssumption DEF ConfigInv, CfgAssumption
<1>2. ConfigTypeOK
  <2>1. \A c \in Config : table[c] = {"none"} \/ table[c] \subseteq CfgSerial
    BY <1>1 DEF FilesShape
  <2>2. shared \in 0..MaxEdits
    BY <1>1 DEF FilesShape
  <2> QED
    BY <1>1, <2>1, <2>2 DEF ConfigTypeOK, FilesShape, WorkShape, LinksShape, CfgName
<1>3. ConfigsHold
  <2> SUFFICES ASSUME work.at = "idle"
               PROVE  /\ \A c, d \in Config : c # d => file[c].claims \cap file[d].claims = {}
                      /\ \A s \in CfgSession : link[s] # Shared => There(link[s])
                      /\ \A c \in Config : table[c] = LoadOne(c) /\ section[c] = file[c].ver
    BY DEF ConfigsHold, Idle
  <2> QED
    BY DEF ConfigInv, Disjoint, Agrees, Alive
<1> QED
  BY <1>2, <1>3
----------------------------------------------------------------------------
(* RestConn: a request changes something only when all of it has come.      *)

Spot == {"start", "first", "end", "colon", "value", "more", "key", "error"}

\* The parser's walk over a body exists: for each number of tokens there is one.
Walks(b, n, A) ==
    /\ A \in [0..n -> Spot] /\ A[0] = "start"
    /\ \A i \in 1..n : A[i] = After(A[i - 1], b[i])

LEMMA AfterIs ==
  ASSUME NEW at, NEW next
  PROVE  /\ After(at, next) \in Spot /\ After(at, next) # "start"
         /\ After(at, next) = "first" => at = "start" /\ next = "open"
         /\ After(at, next) = "colon" => at \in {"first", "key"} /\ next = "str"
         /\ After(at, next) = "value" => at = "colon" /\ next = "colon"
         /\ After(at, next) = "more" => at = "value" /\ next = "str"
         /\ After(at, next) = "key" => at = "more" /\ next = "comma"
         /\ After(at, next) = "end" => at \in {"first", "more"} /\ next = "close"
  BY DEF After, Spot

LEMMA WalkGoesOn ==
  ASSUME NEW b, NEW n \in Nat, \E A : Walks(b, n, A)
  PROVE  \E A : Walks(b, n + 1, A)
<1>1. PICK A : Walks(b, n, A)
  OBVIOUS
<1> DEFINE v == After(A[n], b[n + 1])
           B == [i \in 0..n + 1 |-> IF i = n + 1 THEN v ELSE A[i]]
<1>2. v \in Spot
  BY AfterIs
<1>3. v = After(A[n], b[n + 1])
  OBVIOUS
<1> HIDE DEF v
<1>4. /\ \A i \in 0..n + 1 : i \in Nat /\ (i = n + 1 \/ i \in 0..n) /\ (i = n + 1 => i \notin 0..n)
      /\ n + 1 \in 0..n + 1 /\ 0 \in 0..n /\ n \in 0..n
  OBVIOUS
<1>5. /\ B \in [0..n + 1 -> Spot] /\ B[n + 1] = v /\ \A i \in 0..n : B[i] = A[i]
  BY <1>1, <1>2, <1>4 DEF Walks
<1> HIDE DEF B
<1>6. \A i \in 1..n + 1 : B[i] = After(B[i - 1], b[i])
  <2> SUFFICES ASSUME NEW i \in 1..n + 1
               PROVE  B[i] = After(B[i - 1], b[i])
    OBVIOUS
  <2>1. CASE i = n + 1
    <3>1. i - 1 = n
      BY <2>1
    <3> QED
      BY <1>3, <1>4, <1>5, <2>1, <3>1
  <2>2. CASE i # n + 1
    <3>1. i \in 1..n /\ i \in 0..n /\ i - 1 \in 0..n
      BY <2>2
    <3> QED
      BY <1>1, <1>5, <3>1 DEF Walks
  <2> QED
    BY <2>1, <2>2
<1> QED
  BY <1>1, <1>4, <1>5, <1>6 DEF Walks

LEMMA WalkExists ==
  ASSUME NEW b, NEW n \in Nat
  PROVE  \E A : Walks(b, n, A)
<1> DEFINE S == {m \in Nat : \E A : Walks(b, m, A)}
<1>1. 0 \in S
  <2> DEFINE A == [i \in 0..0 |-> "start"]
  <2>1. A \in [0..0 -> Spot] /\ A[0] = "start" /\ 1..0 = {}
    BY DEF Spot
  <2> HIDE DEF A
  <2>2. Walks(b, 0, A)
    BY <2>1 DEF Walks
  <2> QED
    BY <2>2
<1>2. \A m \in Nat : m \in S => m + 1 \in S
  BY WalkGoesOn
<1>3. S \in SUBSET Nat
  OBVIOUS
<1> HIDE DEF S
<1>4. n \in S
  BY <1>1, <1>2, <1>3, CountsUp
<1> QED
  BY <1>4 DEF S

LEMMA JsonStatesAre ==
  ASSUME NEW b \in Seq(Token)
  PROVE  Walks(b, Len(b), JsonStates(b))
<1> DEFINE Walked(A) == [i \in 0..Len(b) |-> IF i = 0 THEN "start" ELSE After(A[i - 1], b[i])]
<1>1. JsonStates(b) = CHOOSE A : A = Walked(A)
  BY DEF JsonStates
<1>2. Len(b) \in Nat
  OBVIOUS
<1>3. \E A : A = Walked(A)
  <2>1. PICK A : Walks(b, Len(b), A)
    BY <1>2, WalkExists
  <2>2. A = Walked(A)
    BY <1>2, <2>1 DEF Walks
  <2> QED
    BY <2>2
<1>4. JsonStates(b) = Walked(JsonStates(b))
  <2> HIDE DEF Walked
  <2> QED
    BY <1>1, <1>3
<1> DEFINE f == JsonStates(b)
<1>5. f = Walked(f)
  BY <1>4
<1> HIDE DEF f
<1>6. /\ f[0] = "start" /\ \A i \in 1..Len(b) : f[i] = After(f[i - 1], b[i])
  BY <1>2, <1>5
<1>7. f \in [0..Len(b) -> Spot]
  <2>1. \A i \in 0..Len(b) : f[i] \in Spot
    <3>1. "start" \in Spot
      BY DEF Spot
    <3>2. \A i \in 1..Len(b) : f[i] \in Spot
      BY <1>6, AfterIs
    <3> QED
      BY <1>2, <1>6, <3>1, <3>2
  <2> QED
    BY <1>5, <2>1
<1> QED
  BY <1>6, <1>7 DEF Walks, f

\* What the parser has accepted so far: members one after the other, each a key, a colon and
\* a value, after the opening brace.
Members(b, n) ==
    /\ b[1] = "open"
    /\ \A i \in 2..n : /\ i % 4 \in {0, 2} => b[i] = "str"
                       /\ i % 4 = 3 => b[i] = "colon"
                       /\ i % 4 = 1 => b[i] = "comma"

Accepted(b, n, at) ==
    /\ at = "start" <=> n = 0
    /\ at = "first" => n = 1 /\ b[1] = "open"
    /\ at = "colon" => n % 4 = 2 /\ Members(b, n)
    /\ at = "value" => n % 4 = 3 /\ Members(b, n)
    /\ at = "more"  => n % 4 = 0 /\ Members(b, n)
    /\ at = "key"   => n % 4 = 1 /\ n > 1 /\ Members(b, n)
    /\ at = "end"   => /\ n > 1 /\ b[1] = "open" /\ b[n] = "close"
                       /\ n = 2 \/ (n % 4 = 1 /\ Members(b, n - 1))

LEMMA AcceptsOn ==
  ASSUME NEW b, NEW n \in Nat, NEW at, NEW next, Accepted(b, n, at), next = After(at, b[n + 1])
  PROVE  Accepted(b, n + 1, next)
<1>1. /\ next \in Spot /\ next # "start"
      /\ next = "first" => at = "start" /\ b[n + 1] = "open"
      /\ next = "colon" => at \in {"first", "key"} /\ b[n + 1] = "str"
      /\ next = "value" => at = "colon" /\ b[n + 1] = "colon"
      /\ next = "more" => at = "value" /\ b[n + 1] = "str"
      /\ next = "key" => at = "more" /\ b[n + 1] = "comma"
      /\ next = "end" => at \in {"first", "more"} /\ b[n + 1] = "close"
  BY AfterIs
<1>2. next # "start" /\ n + 1 # 0
  BY <1>1
<1>3. \A i \in 2..n + 1 : i \in 2..n \/ i = n + 1
  OBVIOUS
<1>4. CASE next = "first"
  BY <1>1, <1>4 DEF Accepted
<1>5. CASE next = "colon"
  <2>1. CASE at = "first"
    BY <1>1, <1>5, <2>1 DEF Accepted, Members
  <2>2. CASE at = "key"
    BY <1>1, <1>3, <1>5, <2>2 DEF Accepted, Members
  <2> QED
    BY <1>1, <1>5, <2>1, <2>2
<1>6. CASE next = "value"
  BY <1>1, <1>3, <1>6 DEF Accepted, Members
<1>7. CASE next = "more"
  BY <1>1, <1>3, <1>7 DEF Accepted, Members
<1>8. CASE next = "key"
  BY <1>1, <1>3, <1>8 DEF Accepted, Members
<1>9. CASE next = "end"
  <2>1. CASE at = "first"
    BY <1>1, <1>9, <2>1 DEF Accepted
  <2>2. CASE at = "more"
    <3>1. n % 4 = 0 /\ Members(b, n) /\ n # 0
      BY <2>2 DEF Accepted
    <3> QED
      BY <1>1, <1>9, <2>2, <3>1 DEF Accepted, Members
  <2> QED
    BY <1>1, <1>9, <2>1, <2>2
<1>10. CASE next = "error"
  BY <1>2, <1>10 DEF Accepted
<1> QED
  BY <1>1, <1>4, <1>5, <1>6, <1>7, <1>8, <1>9, <1>10 DEF Spot
LEMMA AcceptsAll ==
  ASSUME NEW b \in Seq(Token)
  PROVE  Accepted(b, Len(b), JsonState(b))
<1> DEFINE f == JsonStates(b)
           S == {n \in Nat : n <= Len(b) => Accepted(b, n, f[n])}
<1>1. Walks(b, Len(b), f) /\ Len(b) \in Nat
  BY JsonStatesAre
<1> HIDE DEF f
<1>2. 0 \in S
  BY <1>1 DEF Walks, Accepted
<1>3. ASSUME NEW n \in Nat, n \in S
      PROVE  n + 1 \in S
  <2> SUFFICES ASSUME n + 1 <= Len(b)
               PROVE  Accepted(b, n + 1, f[n + 1])
    OBVIOUS
  <2>1. n + 1 \in 1..Len(b) /\ (n + 1) - 1 = n /\ n <= Len(b)
    BY <1>1
  <2>2. f[n + 1] = After(f[n], b[n + 1])
    BY <1>1, <2>1 DEF Walks
  <2>3. Accepted(b, n, f[n])
    BY <1>3, <2>1
  <2> QED
    BY <2>2, <2>3, AcceptsOn
<1>4. S \in SUBSET Nat
  OBVIOUS
<1>5. S = Nat
  <2> HIDE DEF S
  <2> QED
    BY <1>2, <1>3, <1>4, CountsUp
<1>6. Accepted(b, Len(b), f[Len(b)])
  BY <1>1, <1>5
<1> QED
  BY <1>6 DEF JsonState, f

\* What the parser takes is flat.
LEMMA ParsedIsFlat ==
  ASSUME NEW b \in Seq(Token), Parses(b)
  PROVE  IsFlat(b)
<1>1. CASE b = <<>>
  BY <1>1 DEF IsFlat
<1>2. CASE JsonState(b) = "end"
  <2> DEFINE n == Len(b)
  <2>1. n \in Nat /\ n > 1 /\ b[1] = "open" /\ b[n] = "close" /\ (n = 2 \/ (n % 4 = 1 /\ Members(b, n - 1)))
    BY <1>2, AcceptsAll DEF Accepted
  <2>2. CASE n = 2
    <3>1. b = <<"open", "close">>
      BY <2>1, <2>2
    <3> QED
      BY <3>1 DEF IsFlat
  <2>3. CASE n % 4 = 1 /\ Members(b, n - 1)
    <3>1. PICK k \in 1..n : n = 4 * k + 1
      <4>1. (n - 1) \div 4 \in 1..n /\ n = 4 * ((n - 1) \div 4) + 1
        <5> HIDE DEF n
        <5> QED
          BY <2>1, <2>3
      <4> QED
        BY <4>1
    <3>2. ASSUME NEW i \in 1..k
          PROVE  /\ b[4 * i - 2] = "str" /\ b[4 * i - 1] = "colon" /\ b[4 * i] = "str"
                 /\ i < k => b[4 * i + 1] = "comma"
      <4> HIDE DEF n
      <4>1. /\ 4 * i - 2 \in 2..n - 1 /\ (4 * i - 2) % 4 = 2
            /\ 4 * i - 1 \in 2..n - 1 /\ (4 * i - 1) % 4 = 3
            /\ 4 * i \in 2..n - 1 /\ (4 * i) % 4 = 0
            /\ i < k => 4 * i + 1 \in 2..n - 1
            /\ (4 * i + 1) % 4 = 1
        BY <2>1, <3>1
      <4> QED
        BY <2>3, <4>1 DEF Members
    <3> QED
      BY <2>1, <3>1, <3>2 DEF IsFlat
  <2> QED
    BY <2>1, <2>2, <2>3
<1> QED
  BY <1>1, <1>2 DEF Parses

\* The connection until it is closed has answered nothing and done nothing.
RestInv ==
    /\ RestTypeOK /\ body \in Body /\ body \in Seq(Token)
    /\ rest = "listen" => size \in 1..2
    /\ rest = "head" => size \in 1..2
    /\ rest # "closed" => status = <<>> /\ did = "nothing"
    /\ status \in Seq(Nat)
    /\ ActsOnWhole

LEMMA RestBegins == ASSUME RestInit PROVE RestInv
<1>1. head \in RestRequest /\ body \in Body /\ size \in 1..2 /\ got = 0 /\ rest = "listen"
      /\ status = <<>> /\ did = "nothing"
  BY DEF RestInit
<1>2. body \in Seq(Token)
  BY <1>1, RestAssumption DEF RestAssumption
<1>3. Len(body) \in Nat /\ Len(status) = 0
  BY <1>1, <1>2
<1>4. RestTypeOK
  BY <1>1, <1>3 DEF RestTypeOK
<1> QED
  BY <1>1, <1>2, <1>4 DEF RestInv, ActsOnWhole

\* A request that is routed is whole: its length is the one it says, and all of it came.
LEMMA CompleteIsWhole ==
  ASSUME RestInv, Complete
  PROVE  head.line = "good" /\ head.length = "is" /\ ~HeadRefused /\ Told = body
<1>1. /\ body \in Seq(Token) /\ got \in 0..Len(body) /\ MaxBody \in Nat
      /\ head.length \in {"is", "long", "huge", "junk"}
  BY RestAssumption DEF RestAssumption, RestInv, RestTypeOK, RestRequest
<1>2. Len(body) \in Nat /\ SubSeq(body, 1, Len(body)) = body
  BY <1>1
<1>3. ~HeadRefused /\ got >= Wanted /\ head.line = "good" /\ head.length # "junk"
  BY DEF Complete, HeadRefused
<1>4. head.length = "is"
  <2>1. CASE head.length = "long"
    BY <1>1, <1>2, <1>3, <2>1 DEF Wanted
  <2>2. CASE head.length = "huge"
    BY <1>1, <2>2 DEF Complete, HeadRefused, Wanted
  <2> QED
    BY <1>1, <1>3, <2>1, <2>2
<1>5. Wanted = Len(body)
  BY <1>4 DEF Wanted
<1>6. got = Len(body)
  <2>1. got >= Len(body)
    BY <1>3, <1>5, Zenon
  <2>2. Len(body) \in Nat /\ got \in 0..Len(body)
    BY <1>1, <1>2
  <2> QED
    BY <2>1, <2>2
<1> QED
  BY <1>2, <1>3, <1>4, <1>5, <1>6 DEF Told

LEMMA RouteKeeps == ASSUME RestInv, Route PROVE RestInv'
<1>1. /\ Complete /\ did' = (IF Allowed THEN Operation ELSE "nothing")
      /\ UNCHANGED <<head, body, size, got, over, gone>>
  BY DEF Route
<1>2. PICK n \in StatusOf(Allowed) : Answers(n)
  BY DEF Route
<1>3. /\ head.line = "good" /\ head.length = "is" /\ ~HeadRefused /\ Told = body
  BY <1>1, CompleteIsWhole
<1>4. status = <<>> /\ body \in Seq(Token)
  BY <1>1 DEF Complete, RestInv
<1>5. n \in Nat
  BY DEF StatusOf
<1>6. rest' = "closed" /\ status' \in Seq(Nat) /\ Len(status') = 1
  BY <1>2, <1>4, <1>5 DEF Answers
<1>7. did' # "nothing" => head.auth /\ did' = Operation
  BY <1>1 DEF Allowed
<1>8. Operation \in {"start", "restart"} => Parses(Told)
  BY DEF Operation
<1>9. ActsOnWhole'
  BY <1>1, <1>3, <1>4, <1>7, <1>8, ParsedIsFlat
     DEF ActsOnWhole, HeadRefused, Wanted, Told, IsFlat
<1>10. RestTypeOK'
  BY <1>1, <1>6 DEF RestInv, RestTypeOK
<1> QED
  BY <1>1, <1>6, <1>9, <1>10 DEF RestInv

\* Every other answer is given with nothing done.
LEMMA RefusalKeeps ==
  ASSUME RestInv, HeadFails \/ RefuseHead \/ (ReceiveBody /\ rest' = "closed")
  PROVE  RestInv'
<1>1. /\ rest # "closed" /\ UNCHANGED <<head, body, size, got, did>>
      /\ \E n \in {400, 408, 413} : Answers(n)
  BY DEF HeadFails, RefuseHead, ReceiveBody, Answers
<1>2. status = <<>> /\ did = "nothing"
  BY <1>1 DEF RestInv
<1>3. rest' = "closed" /\ status' \in Seq(Nat) /\ Len(status') = 1
  BY <1>1, <1>2 DEF Answers
<1>4. RestTypeOK'
  BY <1>1, <1>3 DEF RestInv, RestTypeOK
<1> QED
  BY <1>1, <1>2, <1>3, <1>4 DEF RestInv, ActsOnWhole

LEMMA ReceiptKeeps ==
  ASSUME RestInv, TakesClient \/ ReceiveHead \/ (ReceiveBody /\ rest' # "closed") \/ PeerGoes
  PROVE  RestInv'
<1>1. body \in Seq(Token) /\ Len(body) \in Nat /\ rest # "closed" /\ status = <<>> /\ did = "nothing"
  BY DEF RestInv, TakesClient, ReceiveHead, ReceiveBody, PeerGoes
<1>2. UNCHANGED <<head, body, did, status>>
  BY DEF TakesClient, ReceiveHead, ReceiveBody, Answers, PeerGoes
<1>3. rest' \in {"head", "body"} /\ size' \in 0..2 /\ (rest' = "head" => size' \in 1..2)
  BY DEF RestInv, RestTypeOK, TakesClient, ReceiveHead, ReceiveBody, Answers, PeerGoes
<1>4. got' \in 0..Len(body)
  BY <1>1 DEF RestInv, RestTypeOK, TakesClient, ReceiveHead, ReceiveBody, Answers, PeerGoes
<1>5. RestTypeOK'
  BY <1>2, <1>3, <1>4 DEF RestInv, RestTypeOK
<1> QED
  BY <1>1, <1>2, <1>3, <1>5 DEF RestInv, ActsOnWhole

LEMMA RestStays == ASSUME RestInv, UNCHANGED restVars PROVE RestInv'
  BY DEF RestInv, RestTypeOK, ActsOnWhole, HeadRefused, Wanted, Told, IsFlat, restVars

LEMMA RestKeeps == ASSUME RestInv, [RestNext]_restVars PROVE RestInv'
<1>1. CASE HeadFails \/ RefuseHead \/ (ReceiveBody /\ rest' = "closed")
  BY <1>1, RefusalKeeps
<1>2. CASE TakesClient \/ ReceiveHead \/ (ReceiveBody /\ rest' # "closed") \/ PeerGoes
  BY <1>2, ReceiptKeeps
<1> QED
  BY <1>1, <1>2, RouteKeeps, RestStays, Zenon DEF RestNext, RestSteps

LEMMA RestMeans == ASSUME RestInv PROVE RestTypeOK /\ ActsOnWhole
  BY DEF RestInv

----------------------------------------------------------------------------
(* The parts beside one another.  No step of one reads or writes the state   *)
(* of another, so each keeps its own invariant.                              *)

HomeInv == /\ IInv /\ ConfigInv /\ RestInv /\ EnetInv /\ BtInv
           /\ OpenInv /\ MemoryInv /\ MoverInv

LEMMA HomeBegins == ASSUME HomeInit PROVE HomeInv
  BY InitNamed, ConfigBegins, RestBegins, EnetBegins, BtBegins, OpenBegins,
     MemoryBegins, MoverBegins, Zenon DEF HomeInit, HomeInv

\* What moves one part leaves the seven others.
LEMMA StepOfOne ==
  ASSUME [HomeNext]_homeVars
  PROVE  /\ [Next]_vars /\ [ConfigNext]_cfgVars /\ [RestNext]_restVars
         /\ [EnetNext]_enetVars /\ [BtNext]_btVars /\ [OpenNext]_openVars
         /\ [MemoryNext]_memoryVars /\ [MoverNext]_moverVars
<1>1. CASE InNames(Next)
  BY <1>1 DEF InNames, InSide
<1>2. CASE InSettings(ConfigNext)
  BY <1>2 DEF InSettings, InSide
<1>3. CASE InRest(RestNext)
  BY <1>3 DEF InRest, InSide
<1>4. CASE InEnet(EnetNext)
  BY <1>4 DEF InEnet, InSide
<1>5. CASE InBt(BtNext)
  BY <1>5 DEF InBt, InSide
<1>6. CASE InOpen(OpenNext)
  BY <1>6 DEF InOpen, sideVars
<1>7. CASE InMemory(MemoryNext)
  BY <1>7 DEF InMemory, sideVars
<1>8. CASE InMover(MoverNext)
  BY <1>8 DEF InMover, sideVars
<1>9. CASE UNCHANGED homeVars
  BY <1>9 DEF homeVars, sideVars
<1> QED
  BY <1>1, <1>2, <1>3, <1>4, <1>5, <1>6, <1>7, <1>8, <1>9, Zenon DEF HomeNext

LEMMA HomeKeeps == ASSUME HomeInv, [HomeNext]_homeVars PROVE HomeInv'
  BY StepOfOne, NextNamed, ConfigKeeps, RestKeeps, EnetKeeps, BtKeeps, OpenKeeps,
     MemoryKeeps, MoverKeeps, Zenon DEF HomeInv

LEMMA HomeStands == HomeSpec => []HomeInv
<1>1. HomeInit => HomeInv
  BY HomeBegins
<1>2. HomeInv /\ [HomeNext]_homeVars => HomeInv'
  BY HomeKeeps
<1> QED
  BY <1>1, <1>2, PTL DEF HomeSpec

\* The state of every part beside the sessions is well-formed, and when nobody writes,
\* deletes or reloads, the configs and the files of their folder are the same.
THEOREM HomesHold == HomeSpec => []HomeHolds
<1>1. HomeInv => HomeHolds
  BY ConfigMeans, RestMeans, EnetMeans, MemoryMeans
     DEF HomeInv, HomeHolds, IInv, BtInv, OpenInv, OpenShape, MoverInv
<1> QED
  BY <1>1, HomeStands, PTL

\* However parts of devices come, are named, minted for and read back, a name stays with
\* the device it was given to, beside everything else that runs.
THEOREM HomeNames == HomeSpec => []NamesHold
<1>1. HomeInv => NamesHold
  BY DEF HomeInv, IInv, NamesHold, Named, FamilyNames, Kin, Born, NameOfOwnDevice
<1> QED
  BY <1>1, HomeStands, PTL

\* However many threads ask for the settings window while one opens it, the opens that
\* hold the claim leave one window where the browser keeps the times the code allows it,
\* and it opens on the tab last asked for (open_ui.inl).
THEOREM OpensHold == HomeSpec => []OpenHolds
<1>1. HomeInv => OpenHolds
  BY OpenMeans DEF HomeInv
<1> QED
  BY <1>1, HomeStands, PTL

\* The window comes back where it was left, its place is filed under the layout it was
\* in, and a pad snaps it only by letting go of an Options it held itself and did not steer
\* with (config_move.inl, window_move.inl).
THEOREM WindowsHold == HomeSpec => []WindowHolds
<1>1. HomeInv => WindowHolds
  BY MemoryMeans DEF HomeInv, WindowHolds, MoverInv
<1> QED
  BY <1>1, HomeStands, PTL

\* A burst of audio costs the Bluetooth writer its oldest reports and no others, what it
\* sends is in the order it came, and neither thread outlives the handle it uses
\* (backend/bluetooth.inl).
THEOREM PacedKept == HomeSpec => []PacedIsNewest
<1>1. HomeInv => PacedIsNewest
  BY BtMeans DEF HomeInv
<1> QED
  BY <1>1, HomeStands, PTL

\* The device is there only while a link is there to serve it, every answer goes to the
\* request it answers whichever link it came by, and reports are handed on in the order
\* they came (backend/enet.inl).
THEOREM LinkFollowsTv == HomeSpec => []LinkPlugs
<1>1. HomeInv => LinkPlugs
  BY EnetMeans DEF HomeInv
<1> QED
  BY <1>1, HomeStands, PTL

\* What a request does, it does for a body the server has in full and could parse.
THEOREM RequestsWhole == HomeSpec => []ActsOnWhole
<1>1. HomeInv => ActsOnWhole
  BY RestMeans DEF HomeInv
<1> QED
  BY <1>1, HomeStands, PTL
============================================================================
