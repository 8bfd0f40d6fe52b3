------------------------------ MODULE UsbProofs ------------------------------
(***************************************************************************)
(* What holds of the listener's USB side for every size of its lists,      *)
(* queues and maps: of the server's lists, a device's queue, the bridge's  *)
(* queue before it, a map's stream reports and the settings that are laid  *)
(* over a game's; and of all five together.                                *)
(***************************************************************************)
EXTENDS MCUsb, FiniteSetTheorems, WellFoundedInduction, TLAPS

(* UsbipServer: an import that is served can be reached.                   *)

\* A thread that removes or cuts has sockets in hand only once it has copied
\* the list.
HandsEmpty == \A r \in Remover : rmv[r].at # "copied" => hit[r] = {}

ServerInv == ServerTypeOK /\ HandsEmpty /\ ImportsInReach
----------------------------------------------------------------------------
LEMMA ServerBegins == ASSUME ServerInit PROVE ServerInv
<1>1. ServerTypeOK
  BY ServerAssumption DEF ServerAssumption, ServerInit, ServerTypeOK, Import
<1>2. HandsEmpty /\ ImportsInReach
  BY DEF ServerInit, HandsEmpty, ImportsInReach
<1> QED
  BY <1>1, <1>2 DEF ServerInv

\* The types.
LEMMA ServerTypeStep == ASSUME ServerTypeOK, ServerNext PROVE ServerTypeOK'
<1> USE ServerAssumption DEF ServerAssumption, ServerTypeOK, listVars, cutVars
<1>1. ASSUME NEW b \in BusId, AddDevice(b) PROVE ServerTypeOK'
  <2>1. devices \in Nat /\ devices' = devices + 1 /\ devices' \in 0..MaxDevice
    BY <1>1 DEF AddDevice
  <2>2. exported' \in [BusId -> 0..devices'] /\ dev' \in [Import -> 0..devices']
    BY <1>1, <2>1 DEF AddDevice
  <2> QED
    BY <1>1, <2>1, <2>2 DEF AddDevice
<1>2. ASSUME NEW r \in Remover, NEW b \in BusId, RemoveErases(r, b) \/ DetachBegins(r, b)
      PROVE  ServerTypeOK'
  BY <1>2, SMTT(30) DEF RemoveErases, DetachBegins, Goes
<1>3. ASSUME NEW r \in Remover, CutStep(r) PROVE ServerTypeOK'
  <2>1. CASE CutCopies(r)
    BY <2>1 DEF CutCopies, Goes
  <2>2. CASE CutShuts(r)
    BY <2>2 DEF CutShuts
  <2>3. CASE CutEnds(r)
    BY <2>3 DEF CutEnds, Goes
  <2> QED
    BY <1>3, <2>1, <2>2, <2>3 DEF CutStep
<1>4. ASSUME NEW i \in Import, ImportMatches(i) \/ ImportRefused(i) \/ ImportLeaves(i) \/ ImportCloses(i)
      PROVE  ServerTypeOK'
  BY <1>4 DEF ImportMatches, ImportRefused, ImportLeaves, ImportCloses, Moves
<1>5. ASSUME NEW i \in Import, ImportRegisters(i) \/ ImportUnregisters(i) PROVE ServerTypeOK'
  BY <1>5, SMTT(30) DEF ImportRegisters, ImportUnregisters, Moves, Without
<1>6. CASE ServerRests
  BY <1>6 DEF ServerRests, serverVars
<1> QED
  BY <1>1, <1>2, <1>3, <1>4, <1>5, <1>6 DEF ServerNext

\* What a removal has in hand.
LEMMA HandsStep == ASSUME ServerTypeOK, HandsEmpty, ServerNext PROVE HandsEmpty'
<1> USE DEF ServerTypeOK, HandsEmpty, listVars, cutVars
<1>1. ASSUME NEW r \in Remover, NEW b \in BusId, RemoveErases(r, b) \/ DetachBegins(r, b)
      PROVE  HandsEmpty'
  BY <1>1 DEF RemoveErases, DetachBegins, Goes
<1>2. ASSUME NEW r \in Remover, CutStep(r) PROVE HandsEmpty'
  BY <1>2 DEF CutStep, CutCopies, CutShuts, CutEnds, Goes
<1>3. CASE UNCHANGED cutVars
  BY <1>3
<1> QED
  BY <1>1, <1>2, <1>3
  DEF ServerNext, AddDevice, ImportMatches, ImportRefused, ImportRegisters, ImportLeaves,
      ImportUnregisters, ImportCloses, ServerRests, serverVars

\* Every import registers in the list that a removal copies whole: nothing is
\* dropped between the list, the copy and the shutdown.
LEMMA ReachStep == ASSUME ServerInv, ServerNext PROVE ImportsInReach'
<1> SUFFICES ASSUME NEW i \in Import, ipc'[i] = "loop"
             PROVE  i \in active'[bus'[i]] \cup shut' \cup UNION {hit'[r] : r \in Remover}
  BY DEF ImportsInReach
<1> USE DEF listVars, cutVars
<1>0. ServerTypeOK /\ HandsEmpty /\ ImportsInReach
  BY DEF ServerInv
<1>1. ASSUME ipc[i] = "loop" PROVE i \in active[bus[i]] \cup shut \cup UNION {hit[r] : r \in Remover}
  BY <1>0, <1>1 DEF ImportsInReach
<1>2. bus[i] \in BusId
  BY <1>0 DEF ServerTypeOK
<1>3. CASE UNCHANGED <<bus, active, shut, hit>> /\ ipc[i] = "loop"
  BY <1>1, <1>3
<1>4. ASSUME NEW j \in Import, ImportRegisters(j) PROVE i \in active'[bus'[i]] \cup shut' \cup UNION {hit'[r] : r \in Remover}
  BY <1>0, <1>1, <1>2, <1>4 DEF ImportRegisters, Moves, ServerTypeOK
<1>5. ASSUME NEW j \in Import, ImportUnregisters(j) PROVE i \in active'[bus'[i]] \cup shut' \cup UNION {hit'[r] : r \in Remover}
  BY <1>0, <1>1, <1>2, <1>5 DEF ImportUnregisters, Moves, Without, ServerTypeOK
<1>6. ASSUME NEW q \in Remover, CutCopies(q) PROVE i \in active'[bus'[i]] \cup shut' \cup UNION {hit'[r] : r \in Remover}
  <2>1. hit[q] = {} /\ rmv[q].bus \in BusId
    BY <1>0, <1>6 DEF CutCopies, Goes, HandsEmpty, ServerTypeOK
  <2>2. hit' = [hit EXCEPT ![q] = active[rmv[q].bus]] /\ UNCHANGED <<ipc, bus, shut>>
        /\ active' = [active EXCEPT ![rmv[q].bus] = {}]
    BY <1>6 DEF CutCopies
  <2>3. CASE i \in active[bus[i]]
    BY <1>0, <1>2, <2>1, <2>2, <2>3 DEF ServerTypeOK
  <2>4. CASE i \in shut
    BY <2>2, <2>4
  <2>5. ASSUME NEW r \in Remover, i \in hit[r] PROVE i \in hit'[r]
    BY <1>0, <2>1, <2>2, <2>5 DEF ServerTypeOK
  <2> QED
    BY <1>1, <2>2, <2>3, <2>4, <2>5
<1>7. ASSUME NEW q \in Remover, CutShuts(q) PROVE i \in active'[bus'[i]] \cup shut' \cup UNION {hit'[r] : r \in Remover}
  <2>1. PICK j \in hit[q] : shut' = shut \cup {j} /\ hit' = [hit EXCEPT ![q] = @ \ {j}]
    BY <1>7 DEF CutShuts
  <2>2. UNCHANGED <<ipc, bus, active>>
    BY <1>7 DEF CutShuts
  <2>3. ASSUME NEW r \in Remover, i \in hit[r] PROVE i \in hit'[r] \/ i \in shut'
    BY <1>0, <2>1, <2>3 DEF ServerTypeOK
  <2> QED
    BY <1>1, <2>1, <2>2, <2>3
<1>8. ASSUME NEW j \in Import, ImportMatches(j) \/ ImportRefused(j) \/ ImportLeaves(j) \/ ImportCloses(j)
      PROVE  UNCHANGED <<bus, active, shut, hit>> /\ ipc[i] = "loop"
  BY <1>0, <1>8 DEF ImportMatches, ImportRefused, ImportLeaves, ImportCloses, Moves, ServerTypeOK
<1>9. ASSUME NEW b \in BusId, NEW q \in Remover, RemoveErases(q, b) \/ DetachBegins(q, b) \/ CutEnds(q) \/ AddDevice(b)
      PROVE  UNCHANGED <<bus, active, shut, hit>> /\ ipc[i] = "loop"
  BY <1>9 DEF RemoveErases, DetachBegins, CutEnds, AddDevice
<1>10. ASSUME NEW b \in BusId, AddDevice(b)
      PROVE  UNCHANGED <<bus, active, shut, hit>> /\ ipc[i] = "loop"
  BY <1>10 DEF AddDevice
<1>11. ASSUME NEW q \in Remover, CutEnds(q)
      PROVE  UNCHANGED <<bus, active, shut, hit>> /\ ipc[i] = "loop"
  BY <1>11 DEF CutEnds
<1>12. ASSUME ServerRests PROVE UNCHANGED <<bus, active, shut, hit>> /\ ipc[i] = "loop"
  BY <1>12 DEF ServerRests, serverVars
<1> QED
  BY <1>3, <1>4, <1>5, <1>6, <1>7, <1>8, <1>9, <1>10, <1>11, <1>12 DEF ServerNext, CutStep
----------------------------------------------------------------------------
LEMMA ServerInductive == ServerInv /\ [ServerNext]_serverVars => ServerInv'
<1>1. ASSUME ServerInv, ServerNext PROVE ServerInv'
  BY <1>1, ServerTypeStep, HandsStep, ReachStep DEF ServerInv
<1>2. ASSUME ServerInv, UNCHANGED serverVars PROVE ServerInv'
  BY <1>2 DEF serverVars, listVars, cutVars, ServerInv, ServerTypeOK, HandsEmpty, ImportsInReach
<1> QED
  BY <1>1, <1>2

\* Where every import that is served is, with what a removal has in hand.
THEOREM ServerInvariant == ServerSpec => []ServerInv
<1>1. ServerInit => ServerInv
  BY ServerBegins
<1> QED
  BY <1>1, ServerInductive, PTL DEF ServerSpec

\* shutdown_active_clients never loses an import on the way from the list to the
\* shutdown, whoever registers, unregisters or removes meanwhile.
THEOREM EveryImportInReach == ServerSpec => []ImportsInReach
<1>1. ServerInv => ImportsInReach
  BY DEF ServerInv
<1> QED
  BY <1>1, ServerInvariant, PTL
----------------------------------------------------------------------------
(* DeviceInput.                                                            *)

DeviceSizes == Cap \in Nat \ {0} /\ MaxReport \in Nat

LEMMA DeviceSizesHold == DeviceSizes
  BY InputAssumption DEF InputAssumption, DeviceSizes
----------------------------------------------------------------------------
(* The least of a set of reports.                                          *)

Less == OpToRel(<, Nat)

LEMMA LessIs == \A x, y \in Nat : <<x, y>> \in Less <=> x < y
  BY DEF Less, OpToRel

LEMMA LessIsWellFounded == IsWellFoundedOn(Less, Nat)
  BY NatLessThanWellFounded DEF Less

\* A set of reports that is not empty has a least one, whatever its size.
LEMMA LeastIs ==
  ASSUME NEW S, S \subseteq Nat, S # {}
  PROVE  Least(S) \in S /\ \A m \in S : Least(S) <= m
<1>1. PICK n \in S : \A m \in S : <<m, n>> \notin Less
  BY LessIsWellFounded, WFMin
<1>2. ASSUME NEW m \in S PROVE n <= m
  <2>1. m \in Nat /\ n \in Nat
    OBVIOUS
  <2>2. ~(m < n)
    BY <1>1, <2>1, LessIs
  <2> QED
    BY <2>1, <2>2
<1> QED
  BY <1>2 DEF Least

\* What is trimmed is the pad's, and trimming adds nothing.
LEMMA TrimmedKeeps ==
  ASSUME NEW q \in SUBSET Nat, NEW p
  PROVE  Trimmed(q, p) \subseteq q /\ q \cap p \subseteq Trimmed(q, p)
<1>1. q \ p # {} => Least(q \ p) \in q \ p
  BY LeastIs
<1> QED
  BY <1>1 DEF Trimmed

\* One report over the cap, and one trimmed.
LEMMA TrimmedHolds ==
  ASSUME NEW q \in SUBSET Nat, NEW p, NEW n \in Nat, IsFiniteSet(q),
         Cardinality(q) <= Cap \/ q \subseteq p
  PROVE  \/ Cardinality(Trimmed(q \cup {n}, p)) <= Cap
         \/ Trimmed(q \cup {n}, p) \subseteq p
<1> DEFINE r == q \cup {n}
<1>1. /\ IsFiniteSet(r) /\ Cardinality(r) \in Nat /\ Cardinality(q) \in Nat
      /\ Cardinality(r) <= Cardinality(q) + 1
  <2>1. IsFiniteSet(r) /\ Cardinality(r) = IF n \in q THEN Cardinality(q) ELSE Cardinality(q) + 1
    BY FS_AddElement
  <2>2. Cardinality(r) \in Nat /\ Cardinality(q) \in Nat
    BY <2>1, FS_CardinalityType
  <2> QED
    BY <2>1, <2>2
<1>2. Cap \in Nat
  BY DeviceSizesHold DEF DeviceSizes
<1>3. CASE Cardinality(r) <= Cap
  BY <1>1, <1>2, <1>3 DEF Trimmed
<1>4. CASE r \ p = {}
  BY <1>4 DEF Trimmed
<1>5. CASE Cardinality(r) > Cap /\ r \ p # {}
  <2>1. Least(r \ p) \in r \ p
    BY <1>5, LeastIs
  <2>2. Trimmed(r, p) = r \ {Least(r \ p)}
    BY <1>5 DEF Trimmed
  <2>3. CASE q \subseteq p
    <3>1. Least(r \ p) = n
      BY <2>1, <2>3
    <3> QED
      BY <2>2, <2>3, <3>1
  <2>4. CASE Cardinality(q) <= Cap
    <3>1. Cardinality(r \ {Least(r \ p)}) = Cardinality(r) - 1
      <4> DEFINE x == Least(r \ p)
      <4> HIDE DEF x
      <4>1. x \in r
        BY <2>1 DEF x
      <4>2. Cardinality(r \ {x}) = Cardinality(r) - 1
        BY <1>1, <4>1, FS_RemoveElement
      <4> QED
        BY <4>2 DEF x
    <3>2. Cardinality(r) - 1 <= Cap
      BY <1>1, <1>2, <2>4
    <3> QED
      BY <2>2, <3>1, <3>2
  <2> QED
    BY <2>3, <2>4
<1> QED
  BY <1>1, <1>2, <1>3, <1>4, <1>5
----------------------------------------------------------------------------
(* The types.                                                              *)

\* Reports are numbers below the next one.
LEMMA Numbered ==
  ASSUME TypeOK
  PROVE  /\ sequence \in Nat /\ sequence <= MaxReport /\ MaxReport \in Nat
         /\ \A n \in pending \cup priority : n \in Nat /\ 1 <= n /\ n <= sequence
         /\ pending \subseteq Nat
<1>1. sequence \in Nat /\ sequence <= MaxReport /\ MaxReport \in Nat
  BY DeviceSizesHold DEF DeviceSizes, TypeOK
<1>2. ASSUME NEW n \in pending \cup priority PROVE n \in Nat /\ 1 <= n /\ n <= sequence
  BY <1>1, <1>2 DEF TypeOK
<1> QED
  BY <1>1, <1>2

\* A poll that is answered from the queue takes something that is in it.
LEMMA FirstMatches ==
  ASSUME TypeOK, NEW e \in Endpoint, Matching(e) # {}
  PROVE  /\ First(e) \in Matching(e)
         /\ Matching(e) \cap priority # {} => First(e) \in priority
         /\ First(e) \in priority => \A n \in Matching(e) \cap priority : First(e) <= n
<1>1. Matching(e) \subseteq Nat
  BY Numbered DEF Matching
<1>2. CASE Matching(e) \cap priority # {}
  <2>1. First(e) = Least(Matching(e) \cap priority)
    BY <1>2 DEF First
  <2> QED
    BY <1>1, <1>2, <2>1, LeastIs
<1>3. CASE Matching(e) \cap priority = {}
  <2>1. First(e) = Least(Matching(e))
    BY <1>3 DEF First
  <2> QED
    BY <1>1, <1>3, <2>1, LeastIs
<1> QED
  BY <1>2, <1>3

LEMMA DeviceTypeStep == ASSUME TypeOK, Next PROVE TypeOK'
<1>0. sequence \in Nat /\ MaxReport \in Nat /\ pending \subseteq Nat
  BY Numbered
<1>1. ASSUME sequence < MaxReport, sequence' = sequence + 1,
             pending' \subseteq pending \cup {sequence + 1},
             priority' \subseteq priority \cup {sequence + 1},
             latest' \in {latest, sequence + 1}, UNCHANGED <<to, delivered, served>>
      PROVE  TypeOK'
  <2>1. /\ 0..sequence \subseteq 0..sequence' /\ 1..sequence \subseteq 1..sequence'
        /\ sequence + 1 \in 1..sequence' /\ sequence' \in 0..MaxReport
        /\ 1..sequence' \subseteq 0..sequence'
    BY <1>0, <1>1
  <2>2. pending' \subseteq 1..sequence' /\ priority' \subseteq 1..sequence' /\ latest' \in 0..sequence'
    BY <1>1, <2>1 DEF TypeOK
  <2>3. /\ delivered' \in [Endpoint -> 0..sequence']
        /\ served' \in [Endpoint -> SUBSET (1..sequence')]
        /\ to' \in [Report -> Endpoint]
    BY <1>1, <2>1 DEF TypeOK
  <2> QED
    BY <2>1, <2>2, <2>3 DEF TypeOK
<1>2. CASE PadReports
  <2>1. pending' \subseteq pending \cup {sequence + 1}
    BY <1>0, <1>2, TrimmedKeeps DEF PadReports
  <2> QED
    BY <1>1, <1>2, <2>1 DEF PadReports
<1>3. CASE MapReports
  <2>1. pending' \subseteq pending \cup {sequence + 1}
    BY <1>0, <1>3, TrimmedKeeps DEF MapReports
  <2> QED
    BY <1>1, <1>3, <2>1 DEF MapReports
<1>4. ASSUME NEW e \in Endpoint, ServeQueued(e) PROVE TypeOK'
  <2>1. First(e) \in pending
    BY <1>4, FirstMatches DEF ServeQueued, Matching
  <2>2. First(e) \in 1..sequence /\ First(e) \in 0..sequence
    <3>1. First(e) \in Nat /\ 1 <= First(e) /\ First(e) <= sequence
      BY <2>1, Numbered
    <3> QED
      BY <1>0, <3>1
  <2> QED
    BY <1>4, <2>2 DEF ServeQueued, TypeOK
<1>5. ASSUME NEW e \in Endpoint, ServeLatest(e) PROVE TypeOK'
  <2>1. latest \in 1..sequence /\ LatestMark \in 0..sequence
    BY <1>0, <1>5 DEF ServeLatest, LatestDue, LatestMark, TypeOK
  <2> QED
    BY <1>5, <2>1 DEF ServeLatest, TypeOK
<1>6. CASE Quiet
  BY <1>6 DEF Quiet, vars, TypeOK
<1> QED
  BY <1>2, <1>3, <1>4, <1>5, <1>6 DEF Next, Serve
----------------------------------------------------------------------------
(* The map's packets.                                                      *)

\* Until the host has it, a packet of the map is where a poll finds it.
Kept(n) == n \in served[to[n]] \/ (n \in pending /\ n > delivered[to[n]])

LEMMA PendingKeeps ==
  ASSUME TypeOK, MapPacketsKept, UNCHANGED <<to, delivered, served>>,
         priority \cap pending \subseteq pending',
         \A n \in priority' \ priority : n \in pending' /\ n > delivered[to[n]]
  PROVE  MapPacketsKept'
  BY DEF MapPacketsKept

LEMMA KeptStep == ASSUME TypeOK, MapPacketsKept, Next PROVE MapPacketsKept'
<1> USE DeviceSizesHold DEF DeviceSizes
<1>0. sequence \in Nat
  BY DEF TypeOK
<1>1. CASE PadReports
  <2>1. priority \cap pending \subseteq pending'
    BY <1>0, <1>1, TrimmedKeeps DEF PadReports, TypeOK
  <2> QED
    BY <1>1, <2>1, PendingKeeps DEF PadReports
<1>2. CASE MapReports
  <2>1. (pending \cup {sequence + 1}) \cap priority' \subseteq pending'
    BY <1>0, <1>2, TrimmedKeeps DEF MapReports, TypeOK
  <2>2. sequence + 1 \in Report
    BY <1>0, <1>2 DEF MapReports, Report
  <2>3. sequence + 1 > delivered[to[sequence + 1]]
    BY <1>0, <2>2 DEF TypeOK
  <2> QED
    BY <1>2, <2>1, <2>3, PendingKeeps DEF MapReports
<1>3. ASSUME NEW e \in Endpoint, ServeQueued(e) PROVE MapPacketsKept'
  <2>1. /\ First(e) \in Matching(e)
        /\ Matching(e) \cap priority # {} => First(e) \in priority
        /\ First(e) \in priority => \A n \in Matching(e) \cap priority : First(e) <= n
    BY <1>3, FirstMatches DEF ServeQueued
  <2>2. /\ served' = [served EXCEPT ![e] = @ \cup {First(e)}]
        /\ delivered' = [delivered EXCEPT ![e] = First(e)]
        /\ pending' = pending \ {First(e)} /\ UNCHANGED <<to, priority>>
    BY <1>3 DEF ServeQueued
  <2> SUFFICES ASSUME NEW n \in priority PROVE Kept(n)'
    BY <2>2 DEF MapPacketsKept, Kept
  <2>3. Kept(n) /\ n \in Nat /\ n \in Report /\ to[n] \in Endpoint
    BY <1>0 DEF MapPacketsKept, Kept, TypeOK, Report
  <2>4. CASE n \in served[to[n]]
    BY <2>2, <2>3, <2>4 DEF Kept, TypeOK
  <2>5. CASE to[n] # e /\ n \notin served[to[n]]
    BY <2>1, <2>2, <2>3, <2>5 DEF Kept, Matching, TypeOK
  <2>6. CASE to[n] = e /\ n \notin served[to[n]]
    <3>1. n \in Matching(e) \cap priority
      BY <2>3, <2>6 DEF Kept, Matching
    <3>2. First(e) <= n /\ First(e) \in Nat
      <4>1. First(e) \in priority
        BY <2>1, <3>1
      <4>2. First(e) <= n
        BY <2>1, <3>1, <4>1
      <4> QED
        BY <4>1, <4>2, Numbered
    <3> QED
      BY <2>2, <2>3, <2>6, <3>1, <3>2 DEF Kept, TypeOK, Matching
  <2> QED
    BY <2>4, <2>5, <2>6
<1>4. ASSUME NEW e \in Endpoint, ServeLatest(e) PROVE MapPacketsKept'
  <2>1. /\ served' = [served EXCEPT ![e] = @ \cup {latest}]
        /\ delivered' = [delivered EXCEPT ![e] = LatestMark]
        /\ Matching(e) = {} /\ UNCHANGED <<to, priority, pending>>
    BY <1>4 DEF ServeLatest
  <2> SUFFICES ASSUME NEW n \in priority PROVE Kept(n)'
    BY <2>1 DEF MapPacketsKept, Kept
  <2>2. Kept(n) /\ n \in Nat /\ to[n] \in Endpoint
    BY <1>0 DEF MapPacketsKept, Kept, TypeOK, Report
  <2>3. to[n] = e => n \in served[e]
    BY <2>1, <2>2 DEF Kept, Matching
  <2> QED
    BY <2>1, <2>2, <2>3 DEF Kept, TypeOK
<1>5. CASE Quiet
  BY <1>5 DEF Quiet, vars, MapPacketsKept
<1> QED
  BY <1>1, <1>2, <1>3, <1>4, <1>5 DEF Next, Serve
----------------------------------------------------------------------------
(* The cap.                                                                *)

LEMMA PendingFinite == ASSUME TypeOK PROVE IsFiniteSet(pending)
<1>1. 1 \in Int /\ sequence \in Int /\ pending \in SUBSET (1..sequence)
  BY Numbered DEF TypeOK
<1>2. IsFiniteSet(1..sequence)
  BY <1>1, FS_Interval
<1> QED
  BY <1>1, <1>2, FS_Subset

LEMMA CapStep == ASSUME TypeOK, CapHolds, Next PROVE CapHolds'
<1>0. sequence + 1 \in Nat /\ pending \subseteq Nat /\ IsFiniteSet(pending)
  BY Numbered, PendingFinite
<1>1. CASE PadReports
  <2>1. Cardinality(pending) <= Cap \/ pending \subseteq priority
    BY DEF CapHolds
  <2>2. pending' = Trimmed(pending \cup {sequence + 1}, priority) /\ priority' = priority
    BY <1>1 DEF PadReports
  <2>3. \/ Cardinality(Trimmed(pending \cup {sequence + 1}, priority)) <= Cap
        \/ Trimmed(pending \cup {sequence + 1}, priority) \subseteq priority
    BY <1>0, <2>1, TrimmedHolds
  <2> QED
    BY <2>2, <2>3 DEF CapHolds
<1>2. CASE MapReports
  <2> DEFINE p == priority \cup {sequence + 1}
  <2>1. Cardinality(pending) <= Cap \/ pending \subseteq p
    BY DEF CapHolds
  <2>2. pending' = Trimmed(pending \cup {sequence + 1}, p) /\ priority' = p
    BY <1>2 DEF MapReports
  <2> HIDE DEF p
  <2>3. \/ Cardinality(Trimmed(pending \cup {sequence + 1}, p)) <= Cap
        \/ Trimmed(pending \cup {sequence + 1}, p) \subseteq p
    BY <1>0, <2>1, TrimmedHolds
  <2> QED
    BY <2>2, <2>3 DEF CapHolds
<1>3. ASSUME pending' \subseteq pending, priority' = priority PROVE CapHolds'
  <2>1. Cardinality(pending') <= Cardinality(pending) /\ Cardinality(pending') \in Nat
        /\ Cardinality(pending) \in Nat
    BY <1>0, <1>3, FS_Subset, FS_CardinalityType
  <2> QED
    BY <1>3, <2>1, DeviceSizesHold DEF DeviceSizes, CapHolds
<1>4. ASSUME NEW e \in Endpoint, Serve(e) PROVE CapHolds'
  BY <1>3, <1>4 DEF Serve, ServeQueued, ServeLatest
<1>5. CASE Quiet
  BY <1>3, <1>5 DEF Quiet, vars
<1> QED
  BY <1>1, <1>2, <1>4, <1>5 DEF Next
----------------------------------------------------------------------------
(* The order.                                                              *)

AnnounceStep ==
    \A e \in Endpoint :
        served'[e] # served[e] /\ Matching(e) \cap priority # {}
            => served'[e] \ served[e] \subseteq priority

LEMMA AnnounceKept == ASSUME TypeOK, Next PROVE AnnounceStep
<1>1. ASSUME NEW e \in Endpoint, ServeQueued(e) PROVE AnnounceStep
  <2>1. Matching(e) \cap priority # {} => First(e) \in priority
    BY <1>1, FirstMatches DEF ServeQueued
  <2>2. served' = [served EXCEPT ![e] = @ \cup {First(e)}]
    BY <1>1 DEF ServeQueued
  <2> QED
    BY <2>1, <2>2 DEF AnnounceStep, TypeOK
<1>2. ASSUME NEW e \in Endpoint, ServeLatest(e) PROVE AnnounceStep
  BY <1>2 DEF ServeLatest, AnnounceStep, TypeOK
<1>3. CASE UNCHANGED served
  BY <1>3 DEF AnnounceStep
<1> QED
  BY <1>1, <1>2, <1>3 DEF Next, PadReports, MapReports, Serve, Quiet, vars
----------------------------------------------------------------------------
(* The theorems.                                                           *)

DeviceInv == TypeOK /\ MapPacketsKept /\ CapHolds

LEMMA DeviceBegins == ASSUME Init PROVE DeviceInv
<1>1. TypeOK
  BY DeviceSizesHold DEF DeviceSizes, Init, TypeOK
<1>2. MapPacketsKept
  BY DEF Init, MapPacketsKept
<1>3. CapHolds
  BY DEF Init, CapHolds
<1> QED
  BY <1>1, <1>2, <1>3 DEF DeviceInv

LEMMA DeviceInductive == DeviceInv /\ [Next]_vars => DeviceInv'
<1>1. ASSUME DeviceInv, Next PROVE DeviceInv'
  BY <1>1, DeviceTypeStep, KeptStep, CapStep DEF DeviceInv
<1>2. ASSUME DeviceInv, UNCHANGED vars PROVE DeviceInv'
  BY <1>2 DEF vars, DeviceInv, TypeOK, MapPacketsKept, CapHolds
<1> QED
  BY <1>1, <1>2

\* The queue's types, the map's packets and the cap, together.
THEOREM DeviceInvariant == Spec => []DeviceInv
<1>1. Init => DeviceInv
  BY DeviceBegins
<1> QED
  BY <1>1, DeviceInductive, PTL DEF Spec

\* enqueue_input_report and handle_interrupt_in keep every handshake packet for
\* its endpoint until the host has it, for every cap.
THEOREM HandshakeKept == Spec => []MapPacketsKept
<1>1. DeviceInv => MapPacketsKept
  BY DEF DeviceInv
<1> QED
  BY <1>1, DeviceInvariant, PTL

\* The cap of pendingInputReports_ holds but for handshake packets.
THEOREM CapIsKept == Spec => []CapHolds
<1>1. DeviceInv => CapHolds
  BY DEF DeviceInv
<1> QED
  BY <1>1, DeviceInvariant, PTL

\* No poll of an endpoint is answered with the pad's input while a handshake
\* packet waits for it.
THEOREM AnnouncesFirst == Spec => AnnounceBeforeInput
<1>1. DeviceInv /\ [Next]_vars => [AnnounceStep]_vars
  <2>1. ASSUME DeviceInv, Next PROVE AnnounceStep
    BY <2>1, AnnounceKept DEF DeviceInv
  <2> QED
    BY <2>1
<1>2. AnnounceBeforeInput <=> [][AnnounceStep]_vars
  BY DEF AnnounceBeforeInput, AnnounceStep
<1> QED
  BY <1>1, <1>2, DeviceInvariant, PTL DEF Spec

\* The device loses no packet of the handshake, and queues no more of the rest than its cap
\* (device.inl, queue_input and handle_endpoint_in).
THEOREM PacketsKept == Spec => []PacketsHold
<1>1. (MapPacketsKept /\ CapHolds) => PacketsHold
  BY DEF PacketsHold
<1>2. QED
  BY HandshakeKept, CapIsKept, <1>1, PTL
----------------------------------------------------------------------------
(* InputQueue.                                                             *)

LEMMA QueueSizes == InputCap \in Nat \ {0} /\ MaxInput \in Nat
  BY QueueAssumption DEF QueueAssumption

\* What waits are some of the reports received, whatever their number.
LEMMA InputsAre ==
  ASSUME InputTypeOK
  PROVE  /\ received \in Nat /\ received <= MaxInput /\ inputs \subseteq Nat
         /\ \A n \in inputs : 1 <= n /\ n <= received
         /\ IsFiniteSet(inputs) /\ Cardinality(inputs) \in Nat
<1>1. received \in Nat /\ received <= MaxInput /\ received \in Int
  BY QueueSizes DEF InputTypeOK
<1>2. inputs \subseteq Nat /\ \A n \in inputs : 1 <= n /\ n <= received
  BY <1>1 DEF InputTypeOK
<1>3. IsFiniteSet(inputs)
  <2>1. IsFiniteSet(1..received)
    BY <1>1, FS_Interval
  <2> QED
    BY <2>1, FS_Subset DEF InputTypeOK
<1>4. Cardinality(inputs) \in Nat
  BY <1>3, FS_CardinalityType
<1> QED
  BY <1>1, <1>2, <1>3, <1>4

LEMMA FrontIs == ASSUME InputTypeOK, inputs # {} PROVE Front \in inputs
<1>1. Front = Least(inputs)
  BY DEF Front, Least
<1> QED
  BY <1>1, InputsAre, LeastIs

\* A full queue makes room before it takes one more.
LEMMA QueuedFits ==
  ASSUME InputTypeOK
  PROVE  /\ Queued(received + 1) \subseteq 1..(received + 1)
         /\ Cardinality(Queued(received + 1)) <= InputCap
<1> DEFINE n == received + 1
           kept == IF Cardinality(inputs) >= InputCap THEN inputs \ {Front} ELSE inputs
<1>1. kept \subseteq inputs /\ IsFiniteSet(kept)
  BY InputsAre, FS_Subset
<1>2. n \notin kept /\ n \in Nat
  BY <1>1, InputsAre
<1>3. Cardinality(kept) \in Nat /\ Cardinality(kept) + 1 <= InputCap
  <2>1. CASE Cardinality(inputs) < InputCap
    <3>1. kept = inputs
      BY <2>1, InputsAre, QueueSizes
    <3> QED
      BY <2>1, <3>1, InputsAre, QueueSizes
  <2>2. CASE Cardinality(inputs) >= InputCap
    <3>1. Cardinality(inputs) = InputCap
      BY <2>2, InputsAre, QueueSizes DEF InputTypeOK
    <3>2. inputs # {}
      BY <3>1, QueueSizes, FS_EmptySet
    <3>3. Front \in inputs
      BY <3>2, FrontIs
    <3>4. Cardinality(inputs \ {Front}) = Cardinality(inputs) - 1
      BY <3>3, InputsAre, FS_RemoveElement
    <3> QED
      BY <2>2, <3>1, <3>4, QueueSizes
  <2> QED
    BY <2>1, <2>2, InputsAre, QueueSizes
<1>4. Cardinality(kept \cup {n}) = Cardinality(kept) + 1
  BY <1>1, <1>2, FS_AddElement
<1>5. Queued(n) = kept \cup {n}
  BY DEF Queued
<1>6. kept \cup {n} \subseteq 1..n
  BY <1>1, <1>2, InputsAre
<1> QED
  BY <1>3, <1>4, <1>5, <1>6

\* What is taken off the front is a report, and what stays fits.
LEMMA TakenFits ==
  ASSUME InputTypeOK, inputs # {}
  PROVE  /\ Front \in 0..received /\ inputs \ {Front} \subseteq 1..received
         /\ Cardinality(inputs \ {Front}) <= InputCap
<1>1. Front \in inputs
  BY FrontIs
<1>2. Cardinality(inputs \ {Front}) = Cardinality(inputs) - 1
  BY <1>1, InputsAre, FS_RemoveElement
<1> QED
  BY <1>1, <1>2, InputsAre, QueueSizes DEF InputTypeOK

LEMMA InputStep == ASSUME InputTypeOK, [InputNext]_inputVars PROVE InputTypeOK'
<1> USE QueueSizes DEF InputTypeOK
<1>1. CASE ReaderQueues
  <2>1. received + 1 \in 0..MaxInput
    BY <1>1, InputsAre DEF ReaderQueues
  <2>2. hand \in 0..(received + 1) /\ reached \in 0..(received + 1)
    BY InputsAre
  <2>3. received' = received + 1 /\ inputs' = Queued(received + 1) /\ rpc' = "notify"
        /\ UNCHANGED <<wpc, spc, hand, reached, on, gstop, missed>>
    BY <1>1 DEF ReaderQueues
  <2> QED
    BY <2>1, <2>2, <2>3, QueuedFits
<1>2. CASE WorkerTakes
  BY <1>2, TakenFits DEF WorkerTakes
<1>3. CASE ReaderNotifies \/ ReaderEnds \/ WorkerTop \/ WorkerEnds \/ WorkerDozes \/ WorkerSleeps
           \/ WorkerGives
  BY <1>3 DEF ReaderNotifies, ReaderEnds, WorkerTop, WorkerEnds, WorkerDozes, WorkerSleeps,
              WorkerGives, Woken
<1>4. CASE StopBegins \/ StopStep \/ InputQuits
  BY <1>4 DEF StopBegins, StopStep, StopJoinsReader, StopNotifies, StopReturns, InputQuits, Woken
<1>5. CASE UNCHANGED inputVars
  BY <1>5 DEF inputVars
<1> QED
  BY <1>1, <1>2, <1>3, <1>4, <1>5 DEF InputNext, WorkerStep, InputRests

\* The bridge's queue never holds more than its capacity, and the report the worker has
\* taken is one the reader received (enqueue_input_report and input_worker_loop), for
\* every capacity.
THEOREM InputsFit == InputSpec => []InputTypeOK
<1>1. ASSUME InputInit PROVE InputTypeOK
  <2>1. Cardinality({}) = 0
    BY FS_EmptySet
  <2>2. received \in 0..MaxInput /\ inputs \subseteq 1..received /\ Cardinality(inputs) <= InputCap
    BY <1>1, <2>1, QueueSizes DEF InputInit
  <2>3. /\ rpc = "reading" /\ wpc = "top" /\ spc = "none" /\ hand \in 0..received
        /\ reached \in 0..received /\ {on, gstop, missed} \subseteq BOOLEAN
    <3>1. {on, gstop, missed} \subseteq BOOLEAN
      BY <1>1, Zenon DEF InputInit
    <3> QED
      BY <1>1, <3>1 DEF InputInit
  <2> QED
    BY <2>2, <2>3 DEF InputTypeOK
<1>2. InputTypeOK /\ [InputNext]_inputVars => InputTypeOK'
  BY InputStep
<1> QED
  BY <1>1, <1>2, PTL DEF InputSpec
----------------------------------------------------------------------------
(* MapStream.                                                              *)

StreamSpec == StreamInit /\ [][StreamNext]_streamVars

LEMMA StreamSizes == /\ MaxOutputs \in Nat /\ MaxLost \in Nat /\ Wrap \in Nat /\ Wrap > 0
                     /\ Output = 0..MaxOutputs /\ Chunk = {0, 1, 2}
  BY StreamAssumption DEF StreamAssumption, Output, Chunk

LEMMA WrapsInside == ASSUME NEW n \in 0..(Wrap - 1) PROVE Next1(n) \in 0..(Wrap - 1)
  BY StreamSizes DEF Next1

\* A build that ends early ends before it spends a number or signs.
LEMMA FailsBefore ==
  ASSUME program \in Programs, NEW fate \in Fate, fate # "none",
         NEW op \in Numbering \cup {"sign"}
  PROVE  op \notin Ran(fate)
<1>1. fate \in Failing /\ fate \in Ops
  BY DEF Fate
<1>2. PICK i \in 1..Len(program) : program[i] = fate
  BY <1>1 DEF Ops, OpsOf
<1>3. ASSUME op \in Ran(fate) PROVE FALSE
  <2>1. PICK j \in 1..Len(program) : program[j] = op
    BY <1>3 DEF Ran, Ops, OpsOf
  <2>2. i < j
    BY <1>1, <1>2, <2>1, ProgramAssumption DEF ProgramAssumption
  <2>3. i \in 1..j
    BY <2>2, StreamAssumption DEF StreamAssumption
  <2>4. op \in Skipped(fate)
    BY <1>2, <2>1, <2>3 DEF Skipped
  <2> QED
    BY <1>3, <2>4 DEF Ran
<1> QED
  BY <1>3

\* One that does not runs every operation of the map.
LEMMA RunsWhole ==
  ASSUME program \in Programs
  PROVE  /\ Ran("none") = Ops
         /\ AudioSources \cup {"audio_block"} \subseteq Ops /\ "sign" \in Ops
         /\ "haptic_block" \in Ops => HapticSources \cup {"haptic_block"} \subseteq Ops
<1>1. Ran("none") = Ops
  BY DEF Ran
<1>2. /\ {"speaker_pcm", "payload", "audio_block", "sign"} \subseteq Ops
      /\ "haptic_block" \in Ops => {"haptic_pcm", "haptic_s8"} \subseteq Ops
  BY ProgramAssumption DEF ProgramAssumption, Ops
<1> QED
  BY <1>1, <1>2 DEF AudioSources, HapticSources

\* Each number the map puts in its reports is that of the reports signed.
Abreast ==
    /\ "header" \in Ops => reportSequence = signed
    /\ "timing_block" \in Ops => audioSequence = signed
    /\ "frame_counter" \in Ops => frameCounter = signed
    /\ stateOf <= asked /\ built.state <= asked /\ copied <= asked

StreamInv == StreamTypeOK /\ Abreast /\ ReportsAreWhole

\* The effects e leave for the pad.
LEMMA SentKeeps ==
  ASSUME StreamTypeOK, NEW e \in 0..asked, Sent(e), asked' = asked
  PROVE  playing' \in 0..asked' /\ lost' \in 0..MaxLost
  BY StreamSizes DEF StreamTypeOK, Sent

\* What a block is filled from, if its operation and those before it ran.
LEMMA FillsEither ==
  ASSUME NEW ran, NEW op, NEW old, NEW new
  PROVE  Fills(ran, op, old, new) \in {old, new}
  BY DEF Fills

LEMMA SequencesStep ==
  ASSUME StreamTypeOK, NEW fate \in Fate, BuilderBuilds(fate)
  PROVE  /\ chunk' \in Chunk /\ chunk' = (chunk + 1) % 3
         /\ audioOf' \in Chunk /\ hapticOf' \in Chunk
         /\ stateOf' \in {stateOf, effects}
         /\ timeOf' \in 0..(Wrap - 1) /\ audioSequence' \in 0..(Wrap - 1)
         /\ reportSequence' \in 0..(Wrap - 1) /\ frameCounter' \in 0..(Wrap - 1)
         /\ signed' \in 0..(Wrap - 1)
<1>1. chunk' \in Chunk /\ chunk' = (chunk + 1) % 3
  BY StreamSizes DEF BuilderBuilds, StreamTypeOK
<1>2. audioOf' \in {audioOf, chunk'} /\ hapticOf' \in {hapticOf, chunk'}
  BY FillsEither DEF BuilderBuilds
<1>3. stateOf' \in {stateOf, effects}
  BY FillsEither DEF BuilderBuilds
<1>4. /\ timeOf' \in {timeOf, audioSequence} /\ audioSequence' \in {audioSequence, Next1(audioSequence)}
      /\ reportSequence' \in {reportSequence, Next1(reportSequence)}
      /\ frameCounter' \in {frameCounter, Next1(frameCounter)}
      /\ signed' \in {signed, Next1(signed)}
  BY FillsEither DEF BuilderBuilds
<1>5. /\ Next1(audioSequence) \in 0..(Wrap - 1) /\ Next1(reportSequence) \in 0..(Wrap - 1)
      /\ Next1(frameCounter) \in 0..(Wrap - 1) /\ Next1(signed) \in 0..(Wrap - 1)
  BY WrapsInside DEF StreamTypeOK
<1> QED
  BY <1>1, <1>2, <1>3, <1>4, <1>5 DEF StreamTypeOK

\* A build that runs whole: every block is of its chunk, and every number is spent.
LEMMA BuildsWhole ==
  ASSUME StreamInv, BuilderBuilds("none")
  PROVE  /\ audioOf' = chunk' /\ ("haptic_block" \in Ops => hapticOf' = chunk')
         /\ "timing_block" \in Ops =>
               timeOf' = audioSequence /\ audioSequence' = Next1(audioSequence)
         /\ "header" \in Ops => reportSequence' = Next1(reportSequence)
         /\ "frame_counter" \in Ops => frameCounter' = Next1(frameCounter)
         /\ builderAt' = "built" /\ signed' = Next1(signed)
         /\ built' = Appends(audioOf', hapticOf', stateOf', timeOf')
<1>0. program \in Programs
  BY DEF StreamInv, StreamTypeOK
<1>1. /\ Ran("none") = Ops
      /\ AudioSources \cup {"audio_block"} \subseteq Ops /\ "sign" \in Ops
      /\ "haptic_block" \in Ops => HapticSources \cup {"haptic_block"} \subseteq Ops
  BY <1>0, RunsWhole
<1>2. /\ Sources["audio_block"] = AudioSources /\ Sources["haptic_block"] = HapticSources
      /\ Sources["timing_block"] = {} /\ Sources["header"] = {} /\ Sources["frame_counter"] = {}
  BY DEF Sources, StreamOp
<1> HIDE DEF Ran, Sources, AudioSources, HapticSources, Ops
<1> QED
  BY <1>1, <1>2 DEF BuilderBuilds, Fills, Signs

\* One that fails spends none and sends nothing.
LEMMA BuildsInPart ==
  ASSUME StreamInv, NEW fate \in Fate, fate # "none", BuilderBuilds(fate)
  PROVE  UNCHANGED <<seqVars, built, builderAt>>
<1>1. program \in Programs
  BY DEF StreamInv, StreamTypeOK
<1>2. /\ "timing_block" \notin Ran(fate) /\ "header" \notin Ran(fate)
      /\ "frame_counter" \notin Ran(fate) /\ "sign" \notin Ran(fate)
  BY <1>1, FailsBefore DEF Numbering
<1> HIDE DEF Ran
<1> QED
  BY <1>2 DEF BuilderBuilds, Fills, Signs, seqVars

LEMMA StreamTypeStep == ASSUME StreamInv, StreamNext PROVE StreamTypeOK'
<1>0. StreamTypeOK /\ stateOf <= asked /\ built.state <= asked /\ copied <= asked
  BY DEF StreamInv, Abreast
<1> USE DEF blockVars, seqVars, hostVars, jackVars
<1>1. CASE HostTranslates
  <2>1. asked' = asked + 1 /\ effects' = asked + 1 /\ asked + 1 \in Output
    BY <1>0, <1>1, StreamSizes DEF HostTranslates, StreamTypeOK
  <2> QED
    BY <1>0, <1>1, <2>1, StreamSizes DEF HostTranslates, StreamTypeOK
<1>2. CASE HostKeeps
  BY <1>0, <1>2, StreamSizes DEF HostKeeps, Keeps, StreamTypeOK
<1>3. CASE HostSends
  <2>1. playing' \in 0..asked' /\ lost' \in 0..MaxLost
    BY <1>0, <1>3, SentKeeps DEF HostSends, StreamTypeOK
  <2> QED
    BY <1>0, <1>3, <2>1 DEF HostSends, StreamTypeOK
<1>4. ASSUME NEW plugged \in BOOLEAN, NEW translated \in BOOLEAN, PadTells(plugged, translated)
      PROVE  StreamTypeOK'
  <2>1. route \in BOOLEAN
    BY <1>0, Zenon DEF StreamTypeOK
  <2>2. route' \in BOOLEAN /\ jack' \in BOOLEAN
    BY <1>4, <2>1, Zenon DEF PadTells, RouteOf
  <2>3. UNCHANGED <<program, hostVars, playing, lost, builderAt, blockVars, seqVars, built, copied>>
    BY <1>4 DEF PadTells
  <2> QED
    BY <1>0, <2>2, <2>3 DEF StreamTypeOK
<1>5. ASSUME NEW fate \in Fate, BuilderBuilds(fate) PROVE StreamTypeOK'
  <2>1. /\ {chunk, audioOf, hapticOf}' \subseteq Chunk /\ stateOf' \in Output
        /\ {reportSequence, audioSequence, frameCounter, signed, timeOf}' \subseteq 0..(Wrap - 1)
    <3>1. /\ chunk' \in Chunk /\ audioOf' \in Chunk /\ hapticOf' \in Chunk
          /\ stateOf' \in {stateOf, effects}
          /\ timeOf' \in 0..(Wrap - 1) /\ audioSequence' \in 0..(Wrap - 1)
          /\ reportSequence' \in 0..(Wrap - 1) /\ frameCounter' \in 0..(Wrap - 1)
          /\ signed' \in 0..(Wrap - 1)
      BY <1>0, <1>5, SequencesStep
    <3>2. stateOf \in Output /\ effects \in Output
      BY <1>0, StreamSizes DEF StreamTypeOK
    <3> QED
      BY <3>1, <3>2
  <2>2. builderAt' \in {"waits", "built"}
    BY <1>5 DEF BuilderBuilds
  <2>3. built' \in [chunk : Chunk, haptic : Chunk, state : Output,
                    seq : 0..(Wrap - 1), time : 0..(Wrap - 1), frame : 0..(Wrap - 1)]
    <3>1. built' \in {built, Appends(audioOf', hapticOf', stateOf', timeOf')}
      BY <1>5 DEF BuilderBuilds
    <3> QED
      BY <1>0, <2>1, <3>1 DEF StreamTypeOK, Appends
  <2>4. UNCHANGED <<jackVars, hostVars, playing, lost, copied>>
    BY <1>5 DEF BuilderBuilds
  <2> QED
    BY <1>0, <2>1, <2>2, <2>3, <2>4 DEF StreamTypeOK
<1>6. CASE BuilderSends
  <2>1. built.state \in 0..asked /\ playing \in 0..asked
    BY <1>0, StreamSizes DEF StreamTypeOK
  <2>2. playing' \in 0..asked' /\ lost' \in 0..MaxLost
    <3> DEFINE said == IF "state_block" \in Ops THEN built.state ELSE playing
    <3>1. said \in 0..asked /\ Sent(said) /\ asked' = asked
      BY <1>6, <2>1 DEF BuilderSends
    <3> HIDE DEF said
    <3> QED
      BY <1>0, <3>1, SentKeeps
  <2> QED
    BY <1>0, <1>6, <2>2 DEF BuilderSends, StreamTypeOK
<1>7. CASE BuilderCopies
  BY <1>0, <1>7, StreamSizes DEF BuilderCopies, StreamTypeOK
<1>8. CASE BuilderRepeats
  <2>1. copied \in 0..asked
    BY <1>0, StreamSizes DEF StreamTypeOK
  <2>2. playing' \in 0..asked' /\ lost' \in 0..MaxLost
    BY <1>0, <1>8, <2>1, SentKeeps DEF BuilderRepeats
  <2> QED
    BY <1>0, <1>8, <2>2 DEF BuilderRepeats, StreamTypeOK
<1> QED
  BY <1>1, <1>2, <1>3, <1>4, <1>5, <1>6, <1>7, <1>8 DEF StreamNext, HostRuns

LEMMA AbreastStep == ASSUME StreamInv, StreamNext PROVE Abreast' /\ ReportsAreWhole'
<1>0. StreamTypeOK /\ Abreast /\ ReportsAreWhole
  BY DEF StreamInv
<1> USE DEF blockVars, seqVars, hostVars, jackVars
<1>1. CASE HostTranslates
  BY <1>0, <1>1, StreamSizes DEF HostTranslates, StreamTypeOK, Abreast, ReportsAreWhole, Ops
<1>2. CASE HostKeeps \/ HostSends \/ BuilderSends \/ BuilderRepeats
  BY <1>0, <1>2 DEF HostKeeps, HostSends, BuilderSends, BuilderRepeats, Abreast, ReportsAreWhole,
                    Ops
<1>3. ASSUME NEW plugged \in BOOLEAN, NEW translated \in BOOLEAN, PadTells(plugged, translated)
      PROVE  Abreast' /\ ReportsAreWhole'
  BY <1>0, <1>3 DEF PadTells, RouteOf, Abreast, ReportsAreWhole, Ops
<1>4. CASE BuilderCopies
  BY <1>0, <1>4, StreamSizes DEF BuilderCopies, StreamTypeOK, Abreast, ReportsAreWhole, Ops
<1>5. ASSUME NEW fate \in Fate, BuilderBuilds(fate) PROVE Abreast' /\ ReportsAreWhole'
  <2>1. UNCHANGED <<asked, copied, route, jack, program>> /\ stateOf' \in {stateOf, effects}
    BY <1>0, <1>5, SequencesStep DEF BuilderBuilds
  <2>2. stateOf' <= asked'
    BY <1>0, <2>1, StreamSizes DEF StreamTypeOK, Abreast
  <2>3. CASE fate = "none"
    <3>1. /\ built'.chunk = chunk' /\ built'.seq = reportSequence
          /\ built'.time = timeOf' /\ built'.frame = frameCounter /\ built'.state = stateOf'
          /\ "haptic_block" \in Ops => built'.haptic = chunk'
          /\ "timing_block" \in Ops =>
                timeOf' = audioSequence /\ audioSequence' = Next1(audioSequence)
          /\ "header" \in Ops => reportSequence' = Next1(reportSequence)
          /\ "frame_counter" \in Ops => frameCounter' = Next1(frameCounter)
          /\ signed' = Next1(signed)
      BY <1>5, <2>3, BuildsWhole DEF Appends
    <3>2. Ops' = Ops
      BY <2>1 DEF Ops
    <3> HIDE DEF Ops
    <3> QED
      BY <1>0, <2>1, <2>2, <3>1, <3>2, Zenon DEF Abreast, ReportsAreWhole, Next1
  <2>4. CASE fate # "none"
    <3>1. UNCHANGED <<seqVars, built, builderAt>>
      BY <1>5, <2>4, BuildsInPart
    <3>2. builderAt = "waits"
      BY <1>5 DEF BuilderBuilds
    <3>3. Ops' = Ops
      BY <2>1 DEF Ops
    <3> HIDE DEF Ops
    <3> QED
      BY <1>0, <2>1, <2>2, <3>1, <3>2, <3>3 DEF Abreast, ReportsAreWhole, seqVars
  <2> QED
    BY <2>3, <2>4
<1> QED
  BY <1>1, <1>2, <1>3, <1>4, <1>5 DEF StreamNext, HostRuns

\* A report that leaves for the pad is of one chunk of sound and has the next of each
\* number its map puts in it, however many builds failed and however the host's reports
\* fell between (execute_stream_ops), for every map that encodes and signs its reports,
\* fills what haptic block it has, and does nothing that may fail after a number: both of
\* the repository's that carry sound.
THEOREM StreamsWhole == StreamSpec => [](StreamTypeOK /\ ReportsAreWhole)
<1>1. StreamInit => StreamInv
  <2>1. ASSUME StreamInit PROVE StreamTypeOK
    <3>1. route \in BOOLEAN /\ jack \in BOOLEAN
      BY <2>1, Zenon DEF StreamInit
    <3>2. built \in [chunk : Chunk, haptic : Chunk, state : Output,
                    seq : 0..(Wrap - 1), time : 0..(Wrap - 1), frame : 0..(Wrap - 1)]
      <4>1. 0 \in Chunk /\ 0 \in Output /\ 0 \in 0..(Wrap - 1)
        BY StreamSizes
      <4> QED
        BY <2>1, <4>1 DEF StreamInit, NoReport
    <3>3. /\ asked \in Output /\ effects \in 0..asked /\ remembered \in 0..effects
          /\ playing \in 0..asked /\ lost \in 0..MaxLost
          /\ hostAt = "idle" /\ builderAt = "waits" /\ copied \in Output
      BY <2>1, StreamSizes DEF StreamInit
    <3>4. /\ {chunk, audioOf, hapticOf} \subseteq Chunk /\ stateOf \in Output
          /\ {reportSequence, audioSequence, frameCounter, signed, timeOf} \subseteq 0..(Wrap - 1)
          /\ program \in Programs
      BY <2>1, StreamSizes DEF StreamInit
    <3> QED
      BY <3>1, <3>2, <3>3, <3>4 DEF StreamTypeOK
  <2>2. ASSUME StreamInit PROVE Abreast /\ ReportsAreWhole
    <3>1. route = jack
      BY <2>2, Zenon DEF StreamInit
    <3> QED
      BY <2>2, <3>1 DEF StreamInit, Abreast, ReportsAreWhole, NoReport
  <2> QED
    BY <2>1, <2>2 DEF StreamInv
<1>2. StreamInv /\ [StreamNext]_streamVars => StreamInv'
  <2>1. ASSUME StreamInv, StreamNext PROVE StreamInv'
    BY <2>1, StreamTypeStep, AbreastStep DEF StreamInv
  <2>2. ASSUME StreamInv, UNCHANGED streamVars PROVE StreamInv'
    BY <2>2 DEF streamVars, blockVars, seqVars, hostVars, jackVars, StreamInv, StreamTypeOK,
                Abreast, ReportsAreWhole, Ops
  <2> QED
    BY <2>1, <2>2
<1>3. StreamInv => StreamTypeOK /\ ReportsAreWhole
  BY DEF StreamInv
<1> QED
  BY <1>1, <1>2, <1>3, PTL DEF StreamSpec
----------------------------------------------------------------------------
(* ReportOverrides.                                                        *)

OverridesSpec == OverridesInit /\ [][OverridesNext]_overrideVars

LEMMA OverridesSizes ==
  /\ MaxRelinks \in Nat /\ MaxHostOut \in Nat
  /\ Keys \in [Section -> Settings] /\ AnySaid \in HostReport
  BY OverridesAssumption DEF OverridesAssumption, AnySaid

\* What is clamped lies between its bounds, and what lay there stays what it was.
LEMMA ClampedIs ==
  ASSUME NEW v \in Int, NEW low \in Int, NEW high \in Int, low <= high
  PROVE  /\ Clamped(v, low, high) \in low..high
         /\ v \in low..high => Clamped(v, low, high) = v
         /\ v > high => Clamped(v, low, high) = high
  BY DEF Clamped

LEMMA OrIs ==
  ASSUME NEW key \in Key, NEW default \in Nat
  PROVE  Or(key, default) \in Nat
  BY DEF Or, Key

LEMMA StrengthIs ==
  ASSUME NEW n \in Int
  PROVE  Strength(n) \in 1..7 /\ (n >= 1 => Strength(n) <= n)
  BY DEF Strength, Clamped

\* A place in the travel falls in a zone that begins before it.
LEMMA ZoneIs ==
  ASSUME NEW percent \in Nat
  PROVE  /\ ZoneFrom(percent) \in Zone /\ ZoneFrom(percent) * 10 <= percent
         /\ percent >= 40 => ZoneFrom(percent) >= 4
<1> DEFINE c == Clamped(percent, 0, 100)
<1>1. c \in 0..100 /\ c <= percent /\ (percent >= 40 => c >= 40)
  BY DEF Clamped
<1> HIDE DEF c
<1> DEFINE d == (c * 10) \div 100
<1>2. d \in Nat /\ d * 10 <= c /\ d <= 10 /\ (c >= 40 => d >= 4)
  BY <1>1
<1> HIDE DEF d
<1>3. ZoneFrom(percent) = Clamped(d, 0, 9)
  BY DEF ZoneFrom, c, d
<1>4. Clamped(d, 0, 9) \in Zone /\ Clamped(d, 0, 9) <= d /\ (d >= 4 => Clamped(d, 0, 9) >= 4)
  BY <1>2 DEF Clamped, Zone
<1> QED
  BY <1>1, <1>2, <1>3, <1>4 DEF Zone

\* The zones of an effect with two, which are two.
LEMMA TwoAre ==
  ASSUME NEW a \in Int, NEW b \in Int, a # b
  PROVE  Cardinality({a, b}) = 2
<1>1. IsFiniteSet({a}) /\ Cardinality({a}) = 1
  BY FS_Singleton
<1>2. Cardinality({a} \cup {b}) = 2
  BY <1>1, FS_AddElement
<1>3. {a} \cup {b} = {a, b}
  OBVIOUS
<1> QED
  BY <1>2, <1>3

LEMMA WeaponIs ==
  ASSUME NEW from \in Int, NEW to2 \in Int, NEW n \in Int
  PROVE  LET e == BuildWeapon(from, to2, n) IN
         /\ e \in Block /\ e.force >= 1 /\ e.wall = 0 /\ Cardinality(e.firm) = 2 /\ e.firm # {}
         /\ (from \in 2..8 /\ to2 = from + 1) => e.firm = {from, from + 1}
<1> DEFINE start == Clamped(from, 2, 8)
           end == Clamped(to2, start + 1, 9)
<1>1. start \in 2..8 /\ (from \in 2..8 => start = from)
  BY DEF Clamped
<1>2. end \in (start + 1)..9 /\ (to2 \in (start + 1)..9 => end = to2)
  BY <1>1 DEF Clamped
<1>3. Strength(n) \in 1..7
  BY StrengthIs
<1>4. BuildWeapon(from, to2, n) = Effect("weapon", {start, end}, Strength(n))
  BY DEF BuildWeapon
<1> HIDE DEF start, end
<1>5. Cardinality({start, end}) = 2
  BY <1>1, <1>2, TwoAre
<1>6. {start, end} \subseteq Zone
  BY <1>1, <1>2 DEF Zone
<1>7. Effect("weapon", {start, end}, Strength(n)) \in Block
  BY <1>3, <1>6 DEF Effect, Block
<1>8. (from \in 2..8 /\ to2 = from + 1) => {start, end} = {from, from + 1}
  BY <1>1, <1>2
<1> QED
  BY <1>3, <1>4, <1>5, <1>7, <1>8 DEF Effect

LEMMA SnapIs ==
  ASSUME NEW from \in Int, NEW to2 \in Int, NEW n \in Int, NEW snap \in Int
  PROVE  LET e == BuildSnap(from, to2, n, snap) IN
         e \in Block /\ e.force >= 1 /\ e.wall = 0 /\ e.firm # {}
<1> DEFINE start == Clamped(from, 0, 7)
           end == Clamped(to2, start + 1, 8)
           base == Effect("bow", {start, end}, Strength(n))
<1>1. start \in 0..7
  BY DEF Clamped
<1>2. end \in (start + 1)..8
  BY <1>1 DEF Clamped
<1>3. Strength(n) \in 1..7 /\ Strength(snap) \in 1..7
  BY StrengthIs
<1>4. BuildSnap(from, to2, n, snap) = [base EXCEPT !.snap = Strength(snap)]
  BY DEF BuildSnap
<1> HIDE DEF start, end
<1>5. {start, end} \subseteq Zone
  BY <1>1, <1>2 DEF Zone
<1> QED
  BY <1>3, <1>4, <1>5 DEF Effect, Block

\* A notch of more than the least strength is firmer than the wall it is in.
LEMMA DetentIs ==
  ASSUME NEW at2 \in Int, NEW n \in Nat
  PROVE  LET e == BuildDetentWall(at2, n) IN
         e \in Block /\ e.firm # {} /\ (n >= 2 => e.force > e.wall)
<1> DEFINE zone == Clamped(at2, 1, 9)
           force == Strength(n)
           third == force \div 3
           base == Effect("feedback", {zone}, force)
<1>1. zone \in Zone
  BY DEF Clamped, Zone
<1>2. force \in 1..7 /\ (n >= 2 => force >= 2)
  BY DEF Strength, Clamped
<1>3. BuildDetentWall(at2, n) = [base EXCEPT !.wall = Strength(third)]
  BY DEF BuildDetentWall
<1> HIDE DEF zone, force
<1>4. third \in 0..2 /\ third * 3 <= force
  BY <1>2
<1> HIDE DEF third
<1>5. Strength(third) \in 1..2 /\ (third >= 1 => Strength(third) = third) /\ (third = 0 => Strength(third) = 1)
  BY <1>4 DEF Strength, Clamped
<1>6. n >= 2 => force > Strength(third)
  BY <1>2, <1>4, <1>5
<1> QED
  BY <1>1, <1>2, <1>3, <1>5, <1>6 DEF Effect, Block

LEMMA FeedbackIs ==
  ASSUME NEW from \in Int, NEW n \in Int
  PROVE  LET e == BuildFeedback(from, n) IN
         e \in Block /\ e.force >= 1 /\ e.wall = 0 /\ e.firm # {}
<1> DEFINE start == Clamped(from, 0, 9)
<1>1. start \in 0..9
  BY DEF Clamped
<1>2. Strength(n) \in 1..7
  BY StrengthIs
<1>3. BuildFeedback(from, n) = Effect("feedback", start..9, Strength(n))
  BY DEF BuildFeedback
<1> HIDE DEF start
<1>4. start..9 \subseteq Zone /\ start..9 # {}
  BY <1>1 DEF Zone
<1> QED
  BY <1>2, <1>3, <1>4 DEF Effect, Block

\* What EffectsAreFelt says of one trigger, of any section.
Felt(s, side) ==
    LET e == ApplyOne(s, side) IN
    /\ e \in Block
    /\ (s.shape[side] \in {"absent", "off"}) <=> (e.firm = {})
    /\ (e.firm # {} /\ (s.shape[side] = "notch" => Or(s.strength, 5) >= 2))
          => e.force > e.wall
    /\ (s.shape[side] = "click" /\ Or(s.at, 50) >= 40)
          => /\ Cardinality(e.firm) = 2
             /\ \A z \in e.firm : (z + 1) * 10 <= Or(s.at, 50)

LEMMA TriggersFelt == ASSUME NEW s \in Settings, NEW side \in Side PROVE Felt(s, side)
<1> DEFINE at2 == Or(s.at, 50)
           zone == ZoneFrom(at2)
           n == Or(s.strength, 5)
           snap == Or(s.snap, 3)
           e == ApplyOne(s, side)
<1>1. at2 \in Nat /\ n \in Nat /\ snap \in Nat
  BY OrIs DEF Settings
<1>2. zone \in Zone /\ zone * 10 <= at2 /\ (at2 >= 40 => zone >= 4) /\ zone \in Int
  BY <1>1, ZoneIs DEF Zone
<1>3. s.shape[side] \in Shape
  BY DEF Settings
<1>4. CASE s.shape[side] = "click"
  <2>1. e = BuildWeapon(zone - 2, zone - 1, n)
    BY <1>4 DEF ApplyOne
  <2> DEFINE start == zone - 2
             end == zone - 1
  <2> HIDE DEF at2, zone, n, e
  <2>2. start \in Int /\ end \in Int /\ n \in Int /\ end = start + 1
    BY <1>1, <1>2
  <2> HIDE DEF start, end
  <2>3. /\ e \in Block /\ e.force >= 1 /\ e.wall = 0 /\ Cardinality(e.firm) = 2 /\ e.firm # {}
        /\ start \in 2..8 => e.firm = {start, start + 1}
    BY <2>1, <2>2, WeaponIs DEF start, end
  <2>4. at2 >= 40 => \A z \in e.firm : (z + 1) * 10 <= at2
    BY <1>1, <1>2, <2>3 DEF Zone, start
  <2>5. e.force > e.wall
    BY <2>3 DEF Block
  <2> QED
    BY <1>4, <2>3, <2>4, <2>5 DEF Felt, e, at2
<1>5. CASE s.shape[side] = "notch"
  <2>1. e = BuildDetentWall(zone, n)
    BY <1>5 DEF ApplyOne
  <2>2. e \in Block /\ e.firm # {} /\ (n >= 2 => e.force > e.wall)
    BY <1>1, <1>2, <2>1, DetentIs
  <2> HIDE DEF at2, zone
  <2> QED
    BY <1>5, <2>2 DEF Felt
<1>6. CASE s.shape[side] = "snap"
  <2>1. e = BuildSnap(zone - 1, zone, n, snap)
    BY <1>6 DEF ApplyOne
  <2>2. e \in Block /\ e.force >= 1 /\ e.wall = 0 /\ e.firm # {}
    <3>1. zone - 1 \in Int /\ zone \in Int /\ n \in Int /\ snap \in Int
      BY <1>1, <1>2
    <3> HIDE DEF zone, n, snap, e
    <3> QED
      BY <2>1, <3>1, SnapIs
  <2>3. e.force > e.wall
    BY <2>2 DEF Block
  <2> HIDE DEF at2, zone
  <2> QED
    BY <1>6, <2>2, <2>3 DEF Felt
<1>7. CASE s.shape[side] = "wall"
  <2>1. e = BuildFeedback(zone, n)
    BY <1>7 DEF ApplyOne
  <2>2. e \in Block /\ e.force >= 1 /\ e.wall = 0 /\ e.firm # {}
    <3>1. zone \in Int /\ n \in Int
      BY <1>1, <1>2
    <3> HIDE DEF zone, n, e
    <3> QED
      BY <2>1, <3>1, FeedbackIs
  <2>3. e.force > e.wall
    BY <2>2 DEF Block
  <2> HIDE DEF at2, zone
  <2> QED
    BY <1>7, <2>2, <2>3 DEF Felt
<1>8. CASE s.shape[side] \in {"absent", "off"}
  <2>1. e = BuildOff
    BY <1>8 DEF ApplyOne
  <2>2. BuildOff \in Block /\ BuildOff.firm = {}
    BY DEF BuildOff, Effect, Block, Zone
  <2> HIDE DEF at2, zone
  <2> QED
    BY <1>8, <2>1, <2>2 DEF Felt
<1> QED
  BY <1>3, <1>4, <1>5, <1>6, <1>7, <1>8 DEF Shape

\* Silence is nothing, and the least that is not is what the pad can play.
LEMMA VolumesAre ==
  ASSUME NEW s \in Settings
  PROVE  /\ s.output = "off" => SpeakerRaw(SpeakerLevel(s)) = 0 /\ HeadsetRaw(HeadsetLevel(s)) = 0
         /\ (s.speaker > 0 /\ SpeakerIsActive(s.output)) => SpeakerRaw(SpeakerLevel(s)) >= 61
<1>1. ASSUME s.output = "off"
      PROVE  SpeakerRaw(SpeakerLevel(s)) = 0 /\ HeadsetRaw(HeadsetLevel(s)) = 0
  BY <1>1 DEF SpeakerRaw, HeadsetRaw, RawFromPercent, SpeakerLevel, HeadsetLevel,
              SpeakerIsActive, HeadsetIsActive
<1>2. ASSUME s.speaker > 0, SpeakerIsActive(s.output) PROVE SpeakerRaw(SpeakerLevel(s)) >= 61
  <2>1. SpeakerLevel(s) = s.speaker /\ s.speaker \in Nat
    BY <1>2 DEF SpeakerLevel, Settings, Key
  <2> DEFINE c == Clamped(s.speaker, 0, 100)
  <2>2. c \in 0..100
    BY <2>1 DEF Clamped
  <2>3. SpeakerRaw(s.speaker) = 61 + (c * (100 - 61)) \div 100
    BY <1>2, <2>1 DEF SpeakerRaw, RawFromPercent
  <2> HIDE DEF c
  <2>4. (c * (100 - 61)) \div 100 >= 0 /\ (c * (100 - 61)) \div 100 \in Nat
    BY <2>2
  <2> QED
    BY <2>1, <2>3, <2>4
<1> QED
  BY <1>1, <1>2

\* A report that is on its way is there.
OverridesInv == /\ OverridesTypeOK
                /\ sending => lastOut # NoneYet
                /\ repeating => again # NoneYet

LEMMA TakesOrigin ==
  ASSUME OverridesTypeOK, NEW o \in Origin, Takes(o)
  PROVE  \A f \in Field : pad'[f] # NoneYet => pad'[f][1] \in Origin
  BY DEF OverridesTypeOK, Takes

LEMMA OverridesStep == ASSUME OverridesInv, OverridesNext PROVE OverridesInv'
<1> USE OverridesSizes DEF OverridesInv, OverridesTypeOK, pushVars, hostOutVars, againVars
<1>1. ASSUME NEW s \in Section, Relinks(s) PROVE OverridesInv'
  BY <1>1 DEF Relinks
<1>2. CASE PushBegins
  <2>1. pushes' \in {0, 1, 3}
    BY <1>2 DEF PushBegins
  <2>2. pushOut' = config /\ UNCHANGED <<air, unsent, config, relinks>>
        /\ UNCHANGED <<lastOut, sending, hostOuts, again, repeating, pad>>
    BY <1>2 DEF PushBegins
  <2>3. due' \in BOOLEAN
    BY <1>2, Zenon DEF PushBegins
  <2> QED
    BY <2>1, <2>2, <2>3
<1>3. CASE PushSends
  <2> DEFINE o == [way |-> "settings", made |-> pushOut, said |-> AnySaid]
  <2>1. o \in Origin
    BY DEF Origin, Way
  <2>2. pushes' \in 0..3
    BY <1>3 DEF PushSends
  <2>3. unsent' \in BOOLEAN
    BY <1>3, Zenon DEF PushSends
  <2>4. UNCHANGED <<air, config, relinks, due, pushOut, lastOut, sending, hostOuts, again, repeating>>
    BY <1>3 DEF PushSends
  <2>5. \A f \in Field : pad'[f] # NoneYet => pad'[f][1] \in Origin
    <3>1. CASE Takes(o)
      BY <2>1, <3>1, TakesOrigin
    <3>2. CASE UNCHANGED pad
      BY <3>2
    <3> QED
      BY <1>3, <3>1, <3>2 DEF PushSends
  <2> QED
    BY <2>2, <2>3, <2>4, <2>5
<1>4. ASSUME NEW way \in {"endpoint", "control"}, NEW r \in HostReport, HostWrites(way, r)
      PROVE  OverridesInv'
  <2> DEFINE o == [way |-> way, made |-> config, said |-> r]
  <2>1. o \in Origin
    BY DEF Origin, Way
  <2>2. lastOut' = <<o>> /\ lastOut'[1] = o /\ lastOut' # NoneYet
    BY <1>4 DEF HostWrites, NoneYet
  <2> QED
    BY <1>4, <2>1, <2>2 DEF HostWrites
<1>5. CASE HostWritten
  <2>1. lastOut # NoneYet /\ lastOut[1] \in Origin
    BY <1>5 DEF HostWritten
  <2>2. CASE Takes(lastOut[1])
    BY <1>5, <2>1, <2>2, TakesOrigin DEF HostWritten
  <2>3. CASE UNCHANGED pad
    BY <1>5, <2>3 DEF HostWritten
  <2> QED
    BY <1>5, <2>2, <2>3 DEF HostWritten
<1>6. CASE BuilderTakes
  BY <1>6 DEF BuilderTakes
<1>7. CASE BuilderGives
  <2>1. again # NoneYet /\ again[1] \in Origin
    BY <1>7 DEF BuilderGives
  <2> QED
    BY <1>7, <2>1, TakesOrigin DEF BuilderGives
<1>8. CASE PushIdle
  BY <1>8 DEF PushIdle, overrideVars
<1> QED
  BY <1>1, <1>2, <1>3, <1>4, <1>5, <1>6, <1>7, <1>8 DEF OverridesNext

\* Whatever numbers a section holds, what is made of them is an effect the pad takes, that
\* is felt where the section puts it, and a volume that is silent or can be heard
\* (apply_one and ds5_level_for), for every set of sections and of reports.
THEOREM OverridesFelt == OverridesSpec => [](OverridesTypeOK /\ EffectsAreFelt)
<1>1. OverridesInit => OverridesInv
  <2> SUFFICES ASSUME OverridesInit PROVE OverridesInv
    OBVIOUS
  <2>1. {air, sending, unsent, repeating} \subseteq BOOLEAN /\ due \in BOOLEAN
    BY Zenon DEF OverridesInit
  <2>2. /\ {config, pushOut} \subseteq Section /\ pushes \in 0..3
        /\ relinks \in 0..MaxRelinks /\ hostOuts \in 0..MaxHostOut
    BY OverridesSizes DEF OverridesInit
  <2>3. \A o \in {lastOut, again} \cup {pad[f] : f \in Field} : o = NoneYet
    BY DEF OverridesInit
  <2>4. ~sending /\ ~repeating
    BY DEF OverridesInit
  <2> QED
    BY <2>1, <2>2, <2>3, <2>4 DEF OverridesInv, OverridesTypeOK
<1>2. OverridesInv /\ [OverridesNext]_overrideVars => OverridesInv'
  <2>1. ASSUME OverridesInv, UNCHANGED overrideVars PROVE OverridesInv'
    BY <2>1 DEF overrideVars, pushVars, hostOutVars, againVars, OverridesInv, OverridesTypeOK
  <2> QED
    BY <2>1, OverridesStep
<1>3. OverridesInv => OverridesTypeOK /\ EffectsAreFelt
  <2> SUFFICES ASSUME OverridesInv PROVE OverridesTypeOK /\ EffectsAreFelt
    OBVIOUS
  <2>1. OverridesTypeOK /\ Keys[config] \in Settings
    BY OverridesSizes DEF OverridesInv, OverridesTypeOK
  <2>2. \A side \in Side : Felt(Keys[config], side)
    BY <2>1, TriggersFelt
  <2> QED
    BY <2>1, <2>2, VolumesAre DEF EffectsAreFelt, Felt
<1> QED
  BY <1>1, <1>2, <1>3, PTL DEF OverridesSpec
----------------------------------------------------------------------------
(* MCUsb: all five.                                                        *)

\* One part moves at a time, and each by its own rules.
LEMMA UsbSteps ==
  ASSUME [UsbNext]_usbVars
  PROVE  /\ [ServerNext]_serverVars /\ [Next]_vars /\ [InputNext]_inputVars
         /\ [StreamNext]_streamVars /\ [OverridesNext]_overrideVars
<1>1. CASE InServer(ServerNext)
  BY <1>1 DEF InServer
<1>2. CASE InDevice(Next)
  BY <1>2 DEF InDevice
<1>3. CASE InQueue(InputNext)
  BY <1>3 DEF InQueue
<1>4. CASE InStream(StreamNext)
  BY <1>4 DEF InStream
<1>5. CASE InOverrides(OverridesNext)
  BY <1>5 DEF InOverrides
<1>6. CASE UNCHANGED usbVars
  BY <1>6 DEF usbVars
<1> QED
  BY <1>1, <1>2, <1>3, <1>4, <1>5, <1>6 DEF UsbNext

\* The USB side as it is checked is all five at once: nothing is lost or added when they
\* are put together.
THEOREM UsbIsAll ==
  UsbSpec => ServerSpec /\ Spec /\ InputSpec /\ StreamSpec /\ OverridesSpec
<1>1. UsbInit => ServerInit /\ Init /\ InputInit /\ StreamInit /\ OverridesInit
  BY DEF UsbInit
<1>2. [UsbNext]_usbVars =>
         /\ [ServerNext]_serverVars /\ [Next]_vars /\ [InputNext]_inputVars
         /\ [StreamNext]_streamVars /\ [OverridesNext]_overrideVars
  BY UsbSteps
<1>3. UsbSpec => UsbInit /\ [][UsbNext]_usbVars
  BY PTL DEF UsbSpec
<1> QED
  BY <1>1, <1>2, <1>3, PTL DEF ServerSpec, Spec, InputSpec, StreamSpec, OverridesSpec

\* Each part keeps its shape, a report to the pad is whole, and a section's effects are
\* felt where it puts them, together, for any size of every list, queue and map.
THEOREM UsbsHold == UsbSpec => []UsbHolds
<1>1. /\ ServerInv => ServerTypeOK
      /\ DeviceInv => TypeOK
  BY DEF ServerInv, DeviceInv
<1>2. /\ ServerTypeOK /\ TypeOK /\ InputTypeOK /\ StreamTypeOK /\ ReportsAreWhole
      /\ OverridesTypeOK /\ EffectsAreFelt
      => UsbHolds
  BY DEF UsbHolds
<1> QED
  BY <1>1, <1>2, UsbIsAll, ServerInvariant, DeviceInvariant, InputsFit, StreamsWhole,
     OverridesFelt, PTL

\* What is proved of the server's lists and of a device's queue holds of them here too.
THEOREM UsbKeepsAll == UsbSpec => []ImportsInReach /\ []PacketsHold /\ AnnounceBeforeInput
  BY UsbIsAll, EveryImportInReach, PacketsKept, AnnouncesFirst, PTL
==============================================================================
