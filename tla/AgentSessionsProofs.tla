------------------------ MODULE AgentSessionsProofs ------------------------
(***************************************************************************)
(* What holds of AgentSessions for every set of busids, ports and          *)
(* controllers and any number of sessions.                                 *)
(*                                                                         *)
(* The state predicates below are the parts of the inductive invariant     *)
(* IInv: who may be in the list, what a stop under way still has to do,    *)
(* and when a worker may be stopping other sessions.                       *)
(***************************************************************************)
EXTENDS AgentSessions, WellFoundedInduction, NaturalsInduction, TLAPS

Active(t) == spc[t] # "idle"

\* A session has its names from the moment its worker exists, a request to
\* start one while the agent serves it.
NamedInv ==
    /\ \A s \in Session : wpc[s] # "unborn" => bus[s] \in BusId /\ port[s] \in Port
    /\ \A s \in listed \cup running : wpc[s] # "unborn"
    /\ apc \in {"start", "evict"} => req.bus \in BusId /\ req.port \in Port
TypeInv == TypeOK /\ NamedInv

\* Sessions are handed out in order, and a worker exists from then on.
BornInv ==
    /\ listed \subseteq 1..born /\ freed \subseteq 1..born
    /\ \A s \in Session : wpc[s] = "unborn" <=> born < s

\* A stop under way has its session to itself, out of the list and not freed.
ActiveInv ==
    \A t \in Thread : Active(t) =>
        tgt[t] \in 1..born /\ tgt[t] \notin listed /\ tgt[t] \notin freed

\* While the agent evicts the holder of a port, that holder is still to be
\* stopped or has left the list; and likewise when it stops every session.
EvictInv ==
    apc = "evict" =>
        \A s \in listed : port[s] = req.port => bus[s] \in todo[Agent]
ShutdownInv ==
    apc = "shutdown" => \A s \in listed : bus[s] \in todo[Agent]

\* No session gets lost between the list and its end.
AccountedInv ==
    \A s \in 1..born :
        s \in listed \cup freed \/ \E t \in Thread : Active(t) /\ tgt[t] = s

\* A worker stops other sessions in one place only, ...
WorkerStopsInv ==
    \A t \in Session : todo[t] # {} \/ Active(t) => wpc[t] = "retire"
\* ... which it has left when it publishes its serial, ...
PubInv == \A s \in Session : pub[s] # NoPad => wpc[s] \in {"fetch", "done"}
\* ... and enters only with a serial of its own.
MineInv == \A s \in Session : wpc[s] \in {"lock", "scan"} => mine[s] # NoPad

\* A busid a worker is to stop names a published session, or one that was
\* started later than the worker's own.
TodoInv ==
    \A t \in Session : \A s \in listed :
        bus[s] \in todo[t] => t < s \/ pub[s] # NoPad
TgtInv ==
    \A t \in Session : Active(t) => t < tgt[t] \/ pub[tgt[t]] # NoPad

IInv ==
    /\ TypeInv /\ BornInv /\ ActiveInv /\ StopIsExclusive /\ OneSessionPerPort
    /\ EvictInv /\ ShutdownInv /\ AccountedInv /\ WorkerStopsInv /\ PubInv
    /\ MineInv /\ TodoInv /\ TgtInv /\ WorkerNeverOutlivesSession
    /\ NothingOutlivesAgent
----------------------------------------------------------------------------
(* Types.                                                                  *)

\* How the sorts of the model lie to each other.
LEMMA Sorts ==
  /\ Session \subseteq Thread /\ Agent \in Thread /\ Agent \notin Session
  /\ Free \notin Thread /\ Session \subseteq Nat /\ Thread \subseteq Nat
  BY ConstAssumption DEF Session, Thread, Agent

\* The busids of listed sessions are busids.
LEMMA BusesType ==
  ASSUME TypeInv, NEW S \in SUBSET listed
  PROVE  Buses(S) \subseteq BusId
  BY Sorts DEF TypeInv, TypeOK, NamedInv, Buses

\* The program starts with everything in its range.
LEMMA TypeInit == Init => TypeInv
<1> SUFFICES ASSUME Init PROVE TypeInv OBVIOUS
<1> USE Sorts, ConstAssumption DEF Init, WorkerPc, AgentPc, StopPc, ReaderPc, InputPc
<1>1. born \in 0..MaxSession OBVIOUS
<1>2. bus \in [Session -> BusId \cup {NoBus}] OBVIOUS
<1>3. port \in [Session -> Port \cup {NoPort}] OBVIOUS
<1>4. pad \in [Session -> Pad \cup {NoPad}] OBVIOUS
<1>5. wpc \in [Session -> WorkerPc] OBVIOUS
<1>6. rd \in [Session -> ReaderPc] OBVIOUS
<1>15. iw \in [Session -> InputPc] OBVIOUS
<1>7. smx \in [Session -> Thread \cup {Free}] OBVIOUS
<1>8. exports \in [BusId -> Thread] OBVIOUS
<1>9. req \in [bus : BusId \cup {NoBus}, port : Port \cup {NoPort}] OBVIOUS
<1>10. todo \in [Thread -> SUBSET BusId] OBVIOUS
<1>11. spc \in [Thread -> StopPc] OBVIOUS
<1>12. tgt \in [Thread -> Thread] OBVIOUS
<1>13. \A t \in Thread : spc[t] # "idle" => tgt[t] \in Session OBVIOUS
<1>14. NamedInv BY DEF NamedInv
<1> QED
  BY <1>1, <1>2, <1>3, <1>4, <1>5, <1>6, <1>7, <1>8, <1>9, <1>10, <1>11, <1>12,
     <1>13, <1>14, <1>15 DEF TypeInv, TypeOK

\* Whether two threads join the same one is a truth value.
LEMMA JoinedBoolean == \A s \in Session : JoinedTwice(s) \in BOOLEAN
  BY DEF JoinedTwice

\* stop_bridge_session keeps the types.
LEMMA StopTypes ==
  ASSUME TypeInv, NEW t \in Thread, StopStep(t)
  PROVE  TypeInv'
<1> USE Sorts DEF TypeInv, TypeOK, NamedInv, StopPc, InputPc,
         identVars, backendVars, lockVars, agentVars, stopVars
<1>1. CASE StopTake(t) 
  <2>1. PICK b \in todo[t] :
          /\ todo' = [todo EXCEPT ![t] = @ \ {b}]
          /\ \/ UNCHANGED <<listed, spc, tgt>>
             \/ \E s \in listed : /\ listed' = listed \ {s}
                                 /\ spc' = [spc EXCEPT ![t] = "unexport"]
                                 /\ tgt' = [tgt EXCEPT ![t] = s]
    BY <1>1 DEF StopTake, Erased
  <2>2. todo' \in [Thread -> SUBSET BusId] BY <2>1
  <2>3. /\ listed' \subseteq listed /\ spc' \in [Thread -> StopPc]
        /\ tgt' \in [Thread -> Thread]
        /\ \A u \in Thread : spc'[u] # "idle" => tgt'[u] \in Session
     <3>1. CASE UNCHANGED <<listed, spc, tgt>> BY <3>1
     <3>2. CASE \E s \in listed : /\ listed' = listed \ {s}
                                 /\ spc' = [spc EXCEPT ![t] = "unexport"]
                                 /\ tgt' = [tgt EXCEPT ![t] = s] BY <3>2
     <3> QED BY <2>1, <3>1, <3>2
  <2>4. NamedInv' BY <1>1, <2>3 DEF StopTake
  <2> QED BY <1>1, <2>2, <2>3, <2>4 DEF StopTake
<1>2. CASE StopUnexport(t)    BY <1>2, ZenonT(60) DEF StopUnexport
<1>3. CASE StopBackend(t)     
  <2>1. CASE tgt[t] \in made 
     <3>1. smx' \in [Session -> Thread \cup {Free}] BY <2>1, <1>3 DEF StopBackend
     <3>2. spc' \in [Thread -> StopPc] BY <2>1, <1>3 DEF StopBackend
     <3>3. \A u \in Thread : spc'[u] # "idle" => tgt'[u] \in Session
           BY <2>1, <1>3 DEF StopBackend
     <3> QED BY <2>1, <3>1, <3>2, <3>3, <1>3 DEF StopBackend
  <2>2. CASE tgt[t] \notin made BY <2>2, <1>3, ZenonT(60) DEF StopBackend
  <2> QED BY <2>1, <2>2
<1>4. CASE StopJoinThreads(t)
  <2>1. iw' \in [Session -> InputPc]
    BY <1>4 DEF StopJoinThreads, InputNotified
  <2>2. /\ threaded' \subseteq Session /\ aborted' \in BOOLEAN
        /\ spc' \in [Thread -> StopPc]
    BY <1>4, JoinedBoolean DEF StopJoinThreads
  <2>3. \A u \in Thread : spc'[u] # "idle" => tgt'[u] \in Session
    BY <1>4 DEF StopJoinThreads
  <2> QED BY <1>4, <2>1, <2>2, <2>3 DEF StopJoinThreads
<1>6. CASE StopJoinInput(t)
  <2>1. iw' \in [Session -> InputPc] /\ smx' \in [Session -> Thread \cup {Free}]
    BY <1>6 DEF StopJoinInput, InputJoins
  <2>2. aborted' \in BOOLEAN /\ spc' \in [Thread -> StopPc]
    BY <1>6, JoinedBoolean DEF StopJoinInput
  <2>3. \A u \in Thread : spc'[u] # "idle" => tgt'[u] \in Session
    BY <1>6 DEF StopJoinInput
  <2> QED BY <1>6, <2>1, <2>2, <2>3 DEF StopJoinInput
<1>5. CASE StopJoinWorker(t)  BY <1>5 DEF StopJoinWorker, WorkerJoined
<1> QED BY <1>1, <1>2, <1>3, <1>4, <1>5, <1>6 DEF StopStep

\* So do the agent loop and its surroundings, ...
LEMMA AgentTypes ==
  ASSUME TypeInv, AgentStep \/ AgentCommand \/ ConfigChanges \/ QuitRequested
  PROVE  TypeInv'
<1> USE Sorts DEF TypeInv, TypeOK, NamedInv, WorkerPc, AgentPc, ReaderPc, InputPc,
         identVars, backendVars, lockVars, agentVars, stopVars
<1>1. CASE AgentTop 
  <2>1. AllBuses \subseteq BusId BY BusesType DEF AllBuses
  <2> QED BY <1>1, <2>1 DEF AgentTop
<1>2. CASE AgentApply BY <1>2 DEF AgentApply
<1>3. CASE AgentSnapshot BY <1>3 DEF AgentSnapshot
<1>4. CASE AgentPush BY <1>4 DEF AgentPush, SweepDone
<1>5. CASE AgentIdle BY <1>5 DEF AgentIdle
<1>6. CASE AgentDedupe
  <2>1. Buses(StaleOn(req.port)) \subseteq BusId BY BusesType DEF StaleOn
  <2> QED BY <1>6, <2>1 DEF AgentDedupe
<1>7. CASE AgentCreate
  <2>1. CASE req.bus \in Buses(listed) BY <1>7, <2>1 DEF AgentCreate
  <2>2. CASE req.bus \notin Buses(listed)
     <3>1. born + 1 \in Session /\ born + 1 \in 0..MaxSession
        BY <1>7, <2>2 DEF AgentCreate, Session
     <3>2. /\ bus' \in [Session -> BusId \cup {NoBus}]
           /\ port' \in [Session -> Port \cup {NoPort}]
           /\ wpc' \in [Session -> WorkerPc]
           /\ listed' \subseteq Session
           /\ born' \in 0..MaxSession
         BY <1>7, <2>2, <3>1, ZenonT(60) DEF AgentCreate
     <3>3. NamedInv' BY <1>7, <2>2, <3>1, ZenonT(60) DEF AgentCreate
     <3> QED BY <1>7, <3>2, <3>3 DEF AgentCreate
  <2> QED BY <2>1, <2>2
<1>8. CASE AgentExit BY <1>8 DEF AgentExit
<1>9. CASE AgentStopCommand 
  <2>1. AllBuses \subseteq BusId BY BusesType DEF AllBuses
  <2>2. todo' \in [Thread -> SUBSET BusId]
     BY <1>9, <2>1 DEF AgentStopCommand
  <2> QED BY <1>9, <2>2 DEF AgentStopCommand
<1>10. CASE AgentStartCommand BY <1>10 DEF AgentStartCommand
<1>11. CASE ConfigChanges BY <1>11 DEF ConfigChanges
<1>12. CASE QuitRequested BY <1>12 DEF QuitRequested
<1> QED BY <1>1, <1>2, <1>3, <1>4, <1>5, <1>6, <1>7, <1>8, <1>9, <1>10, <1>11, <1>12 DEF AgentStep, AgentCommand

\* ... a worker, ...
LEMMA WorkerTypes ==
  ASSUME TypeInv, NEW s \in Session, WorkerStep(s) \/ WorkerAccept(s)
  PROVE  TypeInv'
<1> USE Sorts DEF TypeInv, TypeOK, NamedInv, WorkerPc, AgentPc, ReaderPc, InputPc,
         identVars, backendVars, lockVars, agentVars, stopVars
<1>1. CASE WorkerMake(s)
  <2>1. made' = made \/ made' = made \cup {s} BY <1>1 DEF WorkerMake
  <2>2. wpc' \in [Session -> WorkerPc] BY <1>1 DEF WorkerMake
  <2>3. \A x \in Session : wpc'[x] = "unborn" <=> wpc[x] = "unborn"
    BY <1>1 DEF WorkerMake
  <2>4. NamedInv' BY <1>1, <2>3 DEF WorkerMake
  <2> QED BY <1>1, <2>1, <2>2, <2>4, ZenonT(60) DEF WorkerMake
<1>2. CASE WorkerBind(s)
  <2>1. listening' = listening \/ listening' = listening \cup {s}
    BY <1>2 DEF WorkerBind
  <2>2. wpc' \in [Session -> WorkerPc] BY <1>2 DEF WorkerBind
  <2>3. \A x \in Session : wpc'[x] = "unborn" <=> wpc[x] = "unborn"
    BY <1>2 DEF WorkerBind
  <2>4. NamedInv' BY <1>2, <2>3 DEF WorkerBind
  <2> QED BY <1>2, <2>1, <2>2, <2>4, ZenonT(60) DEF WorkerBind
<1>3. CASE WorkerAccept(s)
  <2>1. PadsOf[s] \subseteq Pad \cup {NoPad} BY ConstAssumption DEF Session
  <2>2. pad' \in [Session -> Pad \cup {NoPad}] BY <1>3, <2>1 DEF WorkerAccept
  <2> QED BY <1>3, <2>2 DEF WorkerAccept
<1>4. CASE WorkerAcceptFails(s) BY <1>4 DEF WorkerAcceptFails
<1>5. CASE WorkerStart(s)
  <2>1. iw' \in [Session -> InputPc] /\ rd' \in [Session -> ReaderPc]
    BY <1>5 DEF WorkerStart
  <2>2. wpc' \in [Session -> WorkerPc] /\ NamedInv'
    BY <1>5 DEF WorkerStart
  <2>3. running' \subseteq Session /\ threaded' \subseteq Session
    BY <1>5 DEF WorkerStart
  <2> QED BY <1>5, <2>1, <2>2, <2>3 DEF WorkerStart
<1>6. CASE WorkerAttach(s) BY <1>6 DEF WorkerAttach
<1>7. CASE WorkerUnwind(s) BY <1>7 DEF WorkerUnwind
<1>8. CASE WorkerUnwindJoin(s)
  <2>1. iw' \in [Session -> InputPc]
    BY <1>8 DEF WorkerUnwindJoin, InputNotified
  <2>2. aborted' \in BOOLEAN /\ wpc' \in [Session -> WorkerPc] /\ threaded' \subseteq Session
    BY <1>8, JoinedBoolean DEF WorkerUnwindJoin
  <2>3. NamedInv' BY <1>8 DEF WorkerUnwindJoin
  <2> QED BY <1>8, <2>1, <2>2, <2>3 DEF WorkerUnwindJoin
<1>15. CASE WorkerUnwindInput(s)
  <2>1. iw' \in [Session -> InputPc]
    BY <1>15 DEF WorkerUnwindInput, InputJoins
  <2>2. aborted' \in BOOLEAN /\ wpc' \in [Session -> WorkerPc]
    BY <1>15, JoinedBoolean DEF WorkerUnwindInput
  <2>3. NamedInv' BY <1>15 DEF WorkerUnwindInput
  <2> QED BY <1>15, <2>1, <2>2, <2>3 DEF WorkerUnwindInput
<1>9. CASE WorkerExport(s) BY <1>9 DEF WorkerExport
<1>10. CASE WorkerLock(s) BY <1>10 DEF WorkerLock
<1>11. CASE WorkerScan(s)
  <2>1. Buses(Older(s)) \subseteq BusId BY BusesType DEF Older, Others
  <2> QED BY <1>11, <2>1 DEF WorkerScan, Unlocked
<1>12. CASE WorkerRetired(s) BY <1>12 DEF WorkerRetired
<1>13. CASE WorkerLink(s) BY <1>13 DEF WorkerLink
<1>14. CASE WorkerReady(s) BY <1>14 DEF WorkerReady
<1> QED BY <1>1, <1>2, <1>3, <1>4, <1>5, <1>6, <1>7, <1>8, <1>9, <1>10, <1>11, <1>12, <1>13, <1>14,
          <1>15 DEF WorkerStep

\* ... a reader, ...
LEMMA ReaderTypes ==
  ASSUME TypeInv, NEW s \in Session, ReaderStep(s)
  PROVE  TypeInv'
<1> USE Sorts DEF TypeInv, TypeOK, NamedInv, WorkerPc, AgentPc, ReaderPc, InputPc,
         identVars, backendVars, lockVars, agentVars, stopVars
<1>1. CASE ReaderLost(s)
  <2>1. connected' \subseteq Session /\ rd' \in [Session -> ReaderPc]
    BY <1>1 DEF ReaderLost
  <2> QED BY <1>1, <2>1 DEF ReaderLost
<1>2. CASE ReaderReconnect(s)
  <2>1. PadsOf[s] \subseteq Pad \cup {NoPad} BY ConstAssumption DEF Session
  <2>2. pad' \in [Session -> Pad \cup {NoPad}] BY <1>2, <2>1 DEF ReaderReconnect
  <2> QED BY <1>2, <2>2 DEF ReaderReconnect
<1>3. CASE ReaderGivesUp(s) BY <1>3 DEF ReaderGivesUp
<1>4. CASE ReaderIdles(s) BY <1>4 DEF ReaderIdles
<1>5. CASE ReaderFires(s)
  <2>1. ReapFor(s) \subseteq BusId BY DEF ReapFor
  <2> QED BY <1>5, <2>1 DEF ReaderFires
<1>6. CASE ReaderQuits(s) BY <1>6 DEF ReaderQuits
<1> QED BY <1>1, <1>2, <1>3, <1>4, <1>5, <1>6 DEF ReaderStep

\* ... and an input worker.
LEMMA InputTypes ==
  ASSUME TypeInv, NEW s \in Session, InputStep(s)
  PROVE  TypeInv'
<1>1. /\ iw' \in [Session -> InputPc]
      /\ UNCHANGED <<identVars, listed, freed, pad, mine, pub, stopping, ready, wpc,
                     made, listening, connected, running, threaded, rd, lockVars,
                     exports, reaps, agentVars, stopVars, aborted>>
  BY DEF InputStep, InputEnds, InputSleeps, InputWakes, TypeInv, TypeOK, InputPc
<1> QED
  BY <1>1 DEF TypeInv, TypeOK, NamedInv, identVars, lockVars, agentVars, stopVars

\* Types and names hold over every step.
LEMMA TypeStep == TypeInv /\ [Next]_vars => TypeInv'
<1> SUFFICES ASSUME TypeInv, [Next]_vars PROVE TypeInv' OBVIOUS
<1>1. CASE UNCHANGED vars
  BY <1>1 DEF vars, TypeInv, TypeOK, NamedInv
<1>2. CASE AgentStep \/ AgentCommand \/ ConfigChanges \/ QuitRequested
  BY <1>2, AgentTypes
<1>3. ASSUME NEW t \in Thread, StopStep(t) PROVE TypeInv'
  BY <1>3, StopTypes
<1>4. ASSUME NEW s \in Session, WorkerStep(s) \/ WorkerAccept(s) PROVE TypeInv'
  BY <1>4, WorkerTypes
<1>5. ASSUME NEW s \in Session, ReaderStep(s) PROVE TypeInv'
  BY <1>5, ReaderTypes
<1>6. ASSUME NEW s \in Session, InputStep(s) PROVE TypeInv'
  BY <1>6, InputTypes
<1> QED BY <1>1, <1>2, <1>3, <1>4, <1>5, <1>6 DEF Next, Ended

\* Every variable of the model stays in its range, whatever the threads do.
THEOREM TypeCorrect == Spec => []TypeOK
<1>1. Init => TypeInv BY TypeInit
<1>2. TypeInv /\ [Next]_vars => TypeInv' BY TypeStep
<1>3. TypeInv => TypeOK BY DEF TypeInv
<1> QED BY <1>1, <1>2, <1>3, PTL DEF Spec
----------------------------------------------------------------------------
(* The steps, as far as the invariant reads them.                          *)

core == <<born, listed, freed, bus, port, mine, pub, wpc, apc, req, todo, spc, tgt>>

\* The agent goes on to a part of its loop that stops and starts nothing.
AgentMoves ==
    /\ apc' \in {"snapshot", "push", "select", "top"}
    /\ UNCHANGED <<born, listed, freed, bus, port, mine, pub, wpc, req, todo, spc, tgt>>

\* A worker goes on to another part of its start, or ends.
WorkerMoves(s) ==
    \E q \in WorkerPc :
        /\ wpc' = [wpc EXCEPT ![s] = q]
        /\ wpc[s] \notin {"unborn", "done"} /\ q # "unborn"
        /\ q \in {"lock", "scan"} => wpc[s] = "lock"
        /\ wpc[s] = "fetch" => q = "done"
        /\ wpc[s] = "retire" => StopsDone(s)
        /\ UNCHANGED <<born, listed, freed, bus, port, mine, pub, apc, req, todo, spc, tgt>>

\* A stop goes on, between its first part and its last.
StopMoves(t) ==
    \E q \in StopPc \ {"idle"} :
        /\ Active(t) /\ spc' = [spc EXCEPT ![t] = q]
        /\ UNCHANGED <<born, listed, freed, bus, port, mine, pub, wpc, apc, req, todo, tgt>>

\* The steps of the loop that concern the invariant one by one.
AgentActs == \/ AgentTop \/ AgentDedupe \/ AgentCreate \/ AgentExit
             \/ AgentStopCommand \/ AgentStartCommand

\* Every step is one of these.
LEMMA StepKinds ==
  ASSUME TypeInv, [Next]_vars
  PROVE  \/ UNCHANGED core
         \/ /\ apc # "exited"
            /\ \/ AgentMoves \/ AgentActs
               \/ \E s \in Session : \/ WorkerMoves(s) \/ WorkerExport(s)
                                     \/ WorkerScan(s) \/ WorkerLink(s)
               \/ \E t \in Thread : \/ StopTake(t) \/ StopMoves(t)
                                    \/ StopJoinWorker(t)
<1> USE DEF identVars, backendVars, lockVars, agentVars, stopVars, core
<1>1. CASE UNCHANGED vars
  BY <1>1 DEF vars
<1>2. CASE AgentApply \/ AgentSnapshot \/ AgentPush \/ AgentIdle
  <2>1. AgentMoves \/ UNCHANGED core
    BY <1>2 DEF AgentApply, AgentSnapshot, AgentPush, AgentIdle, AgentMoves
  <2>2. apc # "exited"
    BY <1>2 DEF AgentApply, AgentSnapshot, AgentPush, AgentIdle
  <2> QED BY <2>1, <2>2
<1>3. CASE ConfigChanges \/ QuitRequested
  BY <1>3 DEF ConfigChanges, QuitRequested
<1>4. ASSUME NEW s \in Session, ReaderStep(s) PROVE UNCHANGED core
  BY <1>4 DEF ReaderStep, ReaderLost, ReaderReconnect, ReaderGivesUp,
     ReaderIdles, ReaderFires, ReaderQuits
<1>7. ASSUME NEW s \in Session, InputStep(s) PROVE UNCHANGED core
  BY <1>7 DEF InputStep, InputEnds, InputSleeps, InputWakes
<1>5. ASSUME NEW t \in Thread, StopStep(t)
      PROVE  StopTake(t) \/ StopMoves(t) \/ StopJoinWorker(t)
  <2>1. CASE StopUnexport(t)
    BY <2>1 DEF StopUnexport, StopMoves, StopPc, Active
  <2>2. CASE StopBackend(t)
    BY <2>2 DEF StopBackend, StopMoves, StopPc, Active
  <2>3. CASE StopJoinThreads(t)
    BY <2>3 DEF StopJoinThreads, StopMoves, StopPc, Active
  <2>4. CASE StopJoinInput(t)
    BY <2>4 DEF StopJoinInput, StopMoves, StopPc, Active
  <2> QED BY <1>5, <2>1, <2>2, <2>3, <2>4 DEF StopStep
<1>6. ASSUME NEW s \in Session, WorkerStep(s) \/ WorkerAccept(s)
      PROVE  WorkerMoves(s) \/ WorkerExport(s) \/ WorkerScan(s) \/ WorkerLink(s)
  <2> USE DEF WorkerMoves, WorkerPc
  <2>1. CASE WorkerMake(s) BY <2>1 DEF WorkerMake
  <2>2. CASE WorkerBind(s) BY <2>2 DEF WorkerBind
  <2>3. CASE WorkerAccept(s) BY <2>3 DEF WorkerAccept
  <2>4. CASE WorkerAcceptFails(s) BY <2>4 DEF WorkerAcceptFails
  <2>5. CASE WorkerStart(s) BY <2>5 DEF WorkerStart
  <2>6. CASE WorkerAttach(s) BY <2>6 DEF WorkerAttach
  <2>7. CASE WorkerUnwind(s) BY <2>7 DEF WorkerUnwind
  <2>8. CASE WorkerUnwindJoin(s) BY <2>8 DEF WorkerUnwindJoin
  <2>9. CASE WorkerLock(s) BY <2>9 DEF WorkerLock
  <2>10. CASE WorkerRetired(s) BY <2>10 DEF WorkerRetired
  <2>11. CASE WorkerReady(s) BY <2>11 DEF WorkerReady
  <2>12. CASE WorkerUnwindInput(s) BY <2>12 DEF WorkerUnwindInput
  <2> QED
    BY <1>6, <2>1, <2>2, <2>3, <2>4, <2>5, <2>6, <2>7, <2>8, <2>9, <2>10, <2>11, <2>12
    DEF WorkerStep
<1> QED
  BY <1>1, <1>2, <1>3, <1>4, <1>5, <1>6, <1>7
  DEF Next, Ended, AgentStep, AgentCommand, AgentActs
----------------------------------------------------------------------------
(* The inductive invariant.                                                *)

LEMMA InvInit == Init => IInv
<1> SUFFICES ASSUME Init PROVE IInv OBVIOUS
<1>1. TypeInv BY TypeInit
<1> USE Sorts DEF Init
<1>2. BornInv BY ConstAssumption DEF BornInv, Session
<1>3. ActiveInv /\ StopIsExclusive /\ AccountedInv /\ TgtInv
  BY DEF ActiveInv, StopIsExclusive, AccountedInv, TgtInv, Active, Session, Thread
<1>4. OneSessionPerPort /\ EvictInv /\ ShutdownInv
  BY DEF OneSessionPerPort, EvictInv, ShutdownInv
<1>5. WorkerStopsInv /\ PubInv /\ MineInv /\ TodoInv
  BY DEF WorkerStopsInv, PubInv, MineInv, TodoInv, Active
<1>6. WorkerNeverOutlivesSession /\ NothingOutlivesAgent
  BY DEF WorkerNeverOutlivesSession, NothingOutlivesAgent
<1> QED BY <1>1, <1>2, <1>3, <1>4, <1>5, <1>6 DEF IInv

\* A step that none of the invariant's variables sees.
LEMMA SkipInv ==
  ASSUME IInv, TypeInv', UNCHANGED core
  PROVE  IInv'
  BY DEF IInv, core, BornInv, ActiveInv, StopIsExclusive, OneSessionPerPort,
     EvictInv, ShutdownInv, AccountedInv, WorkerStopsInv, PubInv, MineInv,
     TodoInv, TgtInv, WorkerNeverOutlivesSession, NothingOutlivesAgent, Active

LEMMA AgentMovesInv ==
  ASSUME IInv, TypeInv', AgentMoves
  PROVE  IInv'
  BY DEF IInv, AgentMoves, BornInv, ActiveInv, StopIsExclusive, OneSessionPerPort,
     EvictInv, ShutdownInv, AccountedInv, WorkerStopsInv, PubInv, MineInv,
     TodoInv, TgtInv, WorkerNeverOutlivesSession, NothingOutlivesAgent, Active

\* A worker's own progress: nothing it stops is left behind.
LEMMA WorkerMovesInv ==
  ASSUME IInv, TypeInv', NEW s \in Session, WorkerMoves(s)
  PROVE  IInv'
<1>1. PICK q \in WorkerPc :
        /\ wpc' = [wpc EXCEPT ![s] = q]
        /\ wpc[s] \notin {"unborn", "done"} /\ q # "unborn"
        /\ q \in {"lock", "scan"} => wpc[s] = "lock"
        /\ wpc[s] = "fetch" => q = "done"
        /\ wpc[s] = "retire" => StopsDone(s)
        /\ UNCHANGED <<born, listed, freed, bus, port, mine, pub, apc, req, todo, spc, tgt>>
  BY DEF WorkerMoves
<1>2. \A x \in Session : wpc'[x] = IF x = s THEN q ELSE wpc[x]
  BY <1>1 DEF IInv, TypeInv, TypeOK
<1> USE <1>1, <1>2, Sorts DEF IInv, Active
<1>3. BornInv' BY DEF BornInv
<1>4. (ActiveInv /\ StopIsExclusive /\ OneSessionPerPort /\ EvictInv /\ ShutdownInv)'
  BY DEF ActiveInv, StopIsExclusive, OneSessionPerPort, EvictInv, ShutdownInv
<1>5. (AccountedInv /\ TodoInv /\ TgtInv /\ NothingOutlivesAgent)'
  BY DEF AccountedInv, TodoInv, TgtInv, NothingOutlivesAgent
<1>6. WorkerStopsInv' BY DEF WorkerStopsInv, StopsDone
<1>7. PubInv' BY DEF PubInv
<1>8. MineInv' BY DEF MineInv
<1>9. WorkerNeverOutlivesSession'
  BY DEF WorkerNeverOutlivesSession, BornInv, TypeInv, TypeOK
<1> QED BY <1>3, <1>4, <1>5, <1>6, <1>7, <1>8, <1>9

\* add_device, and the serial the search will use.
LEMMA ExportInv ==
  ASSUME IInv, TypeInv', NEW s \in Session, WorkerExport(s)
  PROVE  IInv'
<1>1. /\ \A x \in Session : x # s => wpc'[x] = wpc[x] /\ mine'[x] = mine[x]
      /\ wpc'[s] = IF pad[s] = NoPad THEN "link" ELSE "lock"
      /\ mine'[s] = pad[s] /\ wpc[s] = "export"
      /\ UNCHANGED <<born, listed, freed, bus, port, pub, apc, req, todo, spc, tgt>>
  BY DEF IInv, TypeInv, TypeOK, WorkerExport, identVars, stopVars, agentVars
<1> USE <1>1, Sorts DEF IInv, Active
<1>3. BornInv' BY DEF BornInv
<1>4. (ActiveInv /\ StopIsExclusive /\ OneSessionPerPort /\ EvictInv /\ ShutdownInv)'
  BY DEF ActiveInv, StopIsExclusive, OneSessionPerPort, EvictInv, ShutdownInv
<1>5. (AccountedInv /\ TodoInv /\ TgtInv /\ NothingOutlivesAgent)'
  BY DEF AccountedInv, TodoInv, TgtInv, NothingOutlivesAgent
<1>6. WorkerStopsInv' BY DEF WorkerStopsInv
<1>7. PubInv' BY DEF PubInv
<1>8. MineInv' BY DEF MineInv
<1>9. WorkerNeverOutlivesSession'
  BY DEF WorkerNeverOutlivesSession, BornInv, TypeInv, TypeOK
<1> QED BY <1>3, <1>4, <1>5, <1>6, <1>7, <1>8, <1>9

\* The serial is published by a worker that has no more sessions to stop.
LEMMA LinkInv ==
  ASSUME IInv, TypeInv', NEW s \in Session, WorkerLink(s)
  PROVE  IInv'
<1>1. /\ \A x \in Session : x # s => wpc'[x] = wpc[x] /\ pub'[x] = pub[x]
      /\ wpc'[s] = "fetch" /\ wpc[s] = "link"
      /\ UNCHANGED <<born, listed, freed, bus, port, mine, apc, req, todo, spc, tgt>>
  BY DEF IInv, TypeInv, TypeOK, WorkerLink, identVars, stopVars, agentVars
<1>2. pub[s] = NoPad BY <1>1 DEF IInv, PubInv
<1> USE <1>1, <1>2, Sorts DEF IInv, Active
<1>3. BornInv' BY DEF BornInv
<1>4. (ActiveInv /\ StopIsExclusive /\ OneSessionPerPort /\ EvictInv /\ ShutdownInv)'
  BY DEF ActiveInv, StopIsExclusive, OneSessionPerPort, EvictInv, ShutdownInv
<1>5. (AccountedInv /\ NothingOutlivesAgent)'
  BY DEF AccountedInv, NothingOutlivesAgent
<1>6. WorkerStopsInv' BY DEF WorkerStopsInv
<1>7. PubInv' BY DEF PubInv
<1>8. MineInv' BY DEF MineInv
<1>9. WorkerNeverOutlivesSession'
  BY DEF WorkerNeverOutlivesSession, BornInv, TypeInv, TypeOK
<1>10. TodoInv' BY DEF TodoInv, TypeInv, TypeOK
<1>11. TgtInv' BY DEF TgtInv, TypeInv, TypeOK
<1> QED BY <1>3, <1>4, <1>5, <1>6, <1>7, <1>8, <1>9, <1>10, <1>11

\* The search: what it finds has published a serial, or does not exist yet.
LEMMA ScanInv ==
  ASSUME IInv, TypeInv', NEW s \in Session, WorkerScan(s)
  PROVE  IInv'
<1>1. /\ \A x \in Session : x # s => wpc'[x] = wpc[x]
      /\ \A x \in Thread : x # s => todo'[x] = todo[x]
      /\ wpc'[s] = "retire" /\ wpc[s] = "scan" /\ todo'[s] = Buses(Older(s))
      /\ UNCHANGED <<born, listed, freed, bus, port, mine, pub, apc, req, spc, tgt>>
  BY Sorts DEF IInv, TypeInv, TypeOK, WorkerScan, identVars, agentVars
<1>2. \A x \in listed : bus[x] \in todo'[s] => pub[x] # NoPad
  BY <1>1 DEF IInv, MineInv, OneSessionPerPort, Buses, Older, Others
<1> USE <1>1, <1>2, Sorts DEF IInv, Active
<1>3. BornInv' BY DEF BornInv
<1>4. (ActiveInv /\ StopIsExclusive /\ OneSessionPerPort /\ EvictInv /\ ShutdownInv)'
  BY DEF ActiveInv, StopIsExclusive, OneSessionPerPort, EvictInv, ShutdownInv
<1>5. (AccountedInv /\ TgtInv /\ NothingOutlivesAgent)'
  BY DEF AccountedInv, TgtInv, NothingOutlivesAgent
<1>6. WorkerStopsInv' BY DEF WorkerStopsInv
<1>7. PubInv' BY DEF PubInv
<1>8. MineInv' BY DEF MineInv
<1>9. WorkerNeverOutlivesSession'
  BY DEF WorkerNeverOutlivesSession, BornInv, TypeInv, TypeOK
<1>10. TodoInv' BY DEF TodoInv
<1> QED BY <1>3, <1>4, <1>5, <1>6, <1>7, <1>8, <1>9, <1>10

LEMMA StopMovesInv ==
  ASSUME IInv, TypeInv', NEW t \in Thread, StopMoves(t)
  PROVE  IInv'
<1>1. /\ \A x \in Thread : Active(x)' <=> Active(x)
      /\ UNCHANGED <<born, listed, freed, bus, port, mine, pub, wpc, apc, req, todo, tgt>>
  BY DEF IInv, TypeInv, TypeOK, StopMoves, Active
<1> USE <1>1, Sorts DEF IInv
<1>2. (BornInv /\ OneSessionPerPort /\ EvictInv /\ ShutdownInv /\ PubInv
       /\ MineInv /\ TodoInv /\ WorkerNeverOutlivesSession /\ NothingOutlivesAgent)'
  BY DEF BornInv, OneSessionPerPort, EvictInv, ShutdownInv, PubInv, MineInv,
     TodoInv, WorkerNeverOutlivesSession, NothingOutlivesAgent
<1>3. (ActiveInv /\ AccountedInv /\ WorkerStopsInv /\ TgtInv)'
  BY DEF ActiveInv, AccountedInv, WorkerStopsInv, TgtInv
<1>4. StopIsExclusive' BY DEF StopIsExclusive, Active
<1> QED BY <1>2, <1>3, <1>4

\* A session leaves the list for the stop that took it.
LEMMA StopTakeInv ==
  ASSUME IInv, TypeInv', NEW t \in Thread, StopTake(t), apc # "exited"
  PROVE  IInv'
<1>1. PICK b \in todo[t] :
        /\ todo' = [todo EXCEPT ![t] = @ \ {b}]
        /\ \/ /\ \A s \in listed : bus[s] # b
              /\ UNCHANGED <<listed, spc, tgt>>
           \/ \E s \in listed :
                /\ bus[s] = b
                /\ listed' = listed \ {s}
                /\ spc' = [spc EXCEPT ![t] = "unexport"]
                /\ tgt' = [tgt EXCEPT ![t] = s]
  BY DEF StopTake, Erased
<1>2. /\ ~Active(t)
      /\ UNCHANGED <<born, freed, bus, port, mine, pub, wpc, apc, req>>
  BY DEF StopTake, identVars, agentVars, Active
<1>3. /\ \A x \in Thread : x # t => todo'[x] = todo[x]
      /\ todo'[t] = todo[t] \ {b}
  BY <1>1 DEF IInv, TypeInv, TypeOK
<1> USE Sorts DEF IInv
<1>4. (BornInv /\ PubInv /\ MineInv /\ NothingOutlivesAgent /\ OneSessionPerPort)'
  BY <1>1, <1>2 DEF BornInv, PubInv, MineInv, NothingOutlivesAgent, OneSessionPerPort
<1>5. WorkerNeverOutlivesSession'
  BY <1>1, <1>2 DEF WorkerNeverOutlivesSession
<1>6. CASE (\A s \in listed : bus[s] # b) /\ UNCHANGED <<listed, spc, tgt>>
  <2> USE <1>2, <1>3, <1>6 DEF Active
  <2>1. (ActiveInv /\ StopIsExclusive /\ AccountedInv /\ TgtInv)'
    BY DEF ActiveInv, StopIsExclusive, AccountedInv, TgtInv
  <2>2. (EvictInv /\ ShutdownInv)' BY DEF EvictInv, ShutdownInv
  <2>3. (WorkerStopsInv /\ TodoInv)' BY DEF WorkerStopsInv, TodoInv
  <2> QED BY <1>4, <1>5, <2>1, <2>2, <2>3
<1>7. ASSUME NEW s \in listed, bus[s] = b, listed' = listed \ {s},
             spc' = [spc EXCEPT ![t] = "unexport"], tgt' = [tgt EXCEPT ![t] = s]
      PROVE  IInv'
  <2>1. /\ \A x \in Thread : x # t => spc'[x] = spc[x] /\ tgt'[x] = tgt[x]
        /\ spc'[t] = "unexport" /\ tgt'[t] = s
    BY <1>7 DEF TypeInv, TypeOK
  <2>2. \A x \in listed' : bus[x] # b
    BY <1>7 DEF OneSessionPerPort
  <2> USE <1>2, <1>3, <1>7, <2>1, <2>2 DEF Active
  <2>3. ActiveInv' BY DEF ActiveInv, BornInv, WorkerNeverOutlivesSession
  <2>4. StopIsExclusive' BY DEF StopIsExclusive, ActiveInv
  <2>5. AccountedInv' BY DEF AccountedInv
  <2>6. TgtInv' BY <1>1 DEF TgtInv, TodoInv
  <2>7. (EvictInv /\ ShutdownInv)' BY DEF EvictInv, ShutdownInv
  <2>8. (WorkerStopsInv /\ TodoInv)' BY DEF WorkerStopsInv, TodoInv
  <2> QED BY <1>4, <1>5, <2>3, <2>4, <2>5, <2>6, <2>7, <2>8
<1> QED BY <1>1, <1>6, <1>7

\* A session whose worker has been joined is gone.
LEMMA StopJoinWorkerInv ==
  ASSUME IInv, TypeInv', NEW t \in Thread, StopJoinWorker(t), apc # "exited"
  PROVE  IInv'
<1>1. /\ freed' = freed \cup {tgt[t]} /\ wpc[tgt[t]] = "done" /\ Active(t)
      /\ UNCHANGED <<born, listed, bus, port, mine, pub, wpc, apc, req, todo>>
  BY DEF StopJoinWorker, WorkerJoined, Active, identVars, agentVars
<1>2. /\ \A x \in Thread : x # t => spc'[x] = spc[x] /\ tgt'[x] = tgt[x]
      /\ spc'[t] = "idle"
  BY DEF StopJoinWorker, IInv, TypeInv, TypeOK
<1>3. tgt[t] \in 1..born /\ tgt[t] \notin listed
  BY <1>1 DEF IInv, ActiveInv
<1> USE <1>1, <1>2, <1>3, Sorts DEF IInv, Active
<1>4. BornInv' BY DEF BornInv
<1>5. (PubInv /\ MineInv /\ NothingOutlivesAgent /\ OneSessionPerPort /\ EvictInv
       /\ ShutdownInv /\ TodoInv)'
  BY DEF PubInv, MineInv, NothingOutlivesAgent, OneSessionPerPort, EvictInv,
     ShutdownInv, TodoInv
<1>6. WorkerNeverOutlivesSession' BY DEF WorkerNeverOutlivesSession
<1>7. ActiveInv' BY DEF ActiveInv, StopIsExclusive
<1>8. StopIsExclusive' BY DEF StopIsExclusive
<1>9. AccountedInv' BY DEF AccountedInv
<1>10. (WorkerStopsInv /\ TgtInv)' BY DEF WorkerStopsInv, TgtInv
<1> QED BY <1>4, <1>5, <1>6, <1>7, <1>8, <1>9, <1>10

\* The loop's head: all sessions are to be stopped, or the reaped ones.
LEMMA AgentTopInv ==
  ASSUME IInv, TypeInv', AgentTop
  PROVE  IInv'
<1>1. /\ \A x \in Session : todo'[x] = todo[x]
      /\ \/ apc' = "shutdown" /\ todo'[Agent] = Buses(listed)
         \/ apc' = "drain"
      /\ UNCHANGED <<born, listed, freed, bus, port, mine, pub, wpc, req, spc, tgt>>
  BY Sorts DEF AgentTop, AllBuses, identVars, IInv, TypeInv, TypeOK
<1> USE <1>1, Sorts DEF IInv, Active
<1>2. (BornInv /\ ActiveInv /\ StopIsExclusive /\ OneSessionPerPort
       /\ AccountedInv /\ PubInv /\ MineInv /\ TgtInv)'
  BY ZenonT(60) DEF BornInv, ActiveInv, StopIsExclusive, OneSessionPerPort, AccountedInv,
     PubInv, MineInv, TgtInv
<1>5. (WorkerNeverOutlivesSession /\ EvictInv /\ NothingOutlivesAgent)'
  BY DEF WorkerNeverOutlivesSession, EvictInv, NothingOutlivesAgent
<1>3. ShutdownInv' BY DEF ShutdownInv, Buses
<1>4. (WorkerStopsInv /\ TodoInv)' BY DEF WorkerStopsInv, TodoInv
<1> QED BY <1>2, <1>3, <1>4, <1>5

\* Commands that only hand the agent busids to stop.
LEMMA AgentCommandInv ==
  ASSUME IInv, TypeInv', AgentStopCommand \/ AgentStartCommand
  PROVE  IInv'
<1>1. /\ \A x \in Session : todo'[x] = todo[x]
      /\ apc' \in {"top", "start"}
      /\ UNCHANGED <<born, listed, freed, bus, port, mine, pub, wpc, spc, tgt>>
  BY Sorts DEF AgentStopCommand, AgentStartCommand, identVars, IInv, TypeInv, TypeOK
<1> USE <1>1, Sorts DEF IInv, Active
<1>2. (BornInv /\ ActiveInv /\ StopIsExclusive /\ OneSessionPerPort /\ EvictInv
       /\ AccountedInv /\ PubInv /\ MineInv /\ TgtInv /\ WorkerNeverOutlivesSession
       /\ NothingOutlivesAgent /\ ShutdownInv)'
  BY ZenonT(60) DEF BornInv, ActiveInv, StopIsExclusive, OneSessionPerPort, EvictInv,
     AccountedInv, PubInv, MineInv, TgtInv, WorkerNeverOutlivesSession,
     NothingOutlivesAgent, ShutdownInv
<1>3. (WorkerStopsInv /\ TodoInv)' BY DEF WorkerStopsInv, TodoInv
<1> QED BY <1>2, <1>3

\* Of the one listed session that can hold a port, StaleOn is that one.
LEMMA AgentDedupeInv ==
  ASSUME IInv, TypeInv', AgentDedupe
  PROVE  IInv'
<1>1. /\ \A x \in Session : todo'[x] = todo[x]
      /\ \/ apc' = "top"
         \/ apc' = "evict" /\ todo'[Agent] = Buses(StaleOn(req.port))
      /\ UNCHANGED <<born, listed, freed, bus, port, mine, pub, wpc, req, spc, tgt>>
  BY Sorts DEF AgentDedupe, identVars, IInv, TypeInv, TypeOK
<1>2. \A s \in listed : port[s] = req.port => s \in StaleOn(req.port)
  BY Sorts DEF StaleOn, IInv, OneSessionPerPort, TypeInv, TypeOK
<1> USE <1>1, Sorts DEF IInv, Active
<1>3. (BornInv /\ ActiveInv /\ StopIsExclusive /\ OneSessionPerPort /\ ShutdownInv
       /\ AccountedInv /\ PubInv /\ MineInv /\ TgtInv /\ WorkerNeverOutlivesSession
       /\ NothingOutlivesAgent)'
  BY DEF BornInv, ActiveInv, StopIsExclusive, OneSessionPerPort, ShutdownInv,
     AccountedInv, PubInv, MineInv, TgtInv, WorkerNeverOutlivesSession,
     NothingOutlivesAgent
<1>4. EvictInv' BY <1>2 DEF EvictInv, Buses
<1>5. (WorkerStopsInv /\ TodoInv)' BY DEF WorkerStopsInv, TodoInv
<1> QED BY <1>3, <1>4, <1>5

\* The new session is younger than every other and its names are free.
LEMMA AgentCreateInv ==
  ASSUME IInv, TypeInv', AgentCreate
  PROVE  IInv'
<1>1. /\ apc = "evict" /\ apc' = "top" /\ todo[Agent] = {}
      /\ UNCHANGED <<freed, mine, pub, req, todo, spc, tgt>>
  BY DEF AgentCreate, StopsDone, stopVars
<1>2. CASE UNCHANGED <<born, listed, bus, port, wpc>>
  BY <1>1, <1>2 DEF IInv, Active, BornInv, ActiveInv, StopIsExclusive,
     OneSessionPerPort, EvictInv, ShutdownInv, AccountedInv, WorkerStopsInv,
     PubInv, MineInv, TodoInv, TgtInv, WorkerNeverOutlivesSession,
     NothingOutlivesAgent
<1>3. CASE ~UNCHANGED <<born, listed, bus, port, wpc>>
  <2> DEFINE n == born + 1
  <2>1. /\ n \in Session /\ born' = n /\ listed' = listed \cup {n}
        /\ req.bus \notin Buses(listed)
        /\ bus' = [bus EXCEPT ![n] = req.bus]
        /\ port' = [port EXCEPT ![n] = req.port]
        /\ wpc' = [wpc EXCEPT ![n] = "load"]
    BY <1>3 DEF AgentCreate
  <2>2. /\ bus'[n] = req.bus /\ port'[n] = req.port /\ wpc'[n] = "load"
        /\ \A x \in Session : x # n => bus'[x] = bus[x] /\ port'[x] = port[x]
                                       /\ wpc'[x] = wpc[x]
    BY <2>1 DEF IInv, TypeInv, TypeOK
  <2>3. /\ wpc[n] = "unborn" /\ n \notin listed /\ n \notin freed
        /\ born \in Nat /\ 1..born \subseteq 1..n /\ n \notin 1..born
        /\ 1..n = 1..born \cup {n} /\ listed \subseteq Session
    BY <2>1, Sorts, ConstAssumption DEF IInv, BornInv, TypeInv, TypeOK
  <2> HIDE DEF n
  <2> USE <1>1, <2>1, <2>2, <2>3, Sorts DEF IInv, Active
  <2>4. BornInv'
    <3>1. \A x \in Session : x # n => (n < x <=> born < x)
      BY DEF n, TypeInv, TypeOK
    <3>2. ~(n < n) BY DEF TypeInv, TypeOK
    <3> QED BY <3>1, <3>2 DEF BornInv
  <2>5. ActiveInv' BY DEF ActiveInv
  <2>6. StopIsExclusive' BY DEF StopIsExclusive
  <2>7. OneSessionPerPort' BY DEF OneSessionPerPort, EvictInv, Buses
  <2>8. (EvictInv /\ ShutdownInv /\ NothingOutlivesAgent)'
    BY DEF EvictInv, ShutdownInv, NothingOutlivesAgent
  <2>9. AccountedInv' BY DEF AccountedInv
  <2>10. WorkerStopsInv' BY DEF WorkerStopsInv
  <2>11. (PubInv /\ MineInv)' BY DEF PubInv, MineInv
  <2>12. TodoInv'
    <3>1. \A t \in Session : todo[t] # {} => t < n
      BY DEF WorkerStopsInv, BornInv, n, TypeInv, TypeOK
    <3> QED BY <3>1 DEF TodoInv
  <2>13. TgtInv' BY DEF TgtInv
  <2>14. WorkerNeverOutlivesSession'
    BY DEF WorkerNeverOutlivesSession, BornInv
  <2> QED BY <2>4, <2>5, <2>6, <2>7, <2>8, <2>9, <2>10, <2>11, <2>12, <2>13, <2>14
<1> QED BY <1>2, <1>3

\* When the agent has nothing left to stop and no session is listed, no worker
\* is stopping one either: the least such worker would itself be under a stop,
\* and a stop by a worker is by an older one, or of one that has stopped all.
LEMMA NoStopLeft ==
  ASSUME IInv, listed = {}, ~Active(Agent)
  PROVE  \A t \in Thread : ~Active(t)
<1> DEFINE S == {t \in Session : Active(t)}
<1>1. SUFFICES ASSUME S # {} PROVE FALSE
  BY DEF Thread, Session, Agent
<1>2. PICK t \in S : \A u \in S : ~(u < t)
  <2>1. S \subseteq Nat BY Sorts
  <2>2. PICK t \in S : \A u \in S : <<u, t>> \notin OpToRel(<, Nat)
    BY <1>1, <2>1, NatLessThanWellFounded, WFMin
  <2> QED BY <2>1, <2>2 DEF OpToRel
<1>3. wpc[t] = "retire" /\ t \in 1..born
  BY <1>2 DEF IInv, WorkerStopsInv, BornInv, TypeInv, TypeOK, Session
<1>4. t \notin freed BY <1>3 DEF IInv, WorkerNeverOutlivesSession
<1>5. PICK u \in Thread : Active(u) /\ tgt[u] = t
  BY <1>3, <1>4 DEF IInv, AccountedInv
<1>6. u \in Session BY <1>5 DEF Thread, Session, Agent
<1>7. u < t \/ pub[t] # NoPad BY <1>5, <1>6 DEF IInv, TgtInv
<1>8. pub[t] = NoPad BY <1>3 DEF IInv, PubInv
<1> QED BY <1>2, <1>5, <1>6, <1>7, <1>8

\* run_agent returns.
LEMMA AgentExitInv ==
  ASSUME IInv, TypeInv', AgentExit
  PROVE  IInv'
<1>1. /\ apc = "shutdown" /\ apc' = "exited" /\ todo[Agent] = {} /\ ~Active(Agent)
      /\ UNCHANGED <<born, listed, freed, bus, port, mine, pub, wpc, req, todo, spc, tgt>>
  BY DEF AgentExit, StopsDone, Active, identVars, stopVars
<1>2. listed = {} BY <1>1 DEF IInv, ShutdownInv
<1>3. \A t \in Thread : ~Active(t) BY <1>1, <1>2, NoStopLeft
<1>4. freed = 1..born
  BY <1>2, <1>3 DEF IInv, AccountedInv, BornInv
<1> USE <1>1, <1>4 DEF IInv, Active
<1>5. NothingOutlivesAgent' BY DEF NothingOutlivesAgent
<1>6. (BornInv /\ ActiveInv /\ StopIsExclusive /\ OneSessionPerPort /\ EvictInv
       /\ ShutdownInv /\ AccountedInv /\ WorkerStopsInv /\ PubInv /\ MineInv
       /\ TodoInv /\ TgtInv /\ WorkerNeverOutlivesSession)'
  BY DEF BornInv, ActiveInv, StopIsExclusive, OneSessionPerPort, EvictInv,
     ShutdownInv, AccountedInv, WorkerStopsInv, PubInv, MineInv, TodoInv, TgtInv,
     WorkerNeverOutlivesSession
<1> QED BY <1>5, <1>6

\* Every step keeps the invariant.
LEMMA InvStep == IInv /\ [Next]_vars => IInv'
<1> SUFFICES ASSUME IInv, [Next]_vars PROVE IInv' OBVIOUS
<1>1. TypeInv' BY TypeStep DEF IInv
<1>2. CASE UNCHANGED core BY <1>1, <1>2, SkipInv
<1>3. CASE AgentMoves BY <1>1, <1>3, AgentMovesInv
<1>4. CASE AgentActs
  BY <1>1, <1>4, AgentTopInv, AgentCommandInv, AgentDedupeInv, AgentCreateInv,
     AgentExitInv DEF AgentActs
<1>5. ASSUME NEW s \in Session, \/ WorkerMoves(s) \/ WorkerExport(s)
                                \/ WorkerScan(s) \/ WorkerLink(s)
      PROVE  IInv'
  BY <1>1, <1>5, WorkerMovesInv, ExportInv, ScanInv, LinkInv
<1>6. ASSUME NEW t \in Thread, apc # "exited",
             StopTake(t) \/ StopMoves(t) \/ StopJoinWorker(t)
      PROVE  IInv'
  BY <1>1, <1>6, StopTakeInv, StopMovesInv, StopJoinWorkerInv
<1> QED BY StepKinds, <1>2, <1>3, <1>4, <1>5, <1>6 DEF IInv

\* The invariant holds of every behaviour.
THEOREM Invariant == Spec => []IInv
  BY InvInit, InvStep, PTL DEF Spec

\* No two listed sessions share a port or a busid: no interleaving of starts,
\* stops, reaps and retirements defeats start_bridge_session's stale check.
THEOREM PortsDistinct == Spec => []OneSessionPerPort
<1>1. IInv => OneSessionPerPort BY DEF IInv
<1> QED BY <1>1, Invariant, PTL

\* No session is torn down by two threads, although stop_bridge_session runs
\* on the agent loop and on every worker.
LEMMA StopExclusive == Spec => []StopIsExclusive
<1>1. IInv => StopIsExclusive BY DEF IInv
<1> QED BY <1>1, Invariant, PTL

\* A stop has its session to itself: no other stop has it, no search through the
\* list finds it, and the object it tears down has not been freed before.
THEOREM StopsExclusive == Spec => [](StopIsExclusive /\ ActiveInv)
<1>1. IInv => StopIsExclusive /\ ActiveInv BY DEF IInv
<1> QED BY <1>1, Invariant, PTL

\* Workers that stop each other's sessions never wait in a circle.
THEOREM RetirementsAscend == Spec => []RetirementAscends
<1>1. IInv => RetirementAscends
  <2> SUFFICES ASSUME IInv, NEW t \in Session, Active(t), ~(t < tgt[t])
               PROVE  ~Active(tgt[t]) /\ todo[tgt[t]] = {}
    BY DEF RetirementAscends, Active
  <2>1. tgt[t] \in Session BY Sorts DEF IInv, TypeInv, TypeOK, Active
  <2>2. wpc[tgt[t]] # "retire" BY <2>1 DEF IInv, TgtInv, PubInv
  <2> QED BY <2>1, <2>2 DEF IInv, WorkerStopsInv
<1> QED BY <1>1, Invariant, PTL

\* When run_agent returns, every session it started is gone.
THEOREM NothingLeft == Spec => []NothingOutlivesAgent
<1>1. IInv => NothingOutlivesAgent BY DEF IInv
<1> QED BY <1>1, Invariant, PTL

\* run_agent and its workers never have two sessions of one port, nor two threads stopping
\* one session (agent.inl, start_bridge_session and stop_bridge_session).
THEOREM SessionsStayApart == Spec => []SessionsApart
<1>1. (OneSessionPerPort /\ StopIsExclusive) => SessionsApart
  BY DEF SessionsApart
<1>2. QED
  BY PortsDistinct, StopExclusive, <1>1, PTL
=============================================================================
