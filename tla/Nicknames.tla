----------------------------- MODULE Nicknames -----------------------------
(***************************************************************************)
(* The nicknames of bridge sessions: minted in start_bridge_session beside *)
(* the ordinal, and exchanged in bridge_session_worker for the name of     *)
(* another part of the same device (src/src/app/agent.inl, nickname.inl,   *)
(* same_device.inl).                                                       *)
(*                                                                         *)
(* A worker reads its sibling's name under that sibling's mutex, lets go,  *)
(* and writes its own: two steps.  A session is its ordinal; the list is   *)
(* the set of its members in that order.  A session skips itself by busid, *)
(* which no two listed sessions share (AgentSessions, OneSessionPerPort).  *)
(* A product name is its words.  An operator no action uses is a plausible *)
(* mistake in the one below it.                                            *)
(***************************************************************************)
EXTENDS Naturals, SequencesExt

CONSTANTS Name,       \* ctm_nickname::kPool, and the pool with a digit
          Identity,   \* what a HELLO may say: [model, serial, product]
          NoName, NoIdentity, NoSerial,
          Stops,      \* whether sessions are stopped in this instance
          MaxSession  \* bound: sessions started

ASSUME NameAssumption ==
    /\ MaxSession \in Nat
    /\ NoName \notin Name /\ NoIdentity \notin Identity
    /\ Stops \in BOOLEAN

Session == 1..MaxSession

VARIABLES born,     \* the last ordinal handed out
          listed,   \* g_agent_sessions
          name,     \* nickname
          minted,   \* history: the name a session was born with
          who,      \* what its HELLO said
          pc,       \* "hello", "resolve", "write" or "done"
          adopted   \* the name its worker has read

vars == <<born, listed, name, minted, who, pc, adopted>>

TypeOK ==
    /\ born \in 0..MaxSession
    /\ listed \subseteq 1..born
    /\ name \in [Session -> Name \cup {NoName}]
    /\ minted \in [Session -> Name \cup {NoName}]
    /\ who \in [Session -> Identity \cup {NoIdentity}]
    /\ pc \in [Session -> {"hello", "resolve", "write", "done"}]
    /\ adopted \in [Session -> Name \cup {NoName}]
    /\ \A s \in listed : name[s] \in Name

Init ==
    /\ born = 0 /\ listed = {}
    /\ name = [s \in Session |-> NoName]
    /\ minted = name
    /\ who = [s \in Session |-> NoIdentity]
    /\ pc = [s \in Session |-> "hello"]
    /\ adopted = name

\* same_device::name_matches: one is the other, or the other and a suffix.
NameMatches(a, b) == a # <<>> /\ b # <<>> /\ (IsPrefix(a, b) \/ IsPrefix(b, a))

\* same_device::matches.  A serial against no serial is not a match.
Matches(i, j) == /\ i.model = j.model
                 /\ i.serial = j.serial
                 /\ NameMatches(i.product, j.product)

Anything == Name
\* ctm_nickname::pick: a name no listed session has.
FreeNames == Name \ {name[s] : s \in listed}

\* start_bridge_session.
Start ==
    /\ born < MaxSession
    /\ \E n \in FreeNames :
         /\ born' = born + 1
         /\ listed' = listed \cup {born + 1}
         /\ name' = [name EXCEPT ![born + 1] = n]
         /\ minted' = [minted EXCEPT ![born + 1] = n]
    /\ UNCHANGED <<who, pc, adopted>>

\* The TV's HELLO: product_name() and physical_serial() answer from now on.
Hello(s) ==
    /\ s <= born /\ pc[s] = "hello"
    /\ \E i \in Identity : who' = [who EXCEPT ![s] = i]
    /\ pc' = [pc EXCEPT ![s] = "resolve"]
    /\ UNCHANGED <<born, listed, name, minted, adopted>>

\* The other listed sessions that are parts of this one's device.
Siblings(s) == {u \in listed \ {s} : /\ who[u] # NoIdentity
                                     /\ Matches(who[s], who[u])}

\* Nothing to adopt: a device without a product name has no identity.
Alone(s) ==
    /\ pc[s] = "resolve" /\ Siblings(s) = {}
    /\ pc' = [pc EXCEPT ![s] = "done"]
    /\ UNCHANGED <<born, listed, name, minted, who, adopted>>

\* The first match in the list.
Adopt(s) ==
    /\ pc[s] = "resolve"
    /\ \E u \in Siblings(s) :
         /\ \A v \in Siblings(s) : u <= v
         /\ adopted' = [adopted EXCEPT ![s] = name[u]]
    /\ pc' = [pc EXCEPT ![s] = "write"]
    /\ UNCHANGED <<born, listed, name, minted, who>>

\* session->nickname = adopted, the locks let go in between.
NewName(s) == adopted[s]

Rename(s) ==
    /\ pc[s] = "write"
    /\ name' = [name EXCEPT ![s] = NewName(s)]
    /\ pc' = [pc EXCEPT ![s] = "done"]
    /\ UNCHANGED <<born, listed, minted, who, adopted>>

\* A stop or a retirement takes the session off the list; its worker runs on.
Stop(s) ==
    /\ Stops /\ s \in listed
    /\ listed' = listed \ {s}
    /\ UNCHANGED <<born, name, minted, who, pc, adopted>>

\* Every session that can be started has been named for good.
Settled == /\ born = MaxSession /\ \A s \in Session : pc[s] = "done"
           /\ UNCHANGED vars

Worker(s) == Hello(s) \/ Alone(s) \/ Adopt(s) \/ Rename(s)

Next == Start \/ Settled \/ \E s \in Session : Worker(s) \/ Stop(s)

Spec == Init /\ [][Next]_vars
----------------------------------------------------------------------------
(* Properties.                                                             *)

\* A session goes by the name it was born with, or by one that was minted for
\* another part of its own device, however often it was passed on.
NameOfOwnDevice ==
    \A s \in 1..born :
        \E u \in 1..born :
            /\ name[s] = minted[u]
            /\ s = u \/ (who[s] # NoIdentity /\ who[u] # NoIdentity
                          /\ who[u].model = who[s].model)

\* Two listed sessions that still have the names they were born with have
\* different ones: only an adoption can make two devices sound alike.
MintedNamesDiffer ==
    \A s, u \in listed :
        s # u /\ name[s] = minted[s] /\ name[u] = minted[u] => name[s] # name[u]

\* A name stays with the device it was minted for, and no other device has it.
NamesHold == NameOfOwnDevice /\ MintedNamesDiffer

\* Two controllers are not called the same thing at once.
NamesDistinct ==
    \A s, u \in listed :
        name[s] = name[u] =>
            s = u \/ (/\ who[s] # NoIdentity /\ who[u] # NoIdentity
                      /\ Matches(who[s], who[u]))

\* One device, one nickname: once their workers are through, the parts of one
\* device answer to one name.
PartsAgree ==
    \A s, u \in listed :
        pc[s] = "done" /\ pc[u] = "done" /\ Matches(who[s], who[u])
            => name[s] = name[u]
=============================================================================
