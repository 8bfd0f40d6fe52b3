------------------------------- MODULE MCHome -------------------------------
(* An instance for TLC of what runs beside the sessions: their names, their    *)
(* settings, the connections of the REST API, the two backends that need no    *)
(* listener, and the settings window: its opening, its memory and the pads     *)
(* that move it.  They share no state and no lock, so `part` has one of them   *)
(* move and saves their product.                                               *)
EXTENDS Nicknames, ConfigStore, RestConn, EnetLink, BtBackend,
        OpenWindow, WindowMemory, WindowMover, TLC

VARIABLE part

sideVars == <<vars, cfgVars, restVars, enetVars, btVars>>
homeVars == <<sideVars, openVars, memoryVars, moverVars, part>>

AnyRequest == CHOOSE h \in RestRequest : TRUE

\* A part that does not move starts in one way only.
HomeInit ==
    /\ Init /\ ConfigInit /\ RestInit /\ EnetInit /\ BtInit
    /\ OpenInit /\ MemoryInit /\ MoverInit
    /\ part \in {"names", "settings", "rest", "enet", "bt", "open", "memory", "mover"}
    /\ part # "rest" => /\ head = AnyRequest /\ body = <<>>
                       /\ size = 1 /\ over = FALSE
    /\ part # "open" => prompt

InSide(p, A) == part = p /\ A /\ UNCHANGED <<openVars, memoryVars, moverVars, part>>

InNames(A)    == InSide("names", A /\ UNCHANGED <<cfgVars, restVars, enetVars, btVars>>)
InSettings(A) == InSide("settings", A /\ UNCHANGED <<vars, restVars, enetVars, btVars>>)
InRest(A)     == InSide("rest", A /\ UNCHANGED <<vars, cfgVars, enetVars, btVars>>)
InEnet(A)     == InSide("enet", A /\ UNCHANGED <<vars, cfgVars, restVars, btVars>>)
InBt(A)       == InSide("bt", A /\ UNCHANGED <<vars, cfgVars, restVars, enetVars>>)
InOpen(A)     == part = "open" /\ A /\ UNCHANGED <<sideVars, memoryVars, moverVars, part>>
InMemory(A)   == part = "memory" /\ A /\ UNCHANGED <<sideVars, openVars, moverVars, part>>
InMover(A)    == part = "mover" /\ A /\ UNCHANGED <<sideVars, openVars, memoryVars, part>>

HomeNext == \/ InNames(Next) \/ InSettings(ConfigNext) \/ InRest(RestNext)
            \/ InEnet(EnetNext) \/ InBt(BtNext)
            \/ InOpen(OpenNext) \/ InMemory(MemoryNext) \/ InMover(MoverNext)

HomeSpec ==
    /\ HomeInit /\ [][HomeNext]_homeVars
    /\ WF_homeVars(InSettings(Loop)) /\ WF_homeVars(InSettings(Watcher))
    /\ \A s \in CfgSession : WF_homeVars(InSettings(CfgWorker(s)))
    /\ WF_homeVars(InRest(RestSteps))
    /\ WF_homeVars(InEnet(Service)) /\ WF_homeVars(InEnet(TvSaysHello))
    /\ WF_homeVars(InBt(ReaderRuns)) /\ WF_homeVars(InBt(WriterRuns))
    /\ SF_homeVars(InBt(WriterLocks))
    /\ WF_homeVars(InBt(AskRuns)) /\ WF_homeVars(InBt(StopRuns))
    /\ WF_homeVars(InOpen(OpenSteps))

\* The settings window's memory alone.
MemorySpec == HomeInit /\ part = "memory" /\ [][HomeNext]_homeVars

\* The state of each part is well-formed, and the configs agree with their files.
HomeHolds == /\ TypeOK /\ ConfigTypeOK /\ RestTypeOK /\ EnetTypeOK /\ BtTypeOK /\ ConfigsHold
             /\ OpenTypeOK /\ MemoryTypeOK /\ MoverTypeOK

\* One window opens, on the tab that was asked for.
OpenHolds == OpensOne /\ OpensOnAsked

\* It comes back as it was left, and a pad's tap is its own.
WindowHolds == ComesBack /\ FiledUnderItsLayout /\ SnapsAreOwn

\* The connections end as the code has them end: what serves whom is with each module.
LinksServe == RestServes /\ EnetServes /\ BtServes

\* Opens end, and of the windows with a token one is left.
OpenServes == ClaimReturns /\ OneRemains

----------------------------------------------------------------------------
(* Values of the constants.                                                *)

\* The parts of one dongle, which the TV names alike, a second device of the same
\* maker, and one of another model whose product name extends the first's.
Dongle == [model |-> "kma2", serial |-> NoSerial, product |-> <<"Wireless", "Device">>]
Twin   == [model |-> "kma2", serial |-> "3286967D", product |-> <<"Wireless", "Device">>]
Other  == [model |-> "orochi", serial |-> NoSerial, product |-> <<"Wireless", "Device", "Pro">>]
ThreeDevices == {Dongle, Twin, Other}

OneSerial == [s \in CfgSession |-> CHOOSE n \in CfgSerial : TRUE]

\* Nothing, objects of none, one and two members, and what is one of these but for a
\* token.
Member == <<"str", "colon", "str">>
Bodies == {<<>>, <<"open", "close">>, <<"open">>, <<"str">>, <<"open", "close", "close">>,
           <<"open">> \o Member \o <<"close">>,
           <<"open">> \o Member \o <<"comma">> \o Member \o <<"close">>,
           <<"open">> \o Member \o <<"comma", "close">>,
           <<"open">> \o Member \o Member \o <<"close">>,
           <<"open", "str", "colon", "open", "close", "close">>}

\* A feature that is to be had, and one to be had if it can be and then one that is.
OnePage  == <<[get |-> TRUE, best |-> FALSE]>>
Selected == <<[get |-> FALSE, best |-> TRUE], [get |-> TRUE, best |-> FALSE]>>
FeatureLists == {OnePage, Selected}

\* Advanced fills most of the work area, and Simple less.  A person leaves the window past
\* either edge and at another size.
SmallOf == [l \in Layout |-> IF l = "advanced" THEN 3 ELSE 1]
LargeOf == [l \in Layout |-> IF l = "advanced" THEN 4 ELSE 2]
Rects   == {[x |-> -1, w |-> 2], [x |-> 3, w |-> 3]}
=============================================================================
