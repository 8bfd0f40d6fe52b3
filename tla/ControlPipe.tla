---------------------------- MODULE ControlPipe ----------------------------
(***************************************************************************)
(* Endpoint 0 of a virtual device (handle_control of src/src/usbip/        *)
(* device.inl and the feature rules of src/src/map/runtime.cpp): the small *)
(* state a host writes and reads back, and the feature reports that are    *)
(* given by the real pad.  A DualSense has one report of many pages: the   *)
(* host names a page with SET_REPORT, the device only remembers it, and the*)
(* GET_REPORT that follows selects it on the pad and reads it, or answers  *)
(* from what it read before.                                               *)
(*                                                                         *)
(* A request runs on the thread of its import.  mapMutex_ is held for one  *)
(* look at the map at a time, never across the pad's answer, and neither   *)
(* lastFeatureSet_ nor featureCache_ has a lock of its own.  The lengths of*)
(* reports and the bytes of descriptors are left out, and so are the       *)
(* features of a composite device that its map has no rule for, which go to*)
(* the pad's interface as they are.  An operator no action uses is a       *)
(* plausible mistake in the one below it.                                  *)
(***************************************************************************)
EXTENDS Naturals

CONSTANTS Importer,    \* imports of the device
          Page,        \* featurePageRules_ that answer, by selector
          StaticPage,  \* those the map itself answers
          Control,     \* what a host sets and reads back: hidIdle_, hidProtocol_,
                       \* configuration_, interfaceAlternate_, the map's sample rate
          Level,       \* what it may set one to
          MaxSets      \* bound: SET_REPORTs

ASSUME PipeAssumption == StaticPage \subseteq Page /\ MaxSets \in Nat

None == "none"
ASSUME NoneIsNoPage == None \notin Page

\* The report of the pages, and one of usbControlMapRules_ that is plain.
PipeReport == {"paged", "plain"}
\* What a GET may be given with.
Answer == Page \cup {"plain", "stall", None}

VARIABLES
    lastSet,   \* lastFeatureSet_: a page, an ack-only selector, or another
    featureCache,
    padPage,   \* the page the pad would answer with
    levels,    \* the controls' values
    gpc,       \* by import, where its GET_REPORT is
    report,    \* the report it is for
    key,       \* cacheKey's selector
    picked,    \* the rule its actions were built from
    physical,  \* what the pad gave
    given,  \* what the host is given
    meant,     \* history: the page the host had named when it asked
    sets,
    crossed    \* history: a SET came in during another import's GET

getVars  == <<report, key, picked, physical, given, meant>>
pipeVars == <<lastSet, featureCache, padPage, levels, gpc, getVars, sets, crossed>>

PipeTypeOK ==
    /\ lastSet \in Page \cup {"ack", "other"} /\ padPage \in Page \cup {None}
    /\ featureCache \in [PipeReport \X (Page \cup {None}) -> Answer]
    /\ levels \in [Control -> Level]
    /\ gpc \in [Importer -> {"idle", "lookup", "static", "build", "select", "read",
                             "respond", "done"}]
    /\ report \in [Importer -> PipeReport] /\ key \in [Importer -> Page \cup {None}]
    /\ picked \in [Importer -> Page \cup {None}]
    /\ physical \in [Importer -> Answer] /\ given \in [Importer -> Answer]
    /\ meant \in [Importer -> Page \cup {None}]
    /\ sets \in 0..MaxSets /\ crossed \in BOOLEAN

PipeInit ==
    /\ lastSet = "other" /\ padPage = None
    /\ featureCache = [k \in PipeReport \X (Page \cup {None}) |-> None]
    /\ levels \in [Control -> Level]
    /\ gpc = [h \in Importer |-> "idle"]
    /\ report = [h \in Importer |-> "plain"]
    /\ key = [h \in Importer |-> None] /\ picked = [h \in Importer |-> None]
    /\ physical = [h \in Importer |-> None] /\ given = [h \in Importer |-> None]
    /\ meant = [h \in Importer |-> None]
    /\ sets = 0 /\ crossed = FALSE

\* find_feature_page_rule: ack-only pages answer nothing.
PageRule == IF lastSet \in Page THEN lastSet ELSE None
PageRuleFor(r) == IF r = "paged" THEN PageRule ELSE None

\* is_selector_gated_report: the pages' report is never given by the plain
\* rule it also has.
Gated(r) == r = "paged"

AtStep(h, pc) == gpc' = [gpc EXCEPT ![h] = pc]
Gives(h, a) == AtStep(h, "done") /\ given' = [given EXCEPT ![h] = a]

----------------------------------------------------------------------------
(* What handle_control answers by itself.                                  *)

\* SET_IDLE, SET_PROTOCOL, SET_CONFIGURATION, SET_INTERFACE and the endpoint's
\* sample rate; the map's packets they may start are DeviceInput's MapReports.
SetsControl(h, c, v) ==
    /\ gpc[h] = "idle" /\ levels[c] # v
    /\ levels' = [levels EXCEPT ![c] = v]
    /\ UNCHANGED <<lastSet, featureCache, padPage, gpc, getVars, sets, crossed>>

\* handle_hid_set_report of a selector: the pad is not asked for anything.
SetsFeature(h, s) ==
    /\ gpc[h] = "idle" /\ sets < MaxSets
    /\ sets' = sets + 1
    /\ lastSet' = s
    /\ crossed' = (crossed \/ \E g \in Importer \ {h} : gpc[g] # "idle")
    /\ UNCHANGED <<featureCache, padPage, levels, gpc, getVars>>

\* A SET_REPORT whose rule has an action for the pad: remembered before the pad
\* refuses it, and stalled then.
SetsOnPad(h) == SetsFeature(h, "other")

----------------------------------------------------------------------------
(* handle_hid_get_report.                                                  *)

\* cache_selector_for.
CacheSelector(r) == PageRuleFor(r)

GetBegins(h, r) ==
    /\ gpc[h] = "idle"
    /\ AtStep(h, "lookup")
    /\ report' = [report EXCEPT ![h] = r]
    /\ key' = [key EXCEPT ![h] = CacheSelector(r)]
    /\ meant' = [meant EXCEPT ![h] = PageRuleFor(r)]
    /\ UNCHANGED <<lastSet, featureCache, padPage, levels, picked, physical, given,
                   sets, crossed>>

KeyOf(h) == <<report[h], key[h]>>

GetLooksUp(h) ==
    /\ gpc[h] = "lookup"
    /\ IF featureCache[KeyOf(h)] # None
       THEN Gives(h, featureCache[KeyOf(h)])
       ELSE AtStep(h, "static") /\ UNCHANGED given
    /\ UNCHANGED <<lastSet, featureCache, padPage, levels, report, key, picked, physical,
                   meant, sets, crossed>>

\* build_static_feature_response.
StaticGiven(r) == PageRuleFor(r) \in StaticPage

\* should_cache_usb_control_response of both reports is so in the maps that have
\* them.
GetStatic(h) ==
    /\ gpc[h] = "static"
    /\ IF StaticGiven(report[h])
       THEN /\ featureCache' = [featureCache EXCEPT ![KeyOf(h)] = PageRuleFor(report[h])]
            /\ Gives(h, PageRuleFor(report[h]))
       ELSE AtStep(h, "build") /\ UNCHANGED <<featureCache, given>>
    /\ UNCHANGED <<lastSet, padPage, levels, report, key, picked, physical, meant, sets,
                   crossed>>

\* build_physical_feature_actions: the page's, else the plain rule's, else none.
FirstAction(r) == CASE PageRuleFor(r) # None -> "select"
                    [] PageRuleFor(r) = None /\ Gated(r) -> "none"
                    [] OTHER -> "read"

GetBuilds(h) ==
    /\ gpc[h] = "build"
    /\ picked' = [picked EXCEPT ![h] = PageRuleFor(report[h])]
    /\ IF FirstAction(report[h]) = "none"
       THEN Gives(h, "stall")
       ELSE AtStep(h, FirstAction(report[h])) /\ UNCHANGED given
    /\ UNCHANGED <<lastSet, featureCache, padPage, levels, report, key, physical, meant,
                   sets, crossed>>

\* The selector is set on the pad with best effort: a failure is passed over.
GetSelects(h) ==
    /\ gpc[h] = "select"
    /\ padPage' \in {picked[h], padPage}
    /\ AtStep(h, "read")
    /\ UNCHANGED <<lastSet, featureCache, levels, getVars, sets, crossed>>

\* What the pad answers a GET of r with; a page's report always answers with
\* some page.
PadAnswers(r) == IF r = "paged" THEN {padPage} \ {None} ELSE {"plain"}

GetReads(h) ==
    /\ gpc[h] = "read"
    /\ \/ \E a \in PadAnswers(report[h]) :
              /\ physical' = [physical EXCEPT ![h] = a]
              /\ AtStep(h, "respond") /\ UNCHANGED given
       \/ Gives(h, "stall") /\ UNCHANGED physical
    /\ UNCHANGED <<lastSet, featureCache, padPage, levels, report, key, picked, meant,
                   sets, crossed>>

AcceptsUnread(r, a) == PageRuleFor(r) # None \/ ~Gated(r)
\* responsePrefix: an answer for another page is refused.
Accepts(r, a) == CASE PageRuleFor(r) # None -> a = PageRuleFor(r)
                   [] PageRuleFor(r) = None /\ Gated(r) -> FALSE
                   [] OTHER -> TRUE

\* build_feature_response_from_physical, of what lastFeatureSet_ is by now, kept
\* under the key it had at first.
GetResponds(h) ==
    /\ gpc[h] = "respond"
    /\ IF Accepts(report[h], physical[h])
       THEN /\ featureCache' = [featureCache EXCEPT ![KeyOf(h)] = physical[h]]
            /\ Gives(h, physical[h])
       ELSE Gives(h, "stall") /\ UNCHANGED featureCache
    /\ UNCHANGED <<lastSet, padPage, levels, report, key, picked, physical, meant, sets,
                   crossed>>

\* The answer goes out, and the thread reads its next request.
GetEnds(h) ==
    /\ gpc[h] = "done" /\ AtStep(h, "idle")
    /\ report' = [report EXCEPT ![h] = "plain"]
    /\ key' = [key EXCEPT ![h] = None] /\ picked' = [picked EXCEPT ![h] = None]
    /\ physical' = [physical EXCEPT ![h] = None]
    /\ given' = [given EXCEPT ![h] = None]
    /\ meant' = [meant EXCEPT ![h] = None]
    /\ UNCHANGED <<lastSet, featureCache, padPage, levels, sets, crossed>>

\* A pad that went away and came back has no page selected.
PadForgets ==
    /\ padPage # None /\ padPage' = None
    /\ UNCHANGED <<lastSet, featureCache, levels, gpc, getVars, sets, crossed>>

Gets(h) == \/ GetLooksUp(h) \/ GetStatic(h) \/ GetBuilds(h) \/ GetSelects(h)
           \/ GetReads(h) \/ GetResponds(h) \/ GetEnds(h)

PipeNext ==
    \/ \E h \in Importer :
          \/ \E c \in Control, v \in Level : SetsControl(h, c, v)
          \/ \E s \in Page \cup {"ack"} : SetsFeature(h, s)
          \/ SetsOnPad(h)
          \/ \E r \in PipeReport : GetBegins(h, r)
          \/ Gets(h)
    \/ PadForgets

----------------------------------------------------------------------------
(* Properties.                                                             *)

\* A host is given the page it named, or refused: not the page the pad had
\* selected before, and not one read for another selector, whatever was cached
\* on the way, unless two imports' requests crossed.
PagesAreOwn ==
    \A h \in Importer :
        crossed \/ gpc[h] # "done" \/ given[h] = "stall"
            \/ given[h] = IF report[h] = "paged" THEN meant[h] ELSE "plain"
============================================================================
