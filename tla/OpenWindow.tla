----------------------------- MODULE OpenWindow -----------------------------
(***************************************************************************)
(* Opening the settings window (src/src/app/open_ui.inl, and               *)
(* ctm_chord_show_ui in src/src/main.cpp).  Bridges, chords, the TV and    *)
(* the tray ask for it from threads of their own.  One open at a time      *)
(* holds a claim, which a thread that waits for the window lets go of;     *)
(* the losers leave their tab for it.  A page asked for from a tab and the *)
(* start of a listener open without the claim, and a second copy of the    *)
(* program opens one for the listener that runs.                           *)
(*                                                                         *)
(* A window is found by its title, which it has once its page is there.    *)
(* The page carries the token it was opened with and closes itself when    *)
(* the listener names another.  Tokens are told apart: two made within one *)
(* tick of the clock are equal in the code.                                *)
(***************************************************************************)
EXTENDS Naturals, FiniteSets

CONSTANTS Asker,        \* threads that open a window
          Tab, NoTab,   \* what it may open on; none in particular
          MaxWindows,   \* bound: windows launched
          MaxOpens      \* bound: what people and pads ask for

ASSUME OpenAssumption == NoTab \notin Tab /\ MaxWindows \in Nat

Window == 1..MaxWindows
NoToken == 0

VARIABLES
    claim, onTab,      \* g_open_in_flight, g_open_on_tab
    token, tokens,     \* g_uiToken; tokens ever made
    asker,             \* by thread, where it is, whether it has the claim, its URL
    raising,           \* raise_when_ready holds the claim
    window,            \* by launch, the browser's window and its page's URL
    prompt,            \* a browser opens within three seconds and closes within one
    asked,             \* history: the last tab left for the open in flight
    outside,           \* history: some window was opened without the claim
    opens

openVars == <<claim, onTab, token, tokens, asker, raising, window, prompt, asked, outside, opens>>

Resting == [at |-> "idle", claims |-> FALSE, token |-> NoToken, tab |-> NoTab, want |-> NoTab]
Visible(w) == window[w].at \in {"shown", "closing"}
AnyVisible == \E w \in Window : Visible(w)
NoneStarts == \A w \in Window : window[w].at # "starting"
Unused     == {w \in Window : window[w].at = "none"}

OpenInit ==
    /\ claim = FALSE /\ onTab = NoTab /\ token = NoToken /\ tokens = 0
    /\ asker = [a \in Asker |-> Resting] /\ raising = FALSE
    /\ window = [w \in Window |-> [at |-> "none", token |-> NoToken, tab |-> NoTab]]
    /\ prompt \in BOOLEAN /\ asked = NoTab /\ outside = FALSE /\ opens = 0

AskedFor == opens < MaxOpens /\ opens' = opens + 1
Goes(a, to) == asker' = [asker EXCEPT ![a].at = to]
-----------------------------------------------------------------------------
(* One open. *)

\* claim_open_on: the target is left even by one that does not get the claim.
Target(t) == IF t = NoTab THEN onTab ELSE t

Claims(a, t) ==
    /\ asker[a].at = "idle" /\ AskedFor
    /\ onTab' = Target(t) /\ claim' = TRUE
    /\ asked' = IF t = NoTab /\ claim THEN asked ELSE t
    /\ asker' = IF claim THEN asker
                ELSE [asker EXCEPT ![a] = [Resting EXCEPT !.at = "closes", !.claims = TRUE]]
    /\ UNCHANGED <<token, tokens, raising, window, prompt, outside>>

\* close_existing: the first window found, which may be any of those there are.
FindsNone(a) ==
    /\ asker[a].at = "closes" /\ ~AnyVisible /\ Goes(a, "gone")
    /\ UNCHANGED <<claim, onTab, token, tokens, raising, window, prompt, asked, outside, opens>>

ClosesOld(a) ==
    /\ asker[a].at = "closes" /\ Goes(a, "waits")
    /\ \E w \in Window : Visible(w) /\ window' = [window EXCEPT ![w].at = "closing"]
    /\ UNCHANGED <<claim, onTab, token, tokens, raising, prompt, asked, outside, opens>>

\* Until no window is to be seen, or for a second.
WaitEnds(a) ==
    /\ asker[a].at = "waits" /\ Goes(a, "gone")
    /\ prompt => \A w \in Window : window[w].at # "closing"
    /\ UNCHANGED <<claim, onTab, token, tokens, raising, window, prompt, asked, outside, opens>>

\* page_url: a new token, and under another lock the target.
Mints(a) ==
    /\ asker[a].at = "gone"
    /\ tokens' = tokens + 1 /\ token' = tokens'
    /\ asker' = [asker EXCEPT ![a].at = "minted", ![a].token = token']
    /\ UNCHANGED <<claim, onTab, raising, window, prompt, asked, outside, opens>>

TakesTarget(a) ==
    /\ asker[a].at = "minted"
    /\ asker' = [asker EXCEPT ![a].at = "ready", ![a].tab = onTab, ![a].want = asked]
    /\ onTab' = NoTab /\ asked' = NoTab
    /\ UNCHANGED <<claim, token, tokens, raising, window, prompt, outside, opens>>

LetsGo(a) == IF asker[a].claims THEN [claim |-> FALSE, raising |-> FALSE]
             ELSE [claim |-> claim, raising |-> raising]

\* The claim goes with the launch to the thread that waits for the window.
HandsOver(a) == IF asker[a].claims THEN [claim |-> TRUE, raising |-> TRUE]
                ELSE [claim |-> claim, raising |-> raising]

Launched(u) == window' = [window EXCEPT ![CHOOSE w \in Unused : \A v \in Unused : w <= v] = u]

\* open_new's ShellExecute, which may fail; the claim is handed on all the same.
Launches(a) ==
    /\ asker[a].at = "ready"
    /\ \/ /\ Unused # {}
          /\ Launched([at |-> "starting", token |-> asker[a].token, tab |-> asker[a].tab])
       \/ UNCHANGED window
    /\ claim' = HandsOver(a).claim /\ raising' = HandsOver(a).raising
    /\ asker' = [asker EXCEPT ![a] = Resting]
    /\ UNCHANGED <<onTab, token, tokens, prompt, asked, outside, opens>>

AskerStep(a) == FindsNone(a) \/ ClosesOld(a) \/ WaitEnds(a) \/ Mints(a) \/ TakesTarget(a)
                \/ Launches(a)

\* raise_when_ready and release_open: whatever window it finds will do, and a target left
\* meanwhile goes with the claim.
Raises ==
    /\ raising /\ (AnyVisible \/ ~prompt \/ NoneStarts)
    /\ raising' = FALSE /\ claim' = FALSE /\ onTab' = NoTab
    /\ UNCHANGED <<token, tokens, asker, window, prompt, asked, outside, opens>>
-----------------------------------------------------------------------------
(* Windows. *)

Turns(w, from, to) ==
    /\ window[w].at = from /\ window' = [window EXCEPT ![w].at = to]
    /\ UNCHANGED <<claim, onTab, token, tokens, asker, raising, prompt, asked>>

Appears(w)      == Turns(w, "starting", "shown") /\ UNCHANGED <<outside, opens>>
Closes(w)       == Turns(w, "closing", "gone") /\ UNCHANGED <<outside, opens>>
PersonCloses(w) == AskedFor /\ Turns(w, "shown", "closing") /\ UNCHANGED outside

\* The browser's Ctrl+Shift+T.
PersonReopens(w) == AskedFor /\ Turns(w, "gone", "shown") /\ outside' = TRUE

StaleOnce(w) == token # NoToken /\ window[w].token \notin {NoToken, token}

\* The page's poll.  A listener started anew has no token, and every one is old.
Stale(w) == window[w].token \notin {NoToken, token}

StandsDown(w) == Stale(w) /\ Turns(w, "shown", "gone") /\ UNCHANGED <<outside, opens>>
-----------------------------------------------------------------------------
(* Opens without the claim. *)

\* ui/spawn.
Spawns(a) ==
    /\ asker[a].at = "idle" /\ AskedFor /\ Goes(a, "gone") /\ outside' = TRUE
    /\ UNCHANGED <<claim, onTab, token, tokens, raising, window, prompt, asked>>

\* A second copy of the program: a window in front, or one without a token.
SecondCopy ==
    /\ ~AnyVisible /\ Unused # {} /\ AskedFor /\ outside' = TRUE
    /\ Launched([at |-> "starting", token |-> NoToken, tab |-> NoTab])
    /\ UNCHANGED <<claim, onTab, token, tokens, asker, raising, prompt, asked>>

\* The listener is killed and started: with --ui it closes a window there is and opens its own.
Restarts(a, ui) ==
    /\ AskedFor /\ outside' = TRUE
    /\ claim' = FALSE /\ onTab' = NoTab /\ token' = NoToken /\ raising' = FALSE /\ asked' = NoTab
    /\ asker' = [[b \in Asker |-> Resting] EXCEPT ![a].at = IF ui THEN "closes" ELSE "idle"]
    /\ UNCHANGED <<tokens, window, prompt>>
-----------------------------------------------------------------------------
\* A session that is bridged, a chord, the TV and the tray, each on a thread of its own.
OpensFor(a) == \E t \in Tab \cup {NoTab} : Claims(a, t)

\* What goes on by itself once a window was asked for.
OpenSteps ==
    \/ \E a \in Asker : AskerStep(a)
    \/ Raises
    \/ \E w \in Window : Appears(w) \/ Closes(w) \/ StandsDown(w)

OpenNext ==
    \/ OpenSteps \/ SecondCopy
    \/ \E a \in Asker : OpensFor(a) \/ Spawns(a) \/ \E ui \in BOOLEAN : Restarts(a, ui)
    \/ \E w \in Window : PersonCloses(w) \/ PersonReopens(w)
-----------------------------------------------------------------------------
OpenTypeOK ==
    /\ claim \in BOOLEAN /\ onTab \in Tab \cup {NoTab} /\ asked \in Tab \cup {NoTab}
    /\ tokens \in Nat /\ token \in 0..tokens /\ raising \in BOOLEAN
    /\ \A a \in Asker : asker[a].at \in {"idle", "closes", "waits", "gone", "minted", "ready"}
    /\ \A w \in Window : window[w].at \in {"none", "starting", "shown", "closing", "gone"}

\* Opens that hold the claim leave one window, however close together they are asked for,
\* where the browser keeps the times the code allows it (open_ui.inl:288: a keyboard of
\* three parts opened a window each).
OpensOne == prompt /\ ~outside =>
    Cardinality({w \in Window : window[w].at \in {"starting", "shown"}}) <= 1

\* A window opens on the tab last asked for while its open was in flight, and on none left
\* for an open before it; a tab that an open without the claim took first is excepted.
OpensOnAsked == \A a \in Asker : asker[a].claims /\ asker[a].at = "ready" => asker[a].tab = asker[a].want

\* The claim is let go of, whatever the browser does.
ClaimReturns == claim ~> ~claim

\* When nobody asks any more, at most one window with a token is left: those of other
\* opens and of earlier listeners stand down.
OneRemains == <>[](Cardinality({w \in Window : window[w].token # NoToken
                                             /\ window[w].at \in {"starting", "shown", "closing"}}) <= 1)
=============================================================================
