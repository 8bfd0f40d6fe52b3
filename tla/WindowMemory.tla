---------------------------- MODULE WindowMemory ----------------------------
(***************************************************************************)
(* The layout, the place and the size of the settings window               *)
(* (src/src/app/config_move.inl), which the listener keeps in memory and   *)
(* in a file, since the window is closed and made anew every time, with    *)
(* the tray's change of the layout (src/src/app/tray_icon.inl) and what    *)
(* the page does of its own                                                *)
(* (src/tools/controller-config-test-client.html).                         *)
(*                                                                         *)
(* One of the two axes is modelled, two of the three layouts, and the work *)
(* area is so small that no size is rounded and no two are alike.  A move  *)
(* of the window has landed when the call returns.  What the file holds is *)
(* saved as one.  The listener takes the requests of the page in the order *)
(* of its connections, one of which carries one request.                   *)
(***************************************************************************)
EXTENDS Integers, Sequences

CONSTANTS Span,        \* of the work area
          Margin,      \* of the outer places
          Small, Large, \* by layout, its two sizes
          OpensAt,     \* where the browser may put a new window
          Rect,        \* rectangles a person may give it
          NoRect,
          MaxPosts,    \* bound: ui/view requests under way
          MaxDeeds     \* bound: what people, pads and the tray do

Layout == {"advanced", "simple"}
Post   == [layout : Layout, restore : BOOLEAN]
Nowhere == Span + 1      \* no place remembered; no size, 0
NoSize == 0

ASSUME MemoryAssumption ==
    /\ Span \in Nat /\ Margin \in Nat /\ MaxPosts \in Nat
    /\ Small \in [Layout -> 1..Span] /\ Large \in [Layout -> 1..Span]
    /\ Rect \subseteq [x : Int \ {Nowhere}, w : 1..Span] /\ OpensAt \subseteq Int \ {Nowhere}

VARIABLES
    mem, onDisk,      \* g_compact, g_known, and by layout the index, the place and the
                      \* dragged size; window-state.txt
    win,              \* the window: what it shows, where it is, whether a person sized it
    page,             \* "asks" the listener for its layout, or is "done"
    post, beacon,     \* requests of the page under way: ui/view, in order; ui/closed
    restoring,        \* restore_geometry_soon's thread
    drag,             \* drag_begin's thread
    tray,             \* change_layout: the layout it waits to write
    showing,          \* ctm_chord_show_ui is under way
    left,             \* history: by layout, the rectangle last looked at and not changed since
    slow, misfiled,   \* history: change_layout waited in vain; a look went to another layout
    deeds

memoryVars == <<mem, onDisk, win, page, post, beacon, restoring, drag, tray, showing, left,
                slow, misfiled, deeds>>

NoWindow == [up |-> "none", face |-> "advanced", x |-> 0, w |-> Large["advanced"],
             min |-> FALSE, own |-> FALSE]
NoDrag   == [on |-> FALSE, same |-> FALSE, w |-> 1]
Blank    == [layout |-> "advanced", known |-> FALSE, idx |-> [l \in Layout |-> 0],
             pos |-> [l \in Layout |-> Nowhere], cus |-> [l \in Layout |-> NoSize]]

MemoryInit ==
    /\ mem = Blank /\ onDisk = Blank /\ win = NoWindow /\ page = "done"
    /\ post = <<>> /\ beacon = FALSE /\ restoring = FALSE /\ drag = NoDrag
    /\ tray = "none" /\ showing = FALSE
    /\ left = [l \in Layout |-> NoRect] /\ slow = FALSE /\ misfiled = FALSE /\ deeds = 0

Does    == deeds < MaxDeeds /\ deeds' = deeds + 1
Seen    == win.up \in {"up", "closing"}
InFront == win.up = "up" /\ ~win.min /\ page = "done"
Quiet == page = "done" /\ post = <<>> /\ ~restoring
-----------------------------------------------------------------------------
(* Where it goes. *)

PresetSize(m) == IF m.idx[m.layout] = 0 THEN Small[m.layout] ELSE Large[m.layout]

\* clamp_into: the right first, then the left.
Clamped(x, w) == LET r == IF x > Span - w THEN Span - w ELSE x IN IF r < 0 THEN 0 ELSE r

\* place_centre, and place_at of the middle one.
Home(w) == Clamped((Span - w) \div 2, w)

Targets(w) == <<Clamped(Margin, w), Home(w), Clamped(Span - Margin - w, w)>>
At(x, w)   == {i \in 1..3 : Targets(w)[i] = x}

\* snap_next: Advanced's one place; else home, and from one of the three the next.
Snapped(l, x, w) ==
    IF l = "advanced" \/ At(x, w) = {} THEN Home(w)
    ELSE LET i == CHOOSE i \in At(x, w) : \A j \in At(x, w) : i <= j IN Targets(w)[(i % 3) + 1]

\* apply_size: a dragged size before the preset, about the centre.
SizeOf(m)  == IF m.cus[m.layout] # NoSize THEN m.cus[m.layout] ELSE PresetSize(m)
Resized(m) == [win EXCEPT !.w = SizeOf(m), !.own = m.cus[m.layout] # NoSize,
                          !.x = Clamped(win.x + win.w \div 2 - SizeOf(m) \div 2, SizeOf(m))]

\* note_pos; clear_custom_size.
Noted(m, x) == [m EXCEPT !.pos[m.layout] = x]
Cleared(m)  == [m EXCEPT !.cus[m.layout] = NoSize]

Saves(m) == mem' = m /\ onDisk' = m
Changed(l) == left' = [left EXCEPT ![l] = NoRect]
Touched    == left' = [l \in Layout |-> IF l \in {mem.layout, win.face} THEN NoRect ELSE left[l]]
-----------------------------------------------------------------------------
(* The last look. *)

Parked   == [x |-> -9, w |-> 1]
RectNow  == IF win.min THEN Parked ELSE [x |-> win.x, w |-> win.w]

\* rect_as_left: of a minimised window the one it will come back to.
RectAsLeft == [x |-> win.x, w |-> win.w]

\* remember_size_now: the preset it was already at, or a size of its own.
SizeNoted(m, w) == IF w = PresetSize(m) THEN Cleared(m) ELSE [m EXCEPT !.cus[m.layout] = w]

\* remember_pos_now: the place is saved, then the size, but not that there is none.
LooksNow ==
    LET placed == Noted(mem, RectAsLeft.x)
        sized  == SizeNoted(placed, RectAsLeft.w)
    IN  /\ mem' = sized
        /\ onDisk' = IF RectAsLeft.w = PresetSize(mem) THEN placed ELSE sized
        /\ left' = [l \in Layout |->
                      IF l \notin {win.face, mem.layout} THEN left[l]
                      ELSE IF Quiet /\ win.face = mem.layout THEN [x |-> win.x, w |-> win.w]
                      ELSE NoRect]
        /\ misfiled' = (misfiled \/ (Quiet /\ ~slow /\ win.face # mem.layout))
-----------------------------------------------------------------------------
(* Opening. *)

Shows == /\ ~showing /\ Does /\ showing' = TRUE
         /\ UNCHANGED <<mem, onDisk, win, page, post, beacon, restoring, drag, tray, left, slow, misfiled>>

\* close_existing, without a look; the page reports that it goes.
Closing == win' = [win EXCEPT !.up = "closing"] /\ beacon' = TRUE

ShowCloses ==
    /\ showing /\ win.up = "up" /\ Closing
    /\ UNCHANGED <<mem, onDisk, page, post, restoring, drag, tray, showing, left, slow, misfiled, deeds>>

\* open_new: at Advanced's opening size whatever the layout.  The listener serves its page
\* after the requests of the one before.
ShowOpens ==
    /\ showing /\ win.up = "none" /\ post = <<>> /\ ~beacon
    /\ \E x \in OpensAt : win' = [NoWindow EXCEPT !.up = "up", !.x = x, !.w = Small["advanced"]]
    /\ page' = "asks" /\ showing' = FALSE
    /\ UNCHANGED <<mem, onDisk, post, beacon, restoring, drag, tray, left, slow, misfiled, deeds>>

\* compactHome, the page's own placing.
Placed(l) == [win EXCEPT !.face = l, !.w = Small[l], !.x = Home(Small[l]), !.own = FALSE]

\* restoreView: the listener's layout and the listener's geometry; one that knows nothing
\* leaves both to the page.
PageAsks ==
    /\ page = "asks" /\ win.up = "up" /\ page' = "done"
    /\ IF mem.known
       THEN /\ win' = [win EXCEPT !.face = mem.layout]
            /\ post' = Append(post, [layout |-> mem.layout, restore |-> TRUE])
       ELSE \E l \in Layout :
               /\ win' = IF l = "advanced" THEN [win EXCEPT !.face = l] ELSE Placed(l)
               /\ post' = Append(post, [layout |-> l, restore |-> TRUE])
    /\ UNCHANGED <<mem, onDisk, beacon, restoring, drag, tray, showing, left, slow, misfiled, deeds>>

\* set_view: a switch resets the layout's size; a window that comes back is put back.
ViewSet(l, restore) ==
    LET m == [mem EXCEPT !.layout = l, !.known = TRUE]
    IN  IF restore \/ l = mem.layout THEN Saves(m) /\ UNCHANGED left
        ELSE Saves([Cleared(m) EXCEPT !.idx[l] = 0]) /\ Changed(l)

HandlesPost ==
    /\ post # <<>> /\ post' = Tail(post)
    /\ ViewSet(Head(post).layout, Head(post).restore)
    /\ restoring' = (restoring \/ Head(post).restore)
    /\ UNCHANGED <<win, page, beacon, drag, tray, showing, slow, misfiled, deeds>>

\* restore_geometry_soon: the place is read before the size is set.
PlaceToTake(m) == IF m.pos[m.layout] = Nowhere THEN Home(SizeOf(m))
                  ELSE Clamped(m.pos[m.layout], SizeOf(m))

Restores ==
    /\ restoring /\ Seen /\ restoring' = FALSE
    /\ win' = [Resized(mem) EXCEPT !.x = PlaceToTake(mem)]
    /\ Saves(Noted(mem, PlaceToTake(mem)))
    /\ UNCHANGED <<page, post, beacon, drag, tray, showing, left, slow, misfiled, deeds>>

RestoreGivesUp ==
    /\ restoring /\ ~Seen /\ restoring' = FALSE
    /\ UNCHANGED <<mem, onDisk, win, page, post, beacon, drag, tray, showing, left, slow, misfiled, deeds>>
-----------------------------------------------------------------------------
(* While it is up. *)

\* A person by the frame, which the listener does not see.
Reshapes ==
    /\ InFront /\ Does
    /\ \E r \in Rect : win' = [win EXCEPT !.x = r.x, !.w = r.w, !.own = win.own \/ r.w # win.w]
    /\ Changed(win.face)
    /\ UNCHANGED <<mem, onDisk, page, post, beacon, restoring, drag, tray, showing, slow, misfiled>>

Minimises ==
    /\ win.up = "up" /\ Does /\ win' = [win EXCEPT !.min = ~win.min]
    /\ UNCHANGED <<mem, onDisk, page, post, beacon, restoring, drag, tray, showing, left, slow, misfiled>>

\* snap_next and nudge, for a pad's report or a key of the page.
Moves(x) ==
    /\ win' = [win EXCEPT !.x = x] /\ Saves(Noted(mem, x)) /\ Touched
    /\ UNCHANGED <<page, post, beacon, restoring, drag, tray, showing, slow, misfiled>>

Snaps  == InFront /\ Does /\ Moves(Snapped(mem.layout, win.x, win.w))
Nudges == InFront /\ Does /\ \E r \in Rect : Moves(Clamped(r.x, win.w))

\* resize_next.
ResizesNext ==
    /\ InFront /\ Does
    /\ LET m == [Cleared(mem) EXCEPT !.idx[mem.layout] = 1 - mem.idx[mem.layout]]
       IN  win' = Resized(m) /\ Saves(m)
    /\ Touched
    /\ UNCHANGED <<page, post, beacon, restoring, drag, tray, showing, slow, misfiled>>

\* setMode, from a picker or a key: the page places the window and tells the listener,
\* whatever it has told it that is not yet heard.
Switches ==
    /\ InFront /\ Len(post) < MaxPosts /\ Does
    /\ \E l \in Layout \ {win.face} :
          /\ win' = Placed(l) /\ Changed(l)
          /\ post' = Append(post, [layout |-> l, restore |-> FALSE])
    /\ UNCHANGED <<mem, onDisk, page, beacon, restoring, drag, tray, showing, slow, misfiled>>

\* drag_begin: the window of the start, at the size of the start.
DragBegins ==
    /\ InFront /\ ~drag.on /\ Does
    /\ drag' = [on |-> TRUE, same |-> TRUE, w |-> win.w]
    /\ UNCHANGED <<mem, onDisk, win, page, post, beacon, restoring, tray, showing, left, slow, misfiled>>

\* It ends: the place goes to whatever layout is current.
DragEnds ==
    /\ drag.on /\ drag' = NoDrag
    /\ \E r \in Rect :
          /\ win' = IF drag.same THEN [win EXCEPT !.x = Clamped(r.x, drag.w)] ELSE win
          /\ Saves(Noted(mem, Clamped(r.x, drag.w)))
    /\ Touched
    /\ UNCHANGED <<page, post, beacon, restoring, tray, showing, slow, misfiled, deeds>>
-----------------------------------------------------------------------------
(* Closing. *)

\* ui_close_window: the look and the close.
ClosesLooked ==
    /\ win.up = "up" /\ Does /\ LooksNow /\ Closing
    /\ UNCHANGED <<page, post, restoring, drag, tray, showing, slow>>

\* The X.
ClosesUnlooked ==
    /\ win.up = "up" /\ Does /\ Closing
    /\ UNCHANGED <<mem, onDisk, page, post, restoring, drag, tray, showing, left, slow, misfiled>>

\* ui/closed: the window may still be up.
HandlesBeacon ==
    /\ beacon /\ beacon' = FALSE
    /\ IF Seen THEN LooksNow ELSE UNCHANGED <<mem, onDisk, left, misfiled>>
    /\ UNCHANGED <<win, page, post, restoring, drag, tray, showing, slow, deeds>>

WindowGoes ==
    /\ win.up = "closing" /\ win' = NoWindow /\ page' = "done"
    /\ drag' = [drag EXCEPT !.same = FALSE]
    /\ UNCHANGED <<mem, onDisk, post, beacon, restoring, tray, showing, left, slow, misfiled, deeds>>
-----------------------------------------------------------------------------
(* The tray, and the listener itself. *)

\* change_layout: a window goes first, with a look; with none the layout is written at once.
TrayChanges(l) ==
    /\ tray = "none" /\ (~mem.known \/ mem.layout # l) /\ Does
    /\ IF Seen
       THEN LooksNow /\ Closing /\ tray' = l /\ UNCHANGED <<page, post, restoring, drag, showing, slow>>
       ELSE ViewSet(l, FALSE)
            /\ UNCHANGED <<win, page, post, beacon, restoring, drag, tray, showing, slow, misfiled>>

\* It is gone, or two seconds are over.
TrayWrites ==
    /\ tray # "none" /\ tray' = "none" /\ showing' = TRUE
    /\ ViewSet(tray, FALSE) /\ slow' = (slow \/ Seen)
    /\ UNCHANGED <<win, page, post, beacon, restoring, drag, misfiled, deeds>>

\* The listener ends, by itself or killed, and starts: state_load, and a leftover is closed.
ListenerRestarts ==
    /\ Does /\ mem' = onDisk /\ UNCHANGED <<onDisk, slow, misfiled>>
    /\ win' = NoWindow /\ page' = "done" /\ post' = <<>> /\ beacon' = FALSE
    /\ restoring' = FALSE /\ drag' = NoDrag /\ tray' = "none" /\ showing' = FALSE
    /\ left' = IF onDisk = mem THEN left ELSE [l \in Layout |-> NoRect]

MemoryNext ==
    \/ Shows \/ ShowCloses \/ ShowOpens \/ PageAsks \/ HandlesPost \/ Restores \/ RestoreGivesUp
    \/ Reshapes \/ Minimises \/ Snaps \/ Nudges \/ ResizesNext \/ Switches
    \/ DragBegins \/ DragEnds \/ ClosesLooked \/ ClosesUnlooked \/ HandlesBeacon \/ WindowGoes
    \/ (\E l \in Layout : TrayChanges(l)) \/ TrayWrites \/ ListenerRestarts
-----------------------------------------------------------------------------
MemoryTypeOK ==
    /\ mem.layout \in Layout /\ \A l \in Layout : mem.idx[l] \in {0, 1} /\ mem.cus[l] \in 0..Span
    /\ win.up \in {"none", "up", "closing"} /\ win.face \in Layout /\ win.w \in 1..Span
    /\ page \in {"asks", "done"} /\ tray \in Layout \cup {"none"}

\* A window comes back in its layout at the rectangle it had at the last look, kept on
\* screen, whatever became of it and of the listener since; excepted are a look at a window
\* that was not yet put back, a drag that ended since, and a listener whose file was behind.
ComesBack == win.up = "up" /\ Quiet /\ ~slow /\ left[win.face] # NoRect =>
    win.w = left[win.face].w /\ win.x \in {left[win.face].x, Clamped(left[win.face].x, win.w)}

\* The last look goes to the layout the window shows (tray_icon.inl:240), once it has been
\* put back and unless the tray waited for it in vain.
FiledUnderItsLayout == ~misfiled

\* What is kept as a size a person chose is one (config_move.inl: "IT MUST TELL THOSE TWO
\* APART").
KeptSizesWereChosen ==
    [][\A l \in Layout : mem.known /\ mem'.cus[l] # mem.cus[l] /\ mem'.cus[l] \notin {NoSize, onDisk.cus[l]}
          => win.own]_memoryVars
=============================================================================
