--------------------------- MODULE DisplayServer ---------------------------
(***************************************************************************)
(* The display server (gui/src/display): its clients, their windows and    *)
(* surfaces, the stacking of the windows, the focus, and the requests that *)
(* processes make by system call.  Kernel code runs until it yields, so a  *)
(* call of the server is one step.                                         *)
(*                                                                         *)
(* The state is a record that the operators transform, for one handler     *)
(* makes several calls.  Only the order of z_order values is ever used:    *)
(* the model keeps the open windows as a sequence, the highest last.  Ids  *)
(* are compared for equality only: a new window takes any id that nothing  *)
(* open or held has.  A window is placed on one axis, the other is alike.  *)
(***************************************************************************)
EXTENDS Integers, FiniteSets, SequencesExt

CONSTANTS MAX_CLIENTS, MAX_WINDOWS, MAX_SURFACES,
          KEYBOARD_QUEUE,   \* keys the keyboard queue holds
          Usable,           \* the width of the usable area
          U32,              \* the modulus of unsigned arithmetic
          Procs,            \* processes that may open windows
          Requests          \* placements [x, w] a process asks for

VARIABLES clients, windows, surfaces, stack, active, counts, redraw_pending,
          keys, procs

serverVars == <<clients, windows, surfaces, stack, active, counts,
                redraw_pending, keys, procs>>

Server == [clients |-> clients, windows |-> windows, surfaces |-> surfaces,
           stack |-> stack, active |-> active, counts |-> counts,
           redraw_pending |-> redraw_pending, keys |-> keys, procs |-> procs]

ServerIs(s) ==
    /\ clients' = s.clients
    /\ windows' = s.windows
    /\ surfaces' = s.surfaces
    /\ stack' = s.stack
    /\ active' = s.active
    /\ counts' = s.counts
    /\ redraw_pending' = s.redraw_pending
    /\ keys' = s.keys
    /\ procs' = s.procs

ClientIds == 1 .. MAX_CLIENTS
WindowSlots == 1 .. MAX_WINDOWS
SurfaceSlots == 1 .. MAX_SURFACES
NONE == 0

NoClient == [connected |-> FALSE, windows |-> 0, surfaces |-> 0]
NoSurface == [client |-> NONE, window |-> NONE]
ClosedWindow == [id |-> NONE, client |-> NONE, x |-> 0, w |-> 0, visible |-> FALSE,
                 focused |-> FALSE, surface |-> NONE, callback |-> FALSE]
Nothing == [window |-> NONE, client |-> NONE]

display_server_init ==
    [clients |-> [c \in ClientIds |-> NoClient],
     windows |-> [i \in WindowSlots |-> ClosedWindow],
     surfaces |-> [i \in SurfaceSlots |-> NoSurface],
     stack |-> <<>>, active |-> Nothing,
     counts |-> [clients |-> 0, windows |-> 0, surfaces |-> 0],
     redraw_pending |-> TRUE, keys |-> <<>>, procs |-> [p \in Procs |-> NONE]]

validate_client(s, c) == c \in ClientIds /\ s.clients[c].connected
validate_window(s, id) == id # NONE /\ \E i \in WindowSlots : s.windows[i].id = id
check_window(s, c, id) ==
    /\ validate_client(s, c)
    /\ id # NONE
    /\ \E i \in WindowSlots : s.windows[i].id = id /\ s.windows[i].client = c

OpenIds(s) == {s.windows[i].id : i \in WindowSlots} \ {NONE}
SlotOf(s, id) == CHOOSE i \in WindowSlots : s.windows[i].id = id
WindowOf(s, id) == s.windows[SlotOf(s, id)]
IsShown(s, id) == WindowOf(s, id).visible
ShownIn(s, order) == SelectSeq(order, LAMBDA id : IsShown(s, id))
-----------------------------------------------------------------------------
\* Placing a new window: the arithmetic of gui_layout.c on one axis.
gui_layout_center(r, bound) ==
    LET w == IF r.w > bound THEN bound ELSE r.w
    IN  [x |-> (bound - w) \div 2, w |-> w]

gui_layout_clamp(r, bound) ==
    LET x == IF r.x < 0 THEN 0 ELSE IF r.x > bound THEN bound ELSE r.x
    IN  [x |-> x, w |-> IF (x + r.w) % U32 > bound THEN bound - x ELSE r.w]

PlaceWindow(r) ==
    LET sized == [r EXCEPT !.w = IF @ = 0 THEN (Usable * 600) \div 1000 ELSE @]
    IN  IF r.x < 0 THEN gui_layout_center(sized, Usable)
        ELSE gui_layout_clamp(sized, Usable)
-----------------------------------------------------------------------------
\* Focus.  Every change of it throws away what was typed and not yet read.

\* Mutant: what was typed before stays in the queue.
BugFocusDesktop(s) ==
    [s EXCEPT !.windows = [i \in WindowSlots |-> [@[i] EXCEPT !.focused = FALSE]],
              !.active = Nothing]

focus_desktop(s) ==
    [s EXCEPT !.keys = <<>>,
              !.windows = [i \in WindowSlots |-> [@[i] EXCEPT !.focused = FALSE]],
              !.active = Nothing]

\* A window that is not shown is not focused, but the loop has by then taken the
\* mark from the windows in the slots before it.
UnfocusBefore(s, id) ==
    [s EXCEPT !.windows = [i \in WindowSlots |->
        IF i < SlotOf(s, id) THEN [@[i] EXCEPT !.focused = FALSE] ELSE @[i]]]

Raise(s, id) ==
    [s EXCEPT !.windows = [i \in WindowSlots |-> [@[i] EXCEPT !.focused = s.windows[i].id = id]],
              !.stack = Append(Remove(@, id), id),
              !.active = [window |-> id, client |-> WindowOf(s, id).client],
              !.redraw_pending = TRUE]

focus_window(s, id) ==
    LET t == [s EXCEPT !.keys = <<>>]
    IN  IF ~validate_window(t, id) THEN t
        ELSE IF ~IsShown(t, id) THEN UnfocusBefore(t, id)
        ELSE Raise(t, id)

focus_top_window(s) ==
    LET shown == ShownIn(s, s.stack)
    IN  IF shown = <<>> THEN focus_desktop(s) ELSE focus_window(s, Last(shown))

IsAt(w, p) == p >= w.x /\ p < w.x + (IF w.w >= U32 \div 2 THEN w.w - U32 ELSE w.w)

\* The topmost of the windows at the point gets the focus.
focus_at_point(s, p) ==
    LET hit == SelectSeq(ShownIn(s, s.stack), LAMBDA id : IsAt(WindowOf(s, id), p))
    IN  IF hit = <<>> THEN focus_desktop(s) ELSE focus_window(s, Last(hit))

\* Mutant: going on from the top stops there, for nothing is above it.
BugCycleTarget(s, direction) ==
    LET shown == SelectSeq(ShownIn(s, s.stack), LAMBDA id : id # s.active.window)
        at == IF s.active.window = NONE THEN 0
              ELSE Cardinality({i \in 1 .. Len(shown) :
                     \E j, k \in 1 .. Len(s.stack) : s.stack[j] = shown[i]
                         /\ s.stack[k] = s.active.window /\ j < k})
    IN  IF shown = <<>> THEN NONE
        ELSE IF direction >= 0 THEN (IF at < Len(shown) THEN shown[at + 1] ELSE Last(shown))
        ELSE IF at > 0 THEN shown[at] ELSE Last(shown)

\* The window above the active one, or below it; past the end, from the other end.
CycleTarget(s, direction) ==
    LET shown == SelectSeq(ShownIn(s, s.stack), LAMBDA id : id # s.active.window)
        at == IF s.active.window = NONE THEN 0
              ELSE Cardinality({i \in 1 .. Len(shown) :
                     \E j, k \in 1 .. Len(s.stack) : s.stack[j] = shown[i]
                         /\ s.stack[k] = s.active.window /\ j < k})
    IN  IF shown = <<>> THEN NONE
        ELSE IF direction >= 0 THEN shown[(at % Len(shown)) + 1]
        ELSE IF at > 0 THEN shown[at] ELSE Last(shown)

cycle_window(s, direction) ==
    LET id == CycleTarget(s, direction)
    IN  IF id = NONE THEN focus_top_window(s) ELSE focus_window(s, id)
-----------------------------------------------------------------------------
\* Clients, windows and surfaces.

\* The first slot that is not connected.
connect_client(s) ==
    LET free == {c \in ClientIds : ~s.clients[c].connected}
        c == CHOOSE x \in free : \A y \in free : x <= y
    IN  IF free = {} THEN [s |-> s, id |-> NONE]
        ELSE [s |-> [s EXCEPT !.clients[c] = [NoClient EXCEPT !.connected = TRUE],
                              !.counts.clients = @ + 1],
              id |-> c]

FreeSurfaces(s) == {i \in SurfaceSlots : s.surfaces[i].window = NONE}

NewSurface(s, c, id) ==
    LET i == CHOOSE x \in FreeSurfaces(s) : \A y \in FreeSurfaces(s) : x <= y
    IN  [s |-> [s EXCEPT !.surfaces[i] = [client |-> c, window |-> id],
                         !.counts.surfaces = @ + 1,
                         !.clients[c].surfaces = @ + 1],
         id |-> i]

create_surface(s, c, id) ==
    IF validate_client(s, c) /\ validate_window(s, id) /\ FreeSurfaces(s) # {}
    THEN NewSurface(s, c, id)
    ELSE [s |-> s, id |-> NONE]

\* A window that gets no surface is given up, whichever slot is tried.
create_window(s, c, request, held) ==
    LET closed == {i \in WindowSlots : s.windows[i].id = NONE}
        i == CHOOSE x \in closed : \A y \in closed : x <= y
        unused == (1 .. Cardinality(held) + MAX_WINDOWS + 1) \ (held \cup OpenIds(s))
        id == CHOOSE x \in unused : \A y \in unused : x <= y
        place == PlaceWindow(request)
        opened == create_surface(
            [s EXCEPT !.windows[i] = [ClosedWindow EXCEPT !.id = id, !.client = c,
                                          !.x = place.x, !.w = place.w, !.visible = TRUE]],
            c, id)
    IN  IF ~validate_client(s, c) \/ closed = {} \/ FreeSurfaces(s) = {}
        THEN [s |-> s, id |-> NONE]
        ELSE [s |-> focus_window(
                 [opened.s EXCEPT !.windows[i].surface = opened.id,
                                  !.stack = <<id>> \o @,
                                  !.counts.windows = @ + 1,
                                  !.clients[c].windows = @ + 1], id),
              id |-> id]

Lowered(n, k) == IF n > k THEN n - k ELSE 0

\* The surfaces of a window, each taken off the counts of the client that owns it.
Surfaces(s, id) == {i \in SurfaceSlots : s.surfaces[i].window = id}

\* Mutant: only the surface the window was created with goes.
BugReleaseSurfaces(s, id) ==
    LET gone == {i \in Surfaces(s, id) : i = WindowOf(s, id).surface}
    IN  [s EXCEPT
        !.surfaces = [i \in SurfaceSlots |-> IF i \in gone THEN NoSurface ELSE @[i]],
        !.counts.surfaces = @ - Cardinality(gone),
        !.clients = [c \in ClientIds |-> [@[c] EXCEPT
            !.surfaces = Lowered(@, Cardinality({i \in gone : s.surfaces[i].client = c}))]]]

ReleaseSurfaces(s, id) ==
    LET gone == Surfaces(s, id)
    IN  [s EXCEPT
        !.surfaces = [i \in SurfaceSlots |-> IF i \in gone THEN NoSurface ELSE @[i]],
        !.counts.surfaces = @ - Cardinality(gone),
        !.clients = [c \in ClientIds |-> [@[c] EXCEPT
            !.surfaces = Lowered(@, Cardinality({i \in gone : s.surfaces[i].client = c}))]]]

CloseWindow(s, id) ==
    [ReleaseSurfaces(s, id) EXCEPT
        !.windows[SlotOf(s, id)] = ClosedWindow,
        !.stack = Remove(@, id),
        !.counts.windows = @ - 1,
        !.clients[WindowOf(s, id).client].windows = Lowered(@, 1),
        !.active = IF s.active.window = id THEN Nothing ELSE @]

destroy_window(s, id) ==
    IF ~validate_window(s, id) THEN s
    ELSE LET t == IF s.active.window = id THEN focus_top_window(CloseWindow(s, id))
                  ELSE CloseWindow(s, id)
         IN  [t EXCEPT !.redraw_pending = TRUE]

disconnect_client(s, c) ==
    LET close(t, i) == IF t.windows[i].id # NONE /\ t.windows[i].client = c
                       THEN destroy_window(t, t.windows[i].id) ELSE t
        t == FoldLeft(close, s, [i \in WindowSlots |-> i])
    IN  IF ~validate_client(s, c) THEN s
        ELSE [t EXCEPT !.clients[c].connected = FALSE, !.counts.clients = @ - 1,
                       !.redraw_pending = TRUE]

move_window(s, id, x) ==
    IF ~validate_window(s, id) THEN s
    ELSE [s EXCEPT !.windows[SlotOf(s, id)].x = x, !.redraw_pending = TRUE]

resize_window(s, id, w) ==
    IF ~validate_window(s, id) THEN s
    ELSE [s EXCEPT !.windows[SlotOf(s, id)].w = w, !.redraw_pending = TRUE]

show_window(s, id) ==
    IF ~validate_window(s, id) THEN s
    ELSE focus_window([s EXCEPT !.windows[SlotOf(s, id)].visible = TRUE,
                                !.redraw_pending = TRUE], id)

hide_window(s, id) ==
    IF ~validate_window(s, id) THEN s
    ELSE LET t == [s EXCEPT !.windows[SlotOf(s, id)].visible = FALSE,
                            !.redraw_pending = TRUE]
         IN  IF s.active.window = id THEN focus_top_window(t) ELSE t

set_window_render_callback(s, id, callback) ==
    IF ~validate_window(s, id) THEN s
    ELSE [s EXCEPT !.windows[SlotOf(s, id)].callback = callback, !.redraw_pending = TRUE]
-----------------------------------------------------------------------------
\* The system calls of a process, which pass the check of its client and of the
\* owner of the window, and the end of a process.
SYS_GUI_CONNECT(s, p) ==
    IF s.procs[p] # NONE THEN s
    ELSE LET got == connect_client(s) IN [got.s EXCEPT !.procs[p] = got.id]

SYS_GUI_WINDOW_CREATE(s, p, request, held) ==
    IF validate_client(s, s.procs[p]) THEN create_window(s, s.procs[p], request, held).s ELSE s

SYS_GUI_WINDOW_DESTROY(s, p, id) ==
    IF check_window(s, s.procs[p], id) THEN destroy_window(s, id) ELSE s

SYS_GUI_WINDOW_FOCUS(s, p, id) ==
    IF check_window(s, s.procs[p], id) THEN focus_window(s, id) ELSE s

SYS_GUI_WINDOW_MOVE(s, p, id, x) ==
    IF check_window(s, s.procs[p], id) THEN move_window(s, id, x) ELSE s

SYS_GUI_SURFACE_CREATE(s, p, id) ==
    IF check_window(s, s.procs[p], id) THEN create_surface(s, s.procs[p], id).s ELSE s

SYS_GUI_CYCLE_WINDOW(s, p, direction) ==
    IF s.procs[p] # NONE THEN cycle_window(s, direction) ELSE s

\* process_cleanup
ProcessEnds(s, p) ==
    IF s.procs[p] = NONE THEN s
    ELSE [disconnect_client(s, s.procs[p]) EXCEPT !.procs[p] = NONE]

\* The keyboard interrupt: a key joins the queue unless it is full.  The model
\* remembers with it the window that was active when it was pressed.
keyboard_handler(s) ==
    IF Len(s.keys) >= KEYBOARD_QUEUE THEN s
    ELSE [s EXCEPT !.keys = Append(@, s.active.window)]
=============================================================================
