------------------------------ MODULE Desktop ------------------------------
(***************************************************************************)
(* The desktop over the display server: the gsh terminals (gsh_button.c,   *)
(* terminal_window.c), the pointer (cursor.c), the dock, the shell's loop  *)
(* (shell.c) and the CPU dashboard (spike-win.c), a process of its own.    *)
(*                                                                         *)
(* One process runs the main loop; a click on the launcher runs the shell  *)
(* inside it, and the main loop goes on when the shell returns.  It and    *)
(* the dashboard are kernel code, so each runs from one yield to the next; *)
(* the main process has priority 0 and the dashboard 1, so the dashboard   *)
(* never runs twice in a row.  The mouse moves and clicks at any time.     *)
(*                                                                         *)
(* The pointer is at the height of the title bars, where the three cells   *)
(* at the right end of a window are its controls and a press elsewhere     *)
(* drags it; or on one of the dock's icons, lower down; or on the          *)
(* launcher, above the usable area.                                        *)
(***************************************************************************)
EXTENDS DisplayServer

CONSTANTS GSH_MAX_EXTRA_WINDOWS,
          Points,           \* where the pointer may be
          Dock,             \* how far across the dock's first icon is
          TerminalWidth,    \* the width of a terminal and of the dashboard
          Commands,         \* what the shell may be told to do
          MaxActs           \* what the user and the processes do, keys apart

VARIABLES term, gsh, shell, console, dock, mouse, cursor_prev, spike,
          done,             \* how much they have done
          beat,             \* changed by every turn of the main process
          turn              \* is the dashboard's turn next?

vars == <<serverVars, term, gsh, shell, console, dock, mouse, cursor_prev, spike,
          done, beat, turn>>

Desk == [clients |-> clients, windows |-> windows, surfaces |-> surfaces,
         stack |-> stack, active |-> active, counts |-> counts,
         redraw_pending |-> redraw_pending, keys |-> keys, procs |-> procs,
         term |-> term, gsh |-> gsh, shell |-> shell, console |-> console,
         dock |-> dock, mouse |-> mouse, cursor_prev |-> cursor_prev,
         spike |-> spike, done |-> done, beat |-> beat,
         turn |-> turn]

Become(d) ==
    /\ ServerIs(d)
    /\ term' = d.term
    /\ gsh' = d.gsh
    /\ shell' = d.shell
    /\ console' = d.console
    /\ dock' = d.dock
    /\ mouse' = d.mouse
    /\ cursor_prev' = d.cursor_prev
    /\ spike' = d.spike
    /\ done' = d.done
    /\ beat' = d.beat
    /\ turn' = d.turn

Launcher == -1
Icon(i) == Usable + i
OnBar(p) == p \in 0 .. Usable - 1
Across(p) == IF p >= Usable THEN p - Usable + Dock ELSE p

MainTerminal == 0
ExtraTerminals == 1 .. GSH_MAX_EXTRA_WINDOWS
Terminals == 0 .. GSH_MAX_EXTRA_WINDOWS
NoTerminal == -1
NoRegion == -2

terminal_window_init(x) ==
    [id |-> NONE, x |-> x, w |-> TerminalWidth, visible |-> TRUE, minimized |-> FALSE,
     maximized |-> FALSE, normal |-> x, dragging |-> FALSE, offset |-> 0]

NoSpike == [pc |-> "none", id |-> NONE, x |-> 0, w |-> TerminalWidth, full |-> FALSE,
            saved |-> 0, dragging |-> FALSE, offset |-> 0, prev |-> FALSE, close |-> FALSE,
            minimize |-> FALSE, restore |-> FALSE, launch |-> 0]

\* desktop_init connects a client of its own, gsh_button_init the terminals'.
Booted == connect_client(connect_client(display_server_init).s).s
GshClient == 2

gsh_button_init ==
    /\ term = [t \in Terminals |-> IF t = MainTerminal THEN terminal_window_init(0)
                                   ELSE [terminal_window_init(0) EXCEPT !.visible = FALSE]]
    /\ gsh = [window_active |-> FALSE, launch_pressed |-> FALSE, pointer |-> FALSE,
              server_window_id |-> NONE, active |-> MainTerminal]

Init ==
    /\ clients = Booted.clients
    /\ windows = Booted.windows
    /\ surfaces = Booted.surfaces
    /\ stack = Booted.stack
    /\ active = Booted.active
    /\ counts = Booted.counts
    /\ redraw_pending = Booted.redraw_pending
    /\ keys = Booted.keys
    /\ procs = Booted.procs
    /\ gsh_button_init
    /\ shell = [pc |-> "none", depth |-> 0, should_exit |-> FALSE, region |-> NoRegion, prev |-> FALSE]
    /\ console = NoTerminal
    /\ dock = [app_count |-> 0, spike_active |-> FALSE]
    /\ mouse = [at |-> Launcher, left |-> FALSE]
    /\ done = 0
    /\ beat = FALSE
    /\ turn = FALSE
    /\ cursor_prev = FALSE
    /\ spike = NoSpike

\* Ids some variable still holds: a new window gets another one.
Held(d) == ({d.term[t].id : t \in Terminals} \cup {d.spike.id}) \ {NONE}

FocusAt(d, p) == IF p = Launcher THEN focus_desktop(d) ELSE focus_at_point(d, Across(p))
-----------------------------------------------------------------------------
\* Painting.  A terminal that is drawn becomes the console's region.
owns_window(d, id) == \E t \in Terminals : id # NONE /\ d.term[t].id = id
TerminalOf(d, id) == CHOOSE t \in Terminals : d.term[t].id = id

set_bounds(d, t) == IF d.term[t].visible THEN [d EXCEPT !.console = t] ELSE d

\* The visible terminals that have a window are drawn from the lowest up.
redraw_other_gsh_windows(d, but) ==
    LET order == SelectSeq(d.stack, LAMBDA id : owns_window(d, id)
                     /\ TerminalOf(d, id) # but /\ d.term[TerminalOf(d, id)].visible)
    IN  IF order = <<>> THEN d ELSE set_bounds(d, TerminalOf(d, Last(order)))

output_refresh(d) == redraw_other_gsh_windows(d, NoTerminal)

\* A region that starts left of the screen has a huge unsigned x, and is skipped.
output_refresh_region(d, x) == IF x < 0 THEN d ELSE redraw_other_gsh_windows(d, NoTerminal)

set_exit_region(d, t) == [d EXCEPT !.shell.region = d.term[t].x + d.term[t].w - 1]
clear_exit_region(d) == [d EXCEPT !.shell.region = NoRegion]

ControlAt(w, p) ==
    IF ~OnBar(p) THEN "none"
    ELSE IF p = w.x + w.w - 1 THEN "close"
    ELSE IF p = w.x + w.w - 2 THEN "minimize"
    ELSE IF p = w.x + w.w - 3 THEN "fullscreen"
    ELSE "none"
terminal_control_at(d, t, p) == IF d.term[t].visible THEN ControlAt(d.term[t], p) ELSE "none"
-----------------------------------------------------------------------------
\* The terminals.
gsh_focus_terminal(d, t, id) ==
    IF ~validate_window(d, id) THEN d
    ELSE LET f == focus_window([d EXCEPT !.gsh.active = t, !.gsh.server_window_id = id], id)
         IN  set_exit_region(set_bounds(output_refresh(f), t), t)

\* The first extra terminal whose id is free; when the server has no window for
\* it, it stays free.
gsh_open_extra_window(d) ==
    LET free == {t \in ExtraTerminals : d.term[t].id = NONE}
        t == CHOOSE x \in free : \A y \in free : x <= y
        new == terminal_window_init(t)
        got == create_window(d, GshClient, [x |-> new.x, w |-> new.w], Held(d))
        opened == [got.s EXCEPT !.term[t] = [new EXCEPT !.id = got.id]]
    IN  IF free = {} THEN d
        ELSE IF got.id = NONE THEN opened
        ELSE set_exit_region(
               set_bounds(
                 focus_window([opened EXCEPT !.gsh.active = t,
                                             !.gsh.server_window_id = got.id], got.id), t), t)

\* The free extra terminals have the id NONE, and so are found when nothing is active.
gsh_terminal_for_window_id(d, id) ==
    LET found == {t \in ExtraTerminals : d.term[t].id = id}
    IN  IF id # NONE /\ id = d.term[MainTerminal].id THEN MainTerminal
        ELSE IF found = {} THEN NoTerminal
        ELSE CHOOSE t \in found : \A u \in found : t <= u

\* An extra terminal closes, and the highest of the others gets the focus; the
\* main one asks the shell to end.
gsh_close_active_window(d) ==
    LET t == d.gsh.active
        closed == [destroy_window([d EXCEPT !.term[t].visible = FALSE,
                                            !.console = NoTerminal], d.term[t].id)
                     EXCEPT !.term[t].id = NONE]
        left == SelectSeq(closed.stack,
                          LAMBDA id : \E u \in ExtraTerminals : closed.term[u].id = id)
        drawn == output_refresh(closed)
    IN  IF t = MainTerminal THEN [d EXCEPT !.shell.should_exit = TRUE]
        ELSE IF left # <<>>
        THEN gsh_focus_terminal(drawn, gsh_terminal_for_window_id(drawn, Last(left)), Last(left))
        ELSE clear_exit_region([drawn EXCEPT !.gsh.active = MainTerminal,
                                             !.gsh.server_window_id = NONE])

gsh_toggle_fullscreen(d, t) ==
    LET w == d.term[t]
        new == IF w.maximized
               THEN [w EXCEPT !.x = w.normal, !.w = TerminalWidth, !.maximized = FALSE]
               ELSE [w EXCEPT !.normal = w.x, !.x = 0, !.w = Usable, !.maximized = TRUE]
        placed == resize_window(move_window([d EXCEPT !.term[t] = new], w.id, new.x),
                                w.id, new.w)
        drawn == IF w.maximized THEN output_refresh(placed) ELSE placed
    IN  set_exit_region(set_bounds(drawn, t), t)

gsh_minimize(d) ==
    LET t == d.gsh.active
        gone == [d EXCEPT !.term[t].visible = FALSE, !.term[t].minimized = TRUE]
        hidden == IF d.gsh.server_window_id = NONE THEN gone
                  ELSE focus_desktop(hide_window(gone, d.gsh.server_window_id))
    IN  IF t = MainTerminal
        THEN output_refresh(clear_exit_region(
               [hidden EXCEPT !.console = NoTerminal, !.dock.app_count = 1]))
        ELSE output_refresh(clear_exit_region(hide_window(gone, d.term[t].id)))

gsh_restore(d) ==
    LET back == [d EXCEPT !.dock.app_count = 0, !.term[MainTerminal].visible = TRUE,
                          !.term[MainTerminal].minimized = FALSE]
        id == d.gsh.server_window_id
        shown == IF validate_window(back, id)
                 THEN focus_window(show_window(back, id), id) ELSE back
    IN  set_exit_region(set_bounds(shown, MainTerminal), MainTerminal)

\* shell_run up to its first turn, entered from the click that launches it.
gsh_launch(d) ==
    LET main == d.term[MainTerminal]
        got == create_window(d, GshClient, [x |-> main.x, w |-> main.w], Held(d))
        opened == IF d.gsh.server_window_id # NONE THEN d
                  ELSE [got.s EXCEPT !.gsh.server_window_id = got.id,
                                     !.term[MainTerminal].id = got.id]
        shown == [opened EXCEPT !.gsh.window_active = TRUE, !.gsh.launch_pressed = TRUE,
                                !.gsh.active = MainTerminal,
                                !.term[MainTerminal].visible = TRUE]
        bound == set_exit_region(set_bounds(shown, MainTerminal), MainTerminal)
    IN  [bound EXCEPT !.shell.pc = "loop", !.shell.depth = @ + 1,
                      !.shell.should_exit = FALSE, !.shell.prev = d.mouse.left]

\* While gsh is up a click restores the main terminal or opens another one; when
\* there is no room for another it goes back to one that is open, and if none is
\* it launches a second shell from within the first.
gsh_focus_existing_window(d) ==
    LET valid == {t \in ExtraTerminals : validate_window(d, d.term[t].id)}
        first == CHOOSE t \in valid : \A u \in valid : t <= u
    IN  IF d.gsh.active # MainTerminal THEN d
        ELSE IF validate_window(d, d.gsh.server_window_id)
        THEN gsh_focus_terminal(d, MainTerminal, d.gsh.server_window_id)
        ELSE IF valid # {} THEN gsh_focus_terminal(d, first, d.term[first].id)
        ELSE gsh_launch([d EXCEPT !.gsh.server_window_id = NONE])

gsh_button_click(d) ==
    IF ~d.gsh.window_active THEN gsh_launch(d)
    ELSE IF d.gsh.launch_pressed THEN d
    ELSE IF d.gsh.active = MainTerminal /\ ~d.term[MainTerminal].visible THEN gsh_restore(d)
    ELSE gsh_focus_existing_window(gsh_open_extra_window(d))

\* The tail of gsh_button_click, once shell_run has returned, and the rest of the
\* cursor_poll that made the call.
gsh_button_click_returns(d) ==
    LET t == d.gsh.active
        closed == clear_exit_region([d EXCEPT !.term[t].visible = FALSE,
                                              !.console = NoTerminal])
        gone == IF d.gsh.server_window_id = NONE THEN closed
                ELSE [destroy_window(closed, d.gsh.server_window_id)
                        EXCEPT !.gsh.server_window_id = NONE]
        drawn == output_refresh([gone EXCEPT !.dock.app_count = 0])
    IN  [drawn EXCEPT !.gsh.window_active = FALSE, !.gsh.active = MainTerminal,
                      !.shell.depth = @ - 1, !.cursor_prev = TRUE]

gsh_button_is_input_enabled(d) ==
    /\ d.gsh.window_active
    /\ d.gsh.server_window_id # NONE
    /\ d.term[d.gsh.active].visible
    /\ ~d.term[d.gsh.active].minimized
    /\ d.active.window = d.gsh.server_window_id

\* window_handle_pointer, and the clamping of the terminal that is dragged.
DraggedTerminal(w, p, left) ==
    LET on == left /\ (w.dragging \/ (OnBar(p) /\ p >= w.x /\ p < w.x + w.w))
        offset == IF ~left THEN 0 ELSE IF on /\ ~w.dragging THEN p - w.x ELSE w.offset
        x == IF on THEN Across(p) - offset ELSE w.x
        most == IF Usable > w.w THEN Usable - w.w ELSE 0
    IN  [w EXCEPT !.dragging = on, !.offset = offset,
                  !.x = IF x < 0 THEN 0 ELSE IF x > most THEN most ELSE x]

gsh_drag(d) ==
    LET t == d.gsh.active
        w == DraggedTerminal(d.term[t], d.mouse.at, d.mouse.left)
        e == [d EXCEPT !.term[t] = w]
        placed == move_window(e, e.gsh.server_window_id, w.x)
    IN  IF w.x = d.term[t].x THEN e
        ELSE set_bounds(redraw_other_gsh_windows(
               output_refresh_region(set_exit_region(placed, t), 0), t), t)

gsh_follow_focus(d) ==
    LET t == gsh_terminal_for_window_id(d, d.active.window)
    IN  IF t \in {NoTerminal, d.gsh.active} THEN d
        ELSE gsh_focus_terminal(d, t, d.active.window)

gsh_button_poll_pointer(d) ==
    LET pressed == d.mouse.left /\ ~d.gsh.pointer
        control == IF pressed THEN terminal_control_at(d, d.gsh.active, d.mouse.at) ELSE "none"
        seen == [d EXCEPT !.gsh.pointer = d.mouse.left,
                          !.gsh.launch_pressed = control # "none" \/ (@ /\ d.mouse.left)]
    IN  IF ~d.gsh.window_active \/ d.term[d.gsh.active].minimized
        THEN [d EXCEPT !.gsh.pointer = d.mouse.left, !.gsh.launch_pressed = @ /\ d.mouse.left]
        ELSE IF control = "fullscreen" THEN gsh_toggle_fullscreen(seen, d.gsh.active)
        ELSE IF control = "minimize" THEN gsh_minimize(seen)
        ELSE IF control = "close" THEN gsh_close_active_window(seen)
        ELSE gsh_drag(IF pressed THEN gsh_follow_focus(seen) ELSE seen)
-----------------------------------------------------------------------------
\* The dashboard, and the pointer.
spike_window_restore(d) ==
    IF d.spike.id = NONE THEN d
    ELSE output_refresh(focus_window(
           show_window([d EXCEPT !.spike.restore = TRUE], d.spike.id), d.spike.id))

spike_minimize(d) ==
    focus_desktop(hide_window([d EXCEPT !.dock.spike_active = TRUE], d.spike.id))

spike_window_handle_pointer(d, p) ==
    LET f == FocusAt(d, p)
    IN  IF d.spike.id = NONE \/ ~IsAt(d.spike, Across(p)) \/ p = Launcher THEN d
        ELSE IF f.active.window # d.spike.id THEN f
        ELSE IF ControlAt(d.spike, p) = "close" THEN [f EXCEPT !.spike.close = TRUE]
        ELSE IF ControlAt(d.spike, p) = "minimize"
        THEN output_refresh(spike_minimize([f EXCEPT !.spike.minimize = TRUE]))
        ELSE f

\* The icons of the dock and the launcher, once the press has moved the focus.
IconClicked(d, p) ==
    IF d.gsh.window_active /\ ~d.term[MainTerminal].visible
       /\ d.dock.app_count > 0 /\ p = Icon(0)
    THEN gsh_button_click(d)
    ELSE IF d.dock.spike_active /\ p = Icon(IF d.dock.app_count > 0 THEN 1 ELSE 0)
    THEN spike_window_restore(d)
    ELSE IF p = Launcher THEN gsh_button_click(d)
    ELSE d

Clicked(d, p) ==
    IconClicked(spike_window_handle_pointer(
        IF p = Launcher THEN d ELSE output_refresh(FocusAt(d, p)), p), p)

\* previous_buttons is set last: while a shell runs that the click launched, the
\* press still looks new.
ButtonsSeen(d, e) ==
    IF e.shell.depth > d.shell.depth THEN e ELSE [e EXCEPT !.cursor_prev = d.mouse.left]

cursor_poll(d) ==
    ButtonsSeen(d, IF d.mouse.left /\ ~d.cursor_prev THEN Clicked(d, d.mouse.at) ELSE d)

\* shell_poll_mouse after its cursor_poll.
ExitClicked(d, e) ==
    LET out == d.mouse.left /\ ~d.shell.prev /\ d.mouse.at = e.shell.region
    IN  [e EXCEPT !.shell.should_exit = @ \/ out, !.shell.prev = d.mouse.left]
PointerPolled(d) == ExitClicked(d, gsh_button_poll_pointer(d))

\* A shell that the click launched has its first turn.
FirstTurn(d, e) == IF e.shell.depth > d.shell.depth THEN cursor_poll(e) ELSE e
shell_poll_mouse(d) == PointerPolled(FirstTurn(d, cursor_poll(d)))

\* Mutant: a dashboard that gets no window does not say so.
BugSpikeStarts(d) ==
    LET got == connect_client(d)
        new == create_window(got.s, got.id, [x |-> 0, w |-> TerminalWidth], Held(d))
    IN  IF got.id = NONE \/ new.id = NONE
        THEN [new.s EXCEPT !.spike.pc = "none"]
        ELSE [set_window_render_callback(focus_window(new.s, new.id), new.id, TRUE) EXCEPT
                !.spike = [@ EXCEPT !.pc = "loop", !.id = new.id, !.x = 0, !.w = TerminalWidth,
                                    !.full = FALSE, !.saved = 0, !.dragging = FALSE,
                                    !.offset = 0, !.prev = FALSE, !.launch = 1]]

\* The dashboard's process: connect, open the window, tell the shell.
spike_window_starts(d) ==
    LET got == connect_client(d)
        new == create_window(got.s, got.id, [x |-> 0, w |-> TerminalWidth], Held(d))
    IN  IF got.id = NONE \/ new.id = NONE
        THEN [new.s EXCEPT !.spike.pc = "none", !.spike.launch = 2]
        ELSE [set_window_render_callback(focus_window(new.s, new.id), new.id, TRUE) EXCEPT
                !.spike = [@ EXCEPT !.pc = "loop", !.id = new.id, !.x = 0, !.w = TerminalWidth,
                                    !.full = FALSE, !.saved = 0, !.dragging = FALSE,
                                    !.offset = 0, !.prev = FALSE, !.launch = 1]]

spike_toggle_fullscreen(d) ==
    LET w == d.spike
        new == IF w.full THEN [w EXCEPT !.x = w.saved, !.w = TerminalWidth, !.full = FALSE]
               ELSE [w EXCEPT !.saved = w.x, !.x = 0, !.w = Usable, !.full = TRUE]
    IN  resize_window(move_window([d EXCEPT !.spike = new], w.id, new.x), w.id, new.w)

spike_drag(d, p) ==
    LET w == d.spike
        on == d.mouse.left /\ ControlAt(w, p) = "none"
              /\ (w.dragging \/ (OnBar(p) /\ IsAt(w, p)))
        offset == IF on /\ ~w.dragging THEN p - w.x ELSE w.offset
        x == Across(p) - offset
        moved == move_window([d EXCEPT !.spike.dragging = TRUE, !.spike.offset = offset,
                                       !.spike.x = x], w.id, x)
    IN  IF on /\ x # w.x THEN output_refresh_region(moved, IF x < w.x THEN x ELSE w.x)
        ELSE IF on THEN [d EXCEPT !.spike.dragging = TRUE, !.spike.offset = offset]
        ELSE IF ~d.mouse.left THEN [d EXCEPT !.spike.dragging = FALSE, !.spike.offset = 0]
        ELSE d

spike_window_ends(d) ==
    [destroy_window(set_window_render_callback(d, d.spike.id, FALSE), d.spike.id) EXCEPT
        !.spike = [NoSpike EXCEPT !.close = d.spike.close, !.minimize = d.spike.minimize,
                                  !.restore = d.spike.restore],
        !.dock.spike_active = FALSE]

\* The rest of a turn: requests made by the pointer's own handler, and a sample.
spike_requests(d, sample) ==
    LET e == [d EXCEPT !.spike.minimize = FALSE, !.spike.restore = FALSE,
                       !.spike.prev = d.mouse.left]
    IN  IF d.spike.close
        THEN spike_window_ends([d EXCEPT !.spike.close = FALSE, !.spike.minimize = FALSE])
        ELSE IF sample /\ d.active.window # d.spike.id THEN output_refresh_region(e, d.spike.x)
        ELSE e

\* A turn of the loop that finds no new press.
spike_holds(d, sample) ==
    spike_requests(IF d.active.window = d.spike.id THEN spike_drag(d, d.mouse.at) ELSE d, sample)

\* A press on a control takes the loop back to its start, without a yield.
spike_window_turn(d, sample) ==
    LET pressed == d.mouse.left /\ ~d.spike.prev
        f == IF pressed THEN FocusAt(d, d.mouse.at) ELSE d
        control == IF pressed /\ f.active.window = d.spike.id
                   THEN ControlAt(d.spike, d.mouse.at) ELSE "none"
    IN  IF control = "close" THEN spike_window_ends(f)
        ELSE IF control = "minimize" THEN spike_holds(spike_minimize(f), sample)
        ELSE IF control = "fullscreen" THEN spike_holds(spike_toggle_fullscreen(f), sample)
        ELSE spike_holds(f, sample)
-----------------------------------------------------------------------------
MainHasRun(d) == [d EXCEPT !.turn = d.spike.pc # "none", !.beat = ~@]
SpikeHasRun(d) == [d EXCEPT !.turn = FALSE]

\* The main loop: display_server_tick and cursor_poll.
Launched(d) == IF d.shell.depth = 0 THEN d ELSE shell_poll_mouse(d)

Tick ==
    LET drawn == IF redraw_pending
                 THEN [output_refresh(Desk) EXCEPT !.redraw_pending = FALSE] ELSE Desk
    IN  /\ shell.pc = "none"
        /\ Become(MainHasRun(Launched(cursor_poll(drawn))))

\* A turn of the shell's loop.  A key that is read may complete a command.
ShellTurn ==
    LET reads == gsh_button_is_input_enabled(Desk) /\ keys # <<>>
        read == IF reads THEN [Desk EXCEPT !.keys = Tail(@)] ELSE Desk
    IN  /\ shell.pc = "loop"
        /\ ~shell.should_exit
        /\ \/ \E exit \in BOOLEAN :
                /\ exit => reads /\ "exit" \in Commands
                /\ Become(MainHasRun(shell_poll_mouse([read EXCEPT !.shell.should_exit = exit])))
           \/ /\ reads
              /\ "cpu-spike" \in Commands
              /\ spike.launch # 1
              /\ Become(MainHasRun([read EXCEPT !.shell.pc = "wait",
                            !.spike.pc = "start", !.spike.launch = 0,
                            !.spike.close = FALSE, !.spike.minimize = FALSE]))

\* shell_spike_command yields until the dashboard is up or has failed.
ShellWait ==
    /\ shell.pc = "wait"
    /\ Become(MainHasRun(IF spike.launch = 0 THEN Desk
                         ELSE shell_poll_mouse([Desk EXCEPT !.shell.pc = "loop"])))

\* shell_should_exit is not reset: a shell that was waiting ends after its turn.
Returned(d) ==
    IF d.shell.depth > 0 THEN PointerPolled(d)
    ELSE [d EXCEPT !.shell.pc = "none", !.shell.should_exit = FALSE]

ShellReturn ==
    /\ shell.pc = "loop"
    /\ shell.should_exit
    /\ Become(MainHasRun(Returned(gsh_button_click_returns(Desk))))

Main == Tick \/ ShellTurn \/ ShellWait \/ ShellReturn

SpikeStart ==
    /\ spike.pc = "start"
    /\ turn
    /\ Become(SpikeHasRun(spike_window_starts(Desk)))

SpikeTurn ==
    /\ spike.pc = "loop"
    /\ turn
    /\ \E sample \in BOOLEAN : Become(SpikeHasRun(spike_window_turn(Desk, sample)))

\* Where the pointer is matters only while the button is down.
MousePress ==
    /\ ~mouse.left
    /\ done < MaxActs
    /\ \E p \in Points : Become([Desk EXCEPT !.mouse = [at |-> p, left |-> TRUE],
                                             !.done = @ + 1])
MouseMove ==
    /\ mouse.left
    /\ done < MaxActs
    /\ \E p \in Points \ {mouse.at} : Become([Desk EXCEPT !.mouse.at = p, !.done = @ + 1])
MouseRelease ==
    /\ mouse.left
    /\ Become([Desk EXCEPT !.mouse = [at |-> Launcher, left |-> FALSE]])
Key == Become(keyboard_handler(Desk))

\* Requests of processes; each id is one of their windows or another's.
Called(d) == Become([d EXCEPT !.done = @ + 1])

ProcessCall ==
    /\ done < MaxActs
    /\ \E p \in Procs :
       \/ Called(SYS_GUI_CONNECT(Desk, p))
       \/ \E r \in Requests : Called(SYS_GUI_WINDOW_CREATE(Desk, p, r, Held(Desk)))
       \/ \E id \in OpenIds(Desk) :
             \/ Called(SYS_GUI_WINDOW_DESTROY(Desk, p, id))
             \/ Called(SYS_GUI_WINDOW_FOCUS(Desk, p, id))
             \/ \E r \in Requests : Called(SYS_GUI_WINDOW_MOVE(Desk, p, id, r.x))
             \/ Called(SYS_GUI_SURFACE_CREATE(Desk, p, id))
       \/ \E direction \in {-1, 1} : Called(SYS_GUI_CYCLE_WINDOW(Desk, p, direction))
       \/ Called(ProcessEnds(Desk, p))

Next ==
    \/ Main \/ SpikeStart \/ SpikeTurn
    \/ MousePress \/ MouseMove \/ MouseRelease \/ Key \/ ProcessCall

\* The main process is always ready and no other has its priority, so it runs
\* again and again; and so does the dashboard, which is next after it.  Both have
\* a turn they can take whenever it is theirs, so that taking it is a change of
\* beat, or of turn.
Spec ==
    /\ Init
    /\ [][Next]_vars
    /\ WF_beat(beat' = ~beat)
    /\ WF_turn(turn /\ turn' = FALSE)
-----------------------------------------------------------------------------
(***************************************************************************)
(* Whatever the order of clicks, requests and process ends, the server's   *)
(* books balance (server.c:232-623): the counts are those of what is open, *)
(* every window is stacked once and has an owner that is connected, every  *)
(* surface belongs to an open window and to a client that counts it.       *)
(***************************************************************************)
ServerBooksExact ==
    /\ counts.clients = Cardinality({c \in ClientIds : clients[c].connected})
    /\ counts.windows = Cardinality(OpenIds(Desk))
    /\ counts.surfaces = Cardinality({i \in SurfaceSlots : surfaces[i].window # NONE})
    /\ Len(stack) = counts.windows /\ ToSet(stack) = OpenIds(Desk)
    /\ \A i \in WindowSlots : windows[i].id # NONE =>
          /\ clients[windows[i].client].connected
          /\ surfaces[windows[i].surface].window = windows[i].id
          /\ \A j \in WindowSlots : windows[j].id = windows[i].id => i = j
    /\ \A i \in SurfaceSlots : surfaces[i].window # NONE => surfaces[i].window \in OpenIds(Desk)
    /\ \A c \in ClientIds :
          /\ clients[c].windows = Cardinality({i \in WindowSlots : windows[i].client = c})
          /\ clients[c].surfaces = Cardinality({i \in SurfaceSlots : surfaces[i].client = c})

(***************************************************************************)
(* Keys go where the user sees them go (focus.c, server.c:683, gsh_button.c*)
(* :240).  The active window is open, shown, above every other shown one,  *)
(* and no other is marked focused; a queued key was typed into the window  *)
(* that is active now; and when the shell may read a key, what it echoes   *)
(* goes to the terminal of that window.                                    *)
(***************************************************************************)
KeysReachTheirWindow ==
    /\ active.window # NONE =>
          /\ active.window \in OpenIds(Desk)
          /\ Last(ShownIn(Desk, stack)) = active.window
          /\ active.client = WindowOf(Desk, active.window).client
    /\ \A i \in WindowSlots : windows[i].focused => windows[i].id = active.window
    /\ \A i \in DOMAIN keys : keys[i] = active.window
    /\ gsh_button_is_input_enabled(Desk) => term[gsh.active].id = active.window
    /\ console # NoTerminal => term[console].visible

(***************************************************************************)
(* Every window can be reached.  One that is opened lies in the usable     *)
(* area, whatever place and width are asked for (gui_layout.c; the sum of  *)
(* the two does not wrap around); and as many presses of the cycling key   *)
(* as there are windows shown activate each of them (server.c:717-782).    *)
(***************************************************************************)
Cycled(d, seen) == LET e == cycle_window(d, 1) IN [d |-> e, seen |-> seen \cup {e.active.window}]

WindowsReachable ==
    /\ \A i \in WindowSlots : windows[i].id # NONE =>
          LET place == PlaceWindow([x |-> windows[i].x, w |-> windows[i].w])
          IN  place.x >= 0 /\ place.x + place.w <= Usable
    /\ LET shown == ShownIn(Desk, stack)
           after == FoldLeft(LAMBDA acc, i : Cycled(acc.d, acc.seen),
                             [d |-> Desk, seen |-> {}], [i \in DOMAIN shown |-> i])
       IN  shown # <<>> => after.seen = ToSet(shown)

(***************************************************************************)
(* Nobody waits for ever.  The shell that launched the dashboard goes on   *)
(* (commands/spike.c:132); the shell that was told to end returns; a       *)
(* dashboard that was told to close is gone; what must be painted is, or a *)
(* shell has taken the main loop's place.                                  *)
(***************************************************************************)
DesktopGoesOn ==
    /\ shell.pc = "wait" ~> shell.pc # "wait"
    /\ shell.should_exit ~> ~shell.should_exit
    /\ (spike.pc = "loop" /\ spike.close) ~> spike.pc = "none"
    /\ redraw_pending ~> (~redraw_pending \/ shell.pc # "none")
=============================================================================
