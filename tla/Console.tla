------------------------------ MODULE Console ------------------------------
(***************************************************************************)
(* The virtual terminals of kernel-core/src/console.rs: what programs and  *)
(* the timer draw into the buffer of each terminal, what reaches the real  *)
(* screen, and where the keyboard interrupt puts a key.                    *)
(*                                                                         *)
(* System calls and interrupt handlers run with interrupts masked, so each *)
(* is one step.  A picture is the set of the character cells that show a   *)
(* glyph and the set of those that show the cursor's underscore, which no  *)
(* glyph overlaps.                                                         *)
(***************************************************************************)
EXTENDS Integers, Sequences, SequencesExt, FiniteSets

CONSTANTS
  TTY_COUNT,
  COLUMNS, ROWS,     \* characters that fit between margin and edge
  BlinkTicks,        \* ticks between changes of a blinking cursor (50)
  MaxText            \* bound on the bytes of one write

ASSUME ConsoleAssumption ==
  /\ TTY_COUNT \in Nat \ {0} /\ COLUMNS \in Nat \ {0} /\ ROWS \in Nat \ {0}
  /\ BlinkTicks \in 1 .. 255 /\ MaxText \in Nat

Ttys == 0 .. (TTY_COUNT - 1)
Home == <<0, 0>>

VARIABLES
  tty,           \* picture in TTY_BUFFERS and cursor in TTY_STATE
  blink_ticks,
  pending_key,   \* the last key not yet polled
  primary,       \* PRIMARY_FRAMEBUFFER, the picture on the screen
  ACTIVE_TTY,
  ALT_HELD,
  MULTI_TTY_ENABLED  \* the resolution is small enough for the buffers; fixed

consoleVars == <<tty, blink_ticks, pending_key, primary, ACTIVE_TTY, ALT_HELD, MULTI_TTY_ENABLED>>

\* Scancodes by what is done with them: keys that decode to a character, keys
\* that do not (function keys among them), and releases.
NoKey == "none"
Keys == {"character", "other"}

Picture(t) == [glyphs |-> t.glyphs, marks |-> t.marks]

-----------------------------------------------------------------------------
(***************************************************************************)
(* Drawing on one terminal.                                                *)
(***************************************************************************)

show_cursor(t) == [t EXCEPT !.marks = @ \cup {t.cursor}, !.cursor_visible = TRUE]

hide_cursor(t) ==
  IF t.cursor_visible THEN [t EXCEPT !.marks = @ \ {t.cursor}, !.cursor_visible = FALSE]
  ELSE t

EMPTY == [glyphs |-> {}, marks |-> {}, cursor |-> Home, cursor_visible |-> FALSE]

\* clear_tty()
Cleared == show_cursor(EMPTY)

newline(t) ==
  IF t.cursor[2] + 1 = ROWS THEN Cleared
  ELSE [t EXCEPT !.cursor = <<0, t.cursor[2] + 1>>]

\* One byte of user_console_write(); a carriage return is ignored there.
Put(t, byte) ==
  IF byte = "newline" THEN newline(t)
  ELSE LET w == IF t.cursor[1] + 1 > COLUMNS THEN newline(t) ELSE t
       IN [w EXCEPT !.glyphs = @ \cup {w.cursor}, !.cursor = <<w.cursor[1] + 1, w.cursor[2]>>]

\* Mutation: the cursor is not hidden before the text is drawn.
Written_OverCursor(t, text) == show_cursor(FoldLeft(Put, t, text))

Written(t, text) == show_cursor(FoldLeft(Put, hide_cursor(t), text))

\* user_console_backspace() with a character before the cursor.
Erased(t) ==
  LET h == hide_cursor(t)
      previous == <<h.cursor[1] - 1, h.cursor[2]>>
  IN show_cursor([h EXCEPT !.glyphs = @ \ {previous}, !.marks = @ \ {previous},
                           !.cursor = previous])

\* tty_target(): without the buffers only terminal 0 can be drawn on, and it
\* is the screen itself.
HasTarget(i) == MULTI_TTY_ENABLED \/ i = 0

\* blit_if_active() of terminal i with picture t.
BlitIfActive(i, t) ==
  primary' = IF ~ MULTI_TTY_ENABLED \/ i = ACTIVE_TTY THEN Picture(t) ELSE primary

\* enable_user_console()
ConsoleInit ==
  /\ MULTI_TTY_ENABLED \in BOOLEAN
  /\ tty = [i \in Ttys |-> IF HasTarget(i) THEN Cleared ELSE EMPTY]
  /\ primary = Picture(Cleared)
  /\ blink_ticks = [i \in Ttys |-> 0]
  /\ pending_key = [i \in Ttys |-> NoKey]
  /\ ACTIVE_TTY = 0 /\ ALT_HELD = FALSE

-----------------------------------------------------------------------------
(***************************************************************************)
(* System calls of a program bound to terminal i.                          *)
(***************************************************************************)

Write(i, text) ==
  /\ HasTarget(i)
  /\ tty' = [tty EXCEPT ![i] = Written(tty[i], text)]
  /\ BlitIfActive(i, tty'[i])
  /\ UNCHANGED <<blink_ticks, pending_key, ACTIVE_TTY, ALT_HELD, MULTI_TTY_ENABLED>>

Clear(i) ==
  /\ HasTarget(i)
  /\ tty' = [tty EXCEPT ![i] = Cleared]
  /\ BlitIfActive(i, tty'[i])
  /\ UNCHANGED <<blink_ticks, pending_key, ACTIVE_TTY, ALT_HELD, MULTI_TTY_ENABLED>>

Backspace(i) ==
  /\ HasTarget(i)
  /\ tty[i].cursor[1] > 0
  /\ tty' = [tty EXCEPT ![i] = Erased(tty[i])]
  /\ BlitIfActive(i, tty'[i])
  /\ UNCHANGED <<blink_ticks, pending_key, ACTIVE_TTY, ALT_HELD, MULTI_TTY_ENABLED>>

\* At the start of a line it shows the cursor and returns without a blit.
BackspaceAtMargin(i) ==
  /\ HasTarget(i)
  /\ tty[i].cursor[1] = 0
  /\ tty' = [tty EXCEPT ![i] = show_cursor(hide_cursor(tty[i]))]
  /\ primary' = IF MULTI_TTY_ENABLED THEN primary ELSE Picture(tty'[i])
  /\ UNCHANGED <<blink_ticks, pending_key, ACTIVE_TTY, ALT_HELD, MULTI_TTY_ENABLED>>

\* poll_user_key() that finds a key; one that decodes to nothing is lost.
PollKey(i) ==
  /\ pending_key[i] # NoKey
  /\ pending_key' = [pending_key EXCEPT ![i] = NoKey]
  /\ UNCHANGED <<tty, blink_ticks, primary, ACTIVE_TTY, ALT_HELD, MULTI_TTY_ENABLED>>

-----------------------------------------------------------------------------
(***************************************************************************)
(* Interrupts.                                                             *)
(***************************************************************************)

Blink(t) == IF t.cursor_visible THEN hide_cursor(t) ELSE show_cursor(t)
Due(i) == HasTarget(i) /\ blink_ticks[i] + 1 >= BlinkTicks

\* user_console_tick()
Tick ==
  /\ blink_ticks' = [i \in Ttys |->
       IF Due(i) THEN 0 ELSE IF HasTarget(i) THEN blink_ticks[i] + 1 ELSE blink_ticks[i]]
  /\ tty' = [i \in Ttys |-> IF Due(i) THEN Blink(tty[i]) ELSE tty[i]]
  /\ LET shown == IF MULTI_TTY_ENABLED THEN ACTIVE_TTY ELSE 0
     IN primary' = IF Due(shown) THEN Picture(tty'[shown]) ELSE primary
  /\ UNCHANGED <<pending_key, ACTIVE_TTY, ALT_HELD, MULTI_TTY_ENABLED>>

\* handle_scancode() of Alt
Alt(held) ==
  /\ ALT_HELD' = held
  /\ UNCHANGED <<tty, blink_ticks, pending_key, primary, ACTIVE_TTY, MULTI_TTY_ENABLED>>

\* Mutation: the screen keeps the old terminal until something is drawn.
switch_tty_NoBlit(i) ==
  /\ ALT_HELD
  /\ ACTIVE_TTY' = i
  /\ UNCHANGED <<tty, blink_ticks, pending_key, primary, ALT_HELD, MULTI_TTY_ENABLED>>

\* Alt+Fn.  Without the buffers the screen stays with terminal 0 while the
\* keys go to terminal i.
switch_tty(i) ==
  /\ ALT_HELD
  /\ ACTIVE_TTY' = i
  /\ primary' = IF HasTarget(i) THEN Picture(tty[i]) ELSE primary
  /\ UNCHANGED <<tty, blink_ticks, pending_key, ALT_HELD, MULTI_TTY_ENABLED>>

\* Any other key press replaces a key that has not been polled.  Releases
\* change nothing.
KeyPress(key) ==
  /\ pending_key' = [pending_key EXCEPT ![ACTIVE_TTY] = key]
  /\ UNCHANGED <<tty, blink_ticks, primary, ACTIVE_TTY, ALT_HELD, MULTI_TTY_ENABLED>>

ConsoleNext ==
  \/ Tick
  \/ \E held \in BOOLEAN : Alt(held)
  \/ \E key \in Keys : KeyPress(key)
  \/ \E i \in Ttys :
       \/ switch_tty(i) \/ PollKey(i) \/ Clear(i) \/ Backspace(i) \/ BackspaceAtMargin(i)
       \/ \E n \in 1 .. MaxText : \E text \in [1 .. n -> {"glyph", "newline"}] : Write(i, text)

ConsoleSpec == ConsoleInit /\ [][ConsoleNext]_consoleVars

-----------------------------------------------------------------------------
Shown == IF MULTI_TTY_ENABLED THEN ACTIVE_TTY ELSE 0

\* The screen shows the active terminal and nothing of the others, at most
\* with the cursor in the wrong phase of its blinking.
ScreenShowsActive ==
  /\ primary.glyphs = tty[Shown].glyphs
  /\ primary.marks \ {tty[Shown].cursor} = tty[Shown].marks \ {tty[Shown].cursor}

\* The cursor leaves no underscore behind, except in the first cell, where a
\* write that fills the screen and goes on leaves the one clear_tty() drew.
NoTrails ==
  \A i \in Ttys :
    /\ tty[i].marks \subseteq {Home, tty[i].cursor}
    /\ tty[i].cursor_visible => tty[i].cursor \in tty[i].marks
=============================================================================
