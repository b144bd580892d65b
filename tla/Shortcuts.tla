------------------------------ MODULE Shortcuts ------------------------------
(***************************************************************************)
(* The main window's keyboard shortcuts (src/src/gui/main_window.cpp): the *)
(* event filter initUI installs on the window, and the table of shortcuts  *)
(* displayShortcutHelpDialog shows the user.                               *)
(*                                                                         *)
(* A key press is a chord: the modifiers held and the key. The filter      *)
(* tests the standard Quit and Find sequences exactly, then a modifier     *)
(* mask with a key for maximise/restore, force end and the shortcut        *)
(* preview; it consumes what it handles and passes everything else on.     *)
(* The help table is the set of (name, chord) entries the dialog builds;   *)
(* the viewer process it starts and the JSON it passes are left out. The   *)
(* entry "Ctrl+Shift+/" is the chord whose key event is Key_Question with  *)
(* Ctrl and Shift held.                                                    *)
(***************************************************************************)
EXTENDS FiniteSets

Modifiers == {"ctrl", "alt", "shift"}

\* The keys the help table or the filter mention, and one that neither does.
Keys == {"F1", "F4", "F5", "?", "F", "K", "Q", "E", "P", "C", "Enter", "S",
         "T", "R", "X"}

Chord(ms, k) == [mods |-> ms, key |-> k]

Chords == [mods : SUBSET Modifiers, key : Keys]

\* QKeySequence::Quit and QKeySequence::Find on this platform.
QuitSeq == Chord({"ctrl"}, "Q")
FindSeq == Chord({"ctrl"}, "F")

\* The entries of displayShortcutHelpDialog, in its three groups.
HelpTable ==
  { [name |-> "Help",                      chord |-> Chord({}, "F1")],
    [name |-> "Close application",         chord |-> Chord({"alt"}, "F4")],
    [name |-> "Show shortcut preview",     chord |-> Chord({"ctrl", "shift"}, "?")],
    [name |-> "Maximize / Restore window", chord |-> Chord({"ctrl", "alt"}, "F")],
    [name |-> "Search",                    chord |-> Chord({"ctrl"}, "F")],
    [name |-> "Force end application",     chord |-> Chord({"ctrl", "alt"}, "K")],
    [name |-> "End process",               chord |-> Chord({"alt"}, "E")],
    [name |-> "Pause process",             chord |-> Chord({"alt"}, "P")],
    [name |-> "Resume process",            chord |-> Chord({"alt"}, "C")],
    [name |-> "Properties",                chord |-> Chord({"alt"}, "Enter")],
    [name |-> "Kill process",              chord |-> Chord({"alt"}, "K")],
    [name |-> "Start",                     chord |-> Chord({"alt"}, "S")],
    [name |-> "Stop",                      chord |-> Chord({"alt"}, "T")],
    [name |-> "Restart",                   chord |-> Chord({"alt"}, "R")],
    [name |-> "Refresh",                   chord |-> Chord({}, "F5")] }

\* What the help table says a chord does.
Documented(ch) == {e.name : e \in {x \in HelpTable : x.chord = ch}}

\* MainWindow::eventFilter on a key press: the name of the shortcut it
\* performs, or "pass" when it returns false. The tests run in this order;
\* the masked ones accept any of the masked modifiers.
EventFilter(ch) ==
  IF ch = QuitSeq THEN "Quit"
  ELSE IF ch = FindSeq THEN "Search"
  ELSE IF ch.mods \cap {"ctrl", "alt"} # {} /\ ch.key = "F"
       THEN "Maximize / Restore window"
  ELSE IF ch.mods \cap {"ctrl", "alt"} # {} /\ ch.key = "K"
       THEN "Force end application"
  ELSE IF ch.mods \cap {"ctrl", "shift"} # {} /\ ch.key = "?"
       THEN "Show shortcut preview"
  ELSE "pass"

VARIABLES
  running,     \* the application has not quit
  maximized,   \* windowState() & Qt::WindowMaximized
  pressed      \* the last key press and what the filter did with it

vars == <<running, maximized, pressed>>

\* A key press reaches the window's event filter: quit, focus the search
\* field, toggle maximised, emit killProcessPerformed, open the shortcut
\* viewer, or pass the event on.
KeyPress(ch) ==
  LET done == EventFilter(ch) IN
    /\ running
    /\ pressed' = [chord |-> ch, taken |-> done]
    /\ running' = (done # "Quit")
    /\ maximized' = IF done = "Maximize / Restore window" THEN ~maximized
                    ELSE maximized

Init ==
  /\ running = TRUE
  /\ maximized \in BOOLEAN
  /\ pressed = [chord |-> Chord({}, "X"), taken |-> "pass"]

Next == \E ch \in Chords : KeyPress(ch)

Spec == Init /\ [][Next]_vars

-----------------------------------------------------------------------------
TypeOK ==
  /\ running \in BOOLEAN
  /\ maximized \in BOOLEAN
  /\ pressed.chord \in Chords

\* A shortcut the filter performs is never one the help dialog assigns to
\* something else: a chord the dialog lists is either passed on or does
\* what the dialog says. The filter tests its modifiers with a mask
\* (modifiers() & (Ctrl | Alt)), so one of the two suffices where the
\* dialog shows both.
NoShortcutConflict ==
  pressed.taken # "pass" /\ Documented(pressed.chord) # {} =>
    pressed.taken \in Documented(pressed.chord)

=============================================================================
