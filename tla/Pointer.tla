------------------------------- MODULE Pointer -------------------------------
(***************************************************************************)
(* The synthesised cursor of macOS, src/src/cursor.rs, as every tracker of *)
(* run has one of its own while there is only one pointer: the window      *)
(* server counts how often it was hidden, and a button is up or down for   *)
(* everybody.  Any event may fail to be built.                             *)
(***************************************************************************)
EXTENDS Naturals, FiniteSets

CONSTANTS
    Aimers,         \* the trackers with a synthesised cursor
    MouseButtons    \* SynthButton: three in the code

ASSUME PointerAssumption == IsFiniteSet(Aimers)

VARIABLES
    cursor,     \* each Cursor: "none", "driving", or "failed" (its tracker is ending)
    down,       \* left_down, right_down, middle_down of each Cursor
    hidden,     \* Cursor.hidden
    hides,      \* the window server's count
    pressed,    \* the buttons the system takes to be down
    lostUps     \* history: buttons whose release could not be posted

pointerVars == <<cursor, down, hidden, hides, pressed, lostUps>>

PointerInit ==
    /\ cursor = [a \in Aimers |-> "none"]
    /\ down = [a \in Aimers |-> {}]
    /\ hidden = [a \in Aimers |-> FALSE]
    /\ hides = 0 /\ pressed = {} /\ lostUps = {}

NewCursor(a) ==
    /\ cursor[a] = "none"
    /\ cursor' = [cursor EXCEPT ![a] = "driving"]
    /\ UNCHANGED <<down, hidden, hides, pressed, lostUps>>

-----------------------------------------------------------------------------
\* Mistakes the checks must notice.
HidesEveryTime(a) ==
    /\ hidden' = [hidden EXCEPT ![a] = TRUE]
    /\ hides' = hides + 1

DropsHolding(a) ==
    /\ cursor[a] # "none"
    /\ cursor' = [cursor EXCEPT ![a] = "none"]
    /\ down' = [down EXCEPT ![a] = {}]
    /\ hidden' = [hidden EXCEPT ![a] = FALSE]
    /\ hides' = IF hidden[a] THEN hides - 1 ELSE hides
    /\ UNCHANGED <<pressed, lostUps>>

-----------------------------------------------------------------------------
\* hide_cursor and show_cursor: each Cursor asks the server once.
Hide(a) ==
    /\ hidden' = [hidden EXCEPT ![a] = TRUE]
    /\ hides' = IF hidden[a] THEN hides ELSE hides + 1

Show(a) ==
    /\ hidden' = [hidden EXCEPT ![a] = FALSE]
    /\ hides' = IF hidden[a] THEN hides - 1 ELSE hides

\* move_to: the event goes out, then the pointer is hidden; one that fails ends the tracker.
MoveTo(a) ==
    /\ cursor[a] = "driving"
    /\ Hide(a)
    /\ UNCHANGED <<cursor, down, pressed, lostUps>>

MoveFails(a) ==
    /\ cursor[a] = "driving"
    /\ cursor' = [cursor EXCEPT ![a] = "failed"]
    /\ UNCHANGED <<down, hidden, hides, pressed, lostUps>>

\* release: the border has left the view.
ReleasePointer(a) ==
    /\ cursor[a] = "driving"
    /\ Show(a)
    /\ UNCHANGED <<cursor, down, pressed, lostUps>>

\* set_button: a report that changes nothing posts nothing.
PressButton(a, b) ==
    /\ cursor[a] = "driving" /\ b \notin down[a]
    /\ down' = [down EXCEPT ![a] = @ \cup {b}]
    /\ pressed' = pressed \cup {b} /\ lostUps' = lostUps \ {b}
    /\ UNCHANGED <<cursor, hidden, hides>>

ReleaseButton(a, b) ==
    /\ cursor[a] = "driving" /\ b \in down[a]
    /\ down' = [down EXCEPT ![a] = @ \ {b}]
    /\ pressed' = pressed \ {b} /\ lostUps' = lostUps \ {b}
    /\ UNCHANGED <<cursor, hidden, hides>>

\* The flag changes before the event is posted: after a failure it is wrong, and nothing
\* will post the release again.
ButtonFails(a, b) ==
    /\ cursor[a] = "driving"
    /\ cursor' = [cursor EXCEPT ![a] = "failed"]
    /\ down' = [down EXCEPT ![a] = IF b \in @ THEN @ \ {b} ELSE @ \cup {b}]
    /\ lostUps' = IF b \in down[a] THEN lostUps \cup {b} ELSE lostUps
    /\ UNCHANGED <<hidden, hides, pressed>>

\* Drop: the pointer is shown, and buttons still down are let go of, as far as that works.
DropCursor(a) ==
    /\ cursor[a] # "none"
    /\ \E lost \in SUBSET down[a] :
           /\ pressed' = pressed \ (down[a] \ lost)
           /\ lostUps' = (lostUps \ down[a]) \cup lost
    /\ Show(a)
    /\ cursor' = [cursor EXCEPT ![a] = "none"]
    /\ down' = [down EXCEPT ![a] = {}]

PointerNext ==
    \E a \in Aimers :
        \/ NewCursor(a) \/ MoveTo(a) \/ MoveFails(a) \/ ReleasePointer(a) \/ DropCursor(a)
        \/ \E b \in MouseButtons : PressButton(a, b) \/ ReleaseButton(a, b) \/ ButtonFails(a, b)

PointerSpec == PointerInit /\ [][PointerNext]_pointerVars

-----------------------------------------------------------------------------
PointerTypeOK ==
    /\ cursor \in [Aimers -> {"none", "driving", "failed"}]
    /\ down \in [Aimers -> SUBSET MouseButtons]
    /\ hidden \in [Aimers -> BOOLEAN]
    /\ hides \in Nat
    /\ {pressed, lostUps} \subseteq SUBSET MouseButtons

\* The server's count is the number of cursors that hide the pointer, so it is visible
\* when the last session has ended, in whatever way ("hide/show stay balanced").
HidesAreCounted ==
    /\ hides = Cardinality({a \in Aimers : hidden[a]})
    /\ \A a \in Aimers : cursor[a] = "none" => ~hidden[a]

\* A button the system takes to be down is held by some gun that is still there, unless
\* its release could not be posted: no session leaves one pressed (Drop for Cursor).
PressedIsHeld == \A b \in pressed : b \in lostUps \/ \E a \in Aimers : b \in down[a]

\* The converse fails as soon as two guns share the pointer: one lets go of what the
\* other still holds.
HeldIsPressed ==
    \A a \in Aimers : cursor[a] = "driving" => down[a] \subseteq pressed

\* Several guns leave the one pointer as they found it.
PointerInv == PointerTypeOK /\ HidesAreCounted /\ PressedIsHeld
=============================================================================
