--------------------------------- MODULE Hud ---------------------------------
(***************************************************************************)
(* run's screen on macOS besides the border: Live, the state trackers feed *)
(* (src/src/preview.rs), the heads-up display that shows it (preview/      *)
(* hud.rs), and the menu bar item and shortcuts that switch it             *)
(* (menubar.rs).  Live is keyed by gun name, which two guns may share.     *)
(***************************************************************************)
EXTENDS Naturals, FiniteSets

CONSTANTS
    Trackers,       \* tracker threads, one per attached gun
    GunNames,       \* the names in the configuration, as numbers in their order
    Slots,          \* MAX_GUNS, 4 in the code
    MaxSerial,      \* bound: images recorded under one entry
    MaxSwitches,    \* bound: how often anything is switched
    NoImage

ASSUME HudAssumption ==
    /\ IsFiniteSet(Trackers) /\ GunNames \subseteq Nat
    /\ {Slots, MaxSerial, MaxSwitches} \subseteq Nat

VARIABLES
    tracker,    \* what each tracker does: "off", "tracking", "feeding" or "leaving"
    named,      \* the name of its gun
    images,     \* feed's local images: made for the frame under way
    live,       \* Live: the two switches, and guns by name: [aim, serial]
    slots,      \* the display's slots: [serial, panel, reticle]
    main,       \* the main thread of run_all: "before", "up", "down"
    halted,     \* the stop flag
    switches

hudVars == <<tracker, named, images, live, slots, main, halted, switches>>

Entry    == [aim : BOOLEAN, serial : 0..MaxSerial]
Empty    == [aim |-> FALSE, serial |-> 0]
DarkSlot == [serial |-> NoImage, panel |-> FALSE, reticle |-> FALSE]
Switches == {"quit", "reticle", "camera"}

HudInit ==
    /\ tracker = [t \in Trackers |-> "off"]
    /\ named = [t \in Trackers |-> 0]
    /\ images = [t \in Trackers |-> FALSE]
    /\ live = [reticle |-> FALSE, camera |-> FALSE, guns |-> <<>>]
    /\ slots = [i \in 1..Slots |-> DarkSlot]
    /\ main = "before" /\ halted = FALSE /\ switches = 0

-----------------------------------------------------------------------------
\* MenuBar::install and hud::open.  (A shortcut another app owns leaves the menu item.)
OpenScreen ==
    /\ main = "before"
    /\ main' = "up"
    /\ UNCHANGED <<tracker, named, images, live, slots, halted, switches>>

\* After the event loop: hud and menu are dropped, and the guns wind down behind them.
CloseScreen ==
    /\ main = "up" /\ halted
    /\ main' = "down"
    /\ slots' = [i \in 1..Slots |-> DarkSlot]
    /\ UNCHANGED <<tracker, named, images, live, halted, switches>>

\* A menu item or its shortcut; both do the same to the same state.  The border's is the
\* scene's hidden flag, which the overlay draws from.
Switch(what) ==
    /\ main = "up" /\ switches < MaxSwitches
    /\ switches' = switches + 1
    /\ \/ what = "quit" /\ halted' = TRUE /\ UNCHANGED live
       \/ what = "reticle" /\ live' = [live EXCEPT !.reticle = ~@] /\ UNCHANGED halted
       \/ what = "camera" /\ live' = [live EXCEPT !.camera = ~@] /\ UNCHANGED halted
    /\ UNCHANGED <<tracker, named, images, slots, main>>

Interrupt ==
    /\ ~halted
    /\ halted' = TRUE
    /\ UNCHANGED <<tracker, named, images, live, slots, main, switches>>

-----------------------------------------------------------------------------
\* The supervisor starts a tracker for a gun: whichever is on that port now.
StartTracker(t) ==
    /\ tracker[t] = "off" /\ ~halted
    /\ tracker' = [tracker EXCEPT ![t] = "tracking"]
    /\ \E n \in GunNames : named' = [named EXCEPT ![t] = n]
    /\ UNCHANGED <<images, live, slots, main, halted, switches>>

\* Live::feed looks at the switch, and makes images outside the lock.
Feed(t) ==
    /\ tracker[t] = "tracking"
    /\ \E due \in BOOLEAN : images' = [images EXCEPT ![t] = due /\ live.camera]
    /\ tracker' = [tracker EXCEPT ![t] = "feeding"]
    /\ UNCHANGED <<named, live, slots, main, halted, switches>>

WithGun(guns, name, entry) ==
    [n \in DOMAIN guns \cup {name} |-> IF n = name THEN entry ELSE guns[n]]

WithoutGun(guns, name) == [n \in DOMAIN guns \ {name} |-> guns[n]]

\* Then it records aim and images under the gun's name, making the entry if need be.
Record(t) ==
    /\ tracker[t] = "feeding"
    /\ LET old == IF named[t] \in DOMAIN live.guns THEN live.guns[named[t]] ELSE Empty
       IN  /\ images[t] => old.serial < MaxSerial
           /\ \E aim \in BOOLEAN :
                  live' = [live EXCEPT !.guns = WithGun(@, named[t],
                      [aim |-> aim, serial |-> IF images[t] THEN old.serial + 1 ELSE old.serial])]
    /\ images' = [images EXCEPT ![t] = FALSE]
    /\ tracker' = [tracker EXCEPT ![t] = "tracking"]
    /\ UNCHANGED <<named, slots, main, halted, switches>>

\* The tracker's loop ends, stopped or in error.
EndTracker(t) ==
    /\ tracker[t] = "tracking"
    /\ tracker' = [tracker EXCEPT ![t] = "leaving"]
    /\ UNCHANGED <<named, images, live, slots, main, halted, switches>>

-----------------------------------------------------------------------------
\* The map of guns is in the order of their names: the i-th of them, if there is one.
GunOfSlot(i) ==
    {n \in DOMAIN live.guns : Cardinality({m \in DOMAIN live.guns : m < n}) = i - 1}

-----------------------------------------------------------------------------
\* Mistakes the checks must notice.
LeavesItsEntry(t) ==
    /\ tracker[t] = "leaving"
    /\ tracker' = [tracker EXCEPT ![t] = "off"] /\ named' = [named EXCEPT ![t] = 0]
    /\ UNCHANGED <<images, live, slots, main, halted, switches>>

ShowsWithoutEntry(i) ==
    IF GunOfSlot(i) = {} THEN slots[i]
    ELSE [serial |-> live.guns[CHOOSE n \in GunOfSlot(i) : TRUE].serial,
          panel |-> live.camera, reticle |-> live.reticle]

-----------------------------------------------------------------------------
\* Live::remove, by name.
RemoveGun(t) ==
    /\ tracker[t] = "leaving"
    /\ live' = [live EXCEPT !.guns = WithoutGun(@, named[t])]
    /\ tracker' = [tracker EXCEPT ![t] = "off"] /\ named' = [named EXCEPT ![t] = 0]
    /\ UNCHANGED <<images, slots, main, halted, switches>>

\* What the timer puts into slot i: the i-th gun by name.  A slot loads images when its
\* gun's serial differs from the one it shows.
Filled(i) ==
    LET gun   == live.guns[CHOOSE n \in GunOfSlot(i) : TRUE]
        loads == live.camera /\ gun.serial > 0 /\ gun.serial # slots[i].serial
    IN  IF GunOfSlot(i) = {}
        THEN [slots[i] EXCEPT !.panel = FALSE, !.reticle = FALSE]
        ELSE [serial  |-> IF loads THEN gun.serial ELSE slots[i].serial,
              panel   |-> live.camera /\ gun.serial > 0,
              reticle |-> live.reticle /\ gun.aim]

Tick ==
    /\ main = "up"
    /\ slots' = [i \in 1..Slots |-> Filled(i)]
    /\ UNCHANGED <<tracker, named, images, live, main, halted, switches>>

HudNext ==
    \/ OpenScreen \/ CloseScreen \/ Interrupt \/ Tick
    \/ (\E k \in Switches : Switch(k))
    \/ \E t \in Trackers : StartTracker(t) \/ Feed(t) \/ Record(t) \/ EndTracker(t) \/ RemoveGun(t)

-----------------------------------------------------------------------------
HudTypeOK ==
    /\ tracker \in [Trackers -> {"off", "tracking", "feeding", "leaving"}]
    /\ named \in [Trackers -> GunNames \cup {0}]
    /\ images \in [Trackers -> BOOLEAN]
    /\ live.reticle \in BOOLEAN /\ live.camera \in BOOLEAN
    /\ DOMAIN live.guns \subseteq GunNames
    /\ \A n \in DOMAIN live.guns : live.guns[n] \in Entry
    /\ \A i \in 1..Slots : slots[i].panel \in BOOLEAN /\ slots[i].reticle \in BOOLEAN
    /\ main \in {"before", "up", "down"}
    /\ (main # "up" => \A i \in 1..Slots : slots[i] = DarkSlot)
    /\ halted \in BOOLEAN /\ switches \in 0..MaxSwitches

\* An entry always belongs to a tracker that still runs, also when two guns share the
\* name and one of them ends: no gun leaves a ghost on the display (Live::feed, remove).
EntriesAreAlive ==
    \A n \in DOMAIN live.guns : \E t \in Trackers : tracker[t] # "off" /\ named[t] = n

\* After a tick every reticle and panel is one of a tracker that runs, and only what is
\* switched on is shown (the timer's block in hud::open).
TickShowsTheLiving ==
    [][slots' # slots /\ main' = "up" =>
           /\ Cardinality({i \in 1..Slots : slots'[i].panel \/ slots'[i].reticle})
                  <= Cardinality({t \in Trackers : tracker[t] # "off"})
           /\ \A i \in 1..Slots : /\ slots'[i].panel => live.camera
                                  /\ slots'[i].reticle => live.reticle]_hudVars
=============================================================================
