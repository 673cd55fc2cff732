-------------------------------- MODULE Flash --------------------------------
(***************************************************************************)
(* Firmware backup and flash: the firmware command of src/src/main.rs over *)
(* the bootloader session and the images of src/src/firmware.rs.  A gun    *)
(* sits in its bootloader after the touch and stays there when a step      *)
(* fails; the bootloader is external, modelled from what the code says of  *)
(* it.  An image is a function from pages to what they hold.               *)
(***************************************************************************)
EXTENDS FiniteSets, Integers, Sequences

CONSTANTS
    Blasters,       \* the guns on the bus
    Pages,          \* the pages of the application section
    MaxCommands,    \* bound: commands run one after the other
    NoGun

ASSUME FlashAssumption ==
    /\ Pages \in Nat \ {0}
    /\ MaxCommands \in Nat
    /\ NoGun \notin Blasters

VARIABLES
    mode,       \* gun: "app", "boot", or "gone" (half an application runs)
    app,        \* gun: its application section, page by page
    saved,      \* the backup files: [gun, image]
    job,        \* the command: [verb, gun, yes, wanted], gun the port it names
    stage,      \* how far it is
    session,    \* the gun whose bootloader is open
    copy,       \* current, then back: the pages last read
    page,       \* pages written so far
    changed,    \* history: the gun whose flash the job has written to
    commands    \* counts commands

flashVars == <<mode, app, saved, job, stage, session, copy, page, changed, commands>>

PageNos   == 1..Pages
Of(x)     == [p \in PageNos |-> x]
Blank     == Of("blank")
Contents  == Blasters \cup {"blank", "bad"}
Jobs      == [verb : {"backup", "flash"}, gun : Blasters, yes : BOOLEAN, wanted : Blasters]
Working   == stage \notin {"none", "refused", "failed", "backed up", "dry", "flashed"}

FlashInit ==
    /\ mode = [g \in Blasters |-> "app"]
    /\ app = [g \in Blasters |-> Of(g)]
    /\ saved = {} /\ job \in Jobs /\ stage = "none"
    /\ session = NoGun /\ copy = <<>> /\ page = 0 /\ changed = NoGun /\ commands = 0

-----------------------------------------------------------------------------
\* The gun.  Without its first page, the reset vector, it stays in the bootloader.
StartsAs(image) ==
    IF image[1] = "blank" THEN "boot"
    ELSE IF \E g \in Blasters : image = Of(g) THEN "app" ELSE "gone"

\* The bootloader gives up waiting, or the gun loses power: its session is dead.
Restarts(g) ==
    /\ stage # "waiting"
    /\ mode[g] # "app" \/ session = g
    /\ mode' = [mode EXCEPT ![g] = StartsAs(app[g])]
    /\ session' = IF session = g THEN NoGun ELSE session
    /\ stage' = IF session = g THEN "failed" ELSE stage
    /\ UNCHANGED <<app, saved, job, copy, page, changed, commands>>

\* Another process resets a gun (reset_port): it is in the bootloader for a while.
ResetByAnother(g) ==
    /\ ~Working /\ mode[g] = "app"
    /\ mode' = [mode EXCEPT ![g] = "boot"]
    /\ UNCHANGED <<app, saved, job, stage, session, copy, page, changed, commands>>

-----------------------------------------------------------------------------
Goto(s) == stage' = s

\* select_port: only a gun that runs its application is found.
IsKnown(g) == mode[g] = "app"

\* A flash compares the image's product id with that of the gun it names; images that
\* carry none, and --allow-id-mismatch, are left out here.
Fits(j) == j.verb = "backup" \/ j.wanted = j.gun

\* The command begins, or is turned away.
Begin ==
    /\ ~Working /\ commands < MaxCommands
    /\ job' \in Jobs
    /\ Goto(IF IsKnown(job'.gun) /\ Fits(job') THEN "entering" ELSE "refused")
    /\ copy' = <<>> /\ page' = 0 /\ changed' = NoGun
    /\ commands' = commands + 1
    /\ UNCHANGED <<mode, app, saved, session>>

\* open_bootloader: a bootloader that is there is taken for the gun's own ...
FindBootloader ==
    /\ stage = "entering"
    /\ \E g \in Blasters : mode[g] = "boot" /\ session' = g
    /\ Goto("opening")
    /\ UNCHANGED <<mode, app, saved, job, copy, page, changed, commands>>

\* ... otherwise the gun is touched, and the bootloader that appears is.
TouchGun ==
    /\ stage = "entering" /\ \A g \in Blasters : mode[g] # "boot"
    /\ mode' = [mode EXCEPT ![job.gun] = "boot"]
    /\ UNCHANGED <<app, saved, job, stage, session, copy, page, changed, commands>>

\* Bootloader::open, tried again until the node is there and the bootloader answers.
OpenBootloader ==
    /\ stage = "opening"
    /\ Goto("reading")
    /\ UNCHANGED <<mode, app, saved, job, session, copy, page, changed, commands>>

\* to_intel_hex writes no line for a chunk that is not full: here, of two pages.
ToHex(image) ==
    [p \in {q \in DOMAIN image : q % 2 = 0 \/ q + 1 \in DOMAIN image \/ q = Pages} |-> image[p]]

\* read_flash, of the whole flash.
ReadWhole ==
    /\ stage = "reading"
    /\ copy' = app[session]
    /\ Goto(IF job.verb = "backup" THEN "leaving" ELSE "saving")
    /\ UNCHANGED <<mode, app, saved, job, session, page, changed, commands>>

-----------------------------------------------------------------------------
\* Mistakes the checks must notice.
ErasesFirst ==
    /\ stage = "saving"
    /\ app' = [app EXCEPT ![session] = Blank]
    /\ Goto(IF job.yes THEN "programming" ELSE "leaving")
    /\ UNCHANGED <<mode, saved, job, session, copy, page, changed, commands>>

TrustsWrites ==
    /\ stage = "verifying"
    /\ copy' = app[session]
    /\ Goto("leaving")
    /\ UNCHANGED <<mode, app, saved, job, session, page, changed, commands>>

StaysOpen ==
    /\ stage = "leaving"
    /\ mode' = [mode EXCEPT ![session] = StartsAs(app[session])]
    /\ Goto(IF job.verb = "backup" THEN "filing" ELSE "waiting")
    /\ UNCHANGED <<app, saved, job, session, copy, page, changed, commands>>

-----------------------------------------------------------------------------
\* save_image of what the flash holds, before anything is written.
SaveCurrent ==
    /\ stage = "saving"
    /\ saved' = saved \cup {ToHex(copy)}
    /\ Goto(IF job.yes THEN "programming" ELSE "leaving")
    /\ UNCHANGED <<mode, app, job, session, copy, page, changed, commands>>

\* enter_programming and chip_erase: the application section, never the bootloader's.
Erase ==
    /\ stage = "programming"
    /\ app' = [app EXCEPT ![session] = Blank]
    /\ changed' = session
    /\ Goto("writing")
    /\ UNCHANGED <<mode, saved, job, session, copy, page, commands>>

\* write_flash, block by block; an acknowledged block may still not be what was sent.
WritePage ==
    /\ stage = "writing" /\ page < Pages
    /\ \E x \in {job.wanted, "bad"} : app' = [app EXCEPT ![session][page + 1] = x]
    /\ page' = page + 1
    /\ UNCHANGED <<mode, saved, job, stage, session, copy, changed, commands>>

AllWritten ==
    /\ stage = "writing" /\ page = Pages
    /\ Goto("verifying")
    /\ UNCHANGED <<mode, app, saved, job, session, copy, page, changed, commands>>

Verify ==
    /\ stage = "verifying"
    /\ copy' = app[session]
    /\ Goto(IF copy' = Of(job.wanted) THEN "leaving" ELSE "failed")
    /\ session' = IF copy' = Of(job.wanted) THEN session ELSE NoGun
    /\ UNCHANGED <<mode, app, saved, job, page, changed, commands>>

\* exit: a gun that does not answer is taken to have left.  A backup is filed after it.
LeaveBootloader ==
    /\ stage = "leaving"
    /\ mode' = [mode EXCEPT ![session] = StartsAs(app[session])]
    /\ session' = NoGun
    /\ Goto(IF job.verb = "backup" THEN "filing" ELSE "waiting")
    /\ changed' = IF job.verb = "flash" /\ job.yes THEN session ELSE changed
    /\ UNCHANGED <<app, saved, job, copy, page, commands>>

FileBackup ==
    /\ stage = "filing"
    /\ saved' = saved \cup {ToHex(copy)}
    /\ Goto("waiting")
    /\ UNCHANGED <<mode, app, job, session, copy, page, changed, commands>>

\* wait_for_gun_back, for the port that was named, and connect.
GunIsBack ==
    /\ stage = "waiting" /\ mode[job.gun] = "app"
    /\ Goto(IF job.verb = "backup" THEN "backed up" ELSE IF job.yes THEN "flashed" ELSE "dry")
    /\ UNCHANGED <<mode, app, saved, job, session, copy, page, changed, commands>>

\* Any call can fail, and ends the command where it is: a gun in the bootloader stays.
StepFails ==
    /\ Working
    /\ Goto("failed")
    /\ session' = NoGun
    /\ UNCHANGED <<mode, app, saved, job, copy, page, changed, commands>>

FlashSteps == FindBootloader \/ TouchGun \/ OpenBootloader \/ ReadWhole \/ SaveCurrent
              \/ Erase \/ WritePage \/ AllWritten \/ Verify \/ LeaveBootloader \/ FileBackup \/ GunIsBack \/ StepFails

FlashNext == Begin \/ FlashSteps \/ \E g \in Blasters : Restarts(g) \/ ResetByAnother(g)

FlashSpec == FlashInit /\ [][FlashNext]_flashVars

-----------------------------------------------------------------------------
FlashTypeOK ==
    /\ mode \in [Blasters -> {"app", "boot", "gone"}]
    /\ app \in [Blasters -> [PageNos -> Contents]]
    /\ job \in Jobs
    /\ stage \in {"none", "refused", "failed", "backed up", "dry", "flashed", "entering",
                  "opening", "reading", "saving", "programming", "writing", "verifying", "leaving",
                  "filing", "waiting"}
    /\ session \in Blasters \cup {NoGun} /\ changed \in Blasters \cup {NoGun}
    /\ session # NoGun => mode[session] = "boot"
    /\ page \in 0..Pages
    /\ commands \in 0..MaxCommands

\* Whatever fails, a gun whose application is not what it came with can be given it
\* back: a backup file holds all of it (Flash: read and save before the erase).
BackedUpFirst ==
    \A g \in Blasters :
        app[g] = Of(g) \/ Of(g) \in saved

\* "flashed and verified" is said of the gun that was written only when each of its
\* pages is the image's (the verify loop and what comes after it).
VerifiedIsWhole ==
    stage = "flashed" => app[changed] = Of(job.wanted)

\* Only the gun that was asked for is written, and its image is for its product id
\* (the check of the product id, which names --allow-id-mismatch as the only way out).
IdentityIsKept ==
    \A g \in Blasters, p \in PageNos : app[g][p] \in {g, "blank", "bad"}

\* A gun left in its bootloader by a flash that was interrupted is not turned away: "a
\* previous attempt was interrupted" (open_bootloader).
RetryIsNotRefused ==
    stage = "refused" /\ job.verb = "flash" /\ job.wanted = job.gun =>
        app[job.gun][1] # "blank"

\* A flash that may stop between any two steps loses no firmware and claims none.
FlashInv == FlashTypeOK /\ BackedUpFirst /\ VerifiedIsWhole
=============================================================================
