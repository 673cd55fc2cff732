------------------------------- MODULE GunLink -------------------------------
(***************************************************************************)
(* What a session says to a gun and hears from it: connect with its        *)
(* recovery, and the commands of the driver as the questions, frames and   *)
(* pauses they are made of (src/src/gun.rs, prepare_gun in                 *)
(* src/src/runtime.rs, gun and connect in src/src/main.rs).  Replies are   *)
(* raw bytes without a number: the next bytes that arrive are the answer.  *)
(* The gun's firmware is external, modelled from what the driver says of   *)
(* it.  A message stands for a frame, with the payload sent along with it. *)
(***************************************************************************)
EXTENDS Naturals, Sequences, SequencesExt

CONSTANTS
    Commands,       \* the commands run
    MaxSessions,    \* bound: commands run one after the other
    MaxUnsent       \* frames the kernel takes before a write blocks

\* The commands of the driver that talk to a gun; calibrate's saving is "save".
CommandNames == {"track", "info", "setup", "monitor", "recoil", "joystick", "status", "compare",
                 "save"}

ASSUME GunLinkAssumption ==
    /\ Commands \subseteq CommandNames
    /\ MaxSessions \in Nat
    /\ MaxUnsent \in Nat \ {0}

VARIABLES
    command,     \* the command under way, or the last one
    at,          \* its next step
    phase,       \* "closed", "ready", "waiting", "unwedging", "resetting"
    attempt,     \* which of connect's four authentications this is
    unsent,      \* messages written and not yet read by the gun
    heard,       \* bytes the gun has sent and the driver has not read
    proof,       \* whether the response in hand answers the gun's last challenge
    got,         \* the offsets read: [x, y]
    said,        \* whether the command has reported success
    sessions,    \* counts commands
    late,        \* history: something was asked while an earlier answer was still to come
    mingled,     \* history: a report of a button came while an answer was waited for
    carried,     \* history: the gun came to this session streaming or reporting already
    owed,        \* gun: an auth command came without its payload, which it waits for
    deaf,        \* gun: its firmware does not read its port any more
    streaming,   \* gun: command 121 has come
    reporting,   \* gun: it sends button reports
    eeprom       \* gun: the stored offsets

history  == <<late, mingled, carried>>
hostVars == <<command, at, phase, attempt, proof, got, said, sessions, history>>
gunVars  == <<owed, deaf, streaming, reporting, eeprom>>
linkVars == <<hostVars, gunVars, unsent, heard>>

-----------------------------------------------------------------------------
\* The commands, step by step.  Ask must be answered, Try may fail and is gone on from.
Ask(q)  == [do |-> "ask", what |-> q]
Try(q)  == [do |-> "try", what |-> q]
Tell(f) == [do |-> "tell", what |-> f]
Pause   == [do |-> "pause", what |-> "input"]

\* Both legs of the handshake: our challenge, the gun's, our response and its verdict.
Auth == <<Ask("challenge"), Ask("dare"), Ask("response")>>

Burst == <<Tell("recoil"), Pause>>

ApplyConfig == <<Tell("map")>> \o Burst \o <<Tell("report"), Tell("modes")>>

StartStreaming == <<Tell("stream"), Tell("stream")>>

\* Mistakes the checks must notice.
StreamsFirst ==
    StartStreaming \o <<Try("x"), Try("y")>> \o ApplyConfig \o <<Tell("report")>>

ConfiguresFirst == ApplyConfig \o <<Try("x"), Try("y")>> \o StartStreaming \o <<Tell("report")>>

WritesOneOffset == <<Tell("setx"), Tell("setx")>>

PrepareGun == <<Try("x"), Try("y")>> \o ApplyConfig \o StartStreaming \o <<Tell("report")>>

WriteCalibration == <<Tell("setx"), Tell("sety")>>

TrackSteps   == <<Try("id")>> \o PrepareGun
InfoSteps    == <<Ask("version"), Ask("name"), Ask("x"), Ask("y"),
                  Try("id"), Try("id"), Try("id"), Try("joystick")>>
SetupSteps   == <<Try("id")>> \o ApplyConfig
MonitorSteps == SetupSteps \o StartStreaming \o <<Tell("modes"), Tell("report")>>
RecoilSteps  == <<Try("id")>> \o Burst \o <<Tell("enable"), Ask("version"), Tell("pulse"),
                                            Tell("enable")>>
JoystickSteps == <<Tell("setjoystick"), Pause>>      \* the gun is reset then: Reenumerate
StatusSteps  == <<Ask("joystick")>>
CompareSteps == <<Ask("x"), Ask("y")>> \o WriteCalibration \o <<Ask("x"), Ask("y")>>

StepsOf(c) == Auth \o (CASE c = "track"    -> TrackSteps
                         [] c = "info"     -> InfoSteps
                         [] c = "setup"    -> SetupSteps
                         [] c = "monitor"  -> MonitorSteps
                         [] c = "recoil"   -> RecoilSteps
                         [] c = "joystick" -> JoystickSteps
                         [] c = "status"   -> StatusSteps
                         [] c = "compare"  -> CompareSteps
                         [] c = "save"     -> WriteCalibration)

Questions == {"x", "y", "id", "version", "name", "joystick"}
Long      == {"challenge", "response", "zeros"}     \* messages of 32 bytes and more
Step      == StepsOf(command)[at]
LeftToDo  == at <= Len(StepsOf(command))
InAuth    == at <= Len(Auth)

\* What the gun says something to.
Draws(m) == m.what \in Questions \cup {"challenge", "dare", "response", "zeros", "recoil"}

LinkInit ==
    /\ command \in Commands /\ at = 1 /\ phase = "closed" /\ attempt = 1
    /\ unsent = <<>> /\ heard = <<>> /\ proof = FALSE
    /\ got = [x |-> "none", y |-> "none"] /\ said = FALSE /\ sessions = 0
    /\ late = FALSE /\ mingled = FALSE /\ carried = FALSE
    /\ owed \in BOOLEAN /\ deaf \in BOOLEAN /\ streaming \in BOOLEAN /\ reporting \in BOOLEAN
    /\ eeprom = [x |-> "old", y |-> "old"]

-----------------------------------------------------------------------------
\* The gun.  The messages of a question that was given up are no longer fresh.
Stale(s) == [i \in DOMAIN s |-> [s[i] EXCEPT !.fresh = FALSE]]

Says(what, m) == Append(heard, [what |-> what, fresh |-> m.fresh, value |-> "none"])

\* A gun that waits for a payload takes the next 32 bytes for it, whatever they are.
GunTakesPayload(m) ==
    /\ owed' = (m.what \notin Long)
    /\ heard' = IF m.what \in Long THEN Says("hash", [m EXCEPT !.fresh = FALSE]) ELSE heard
    /\ UNCHANGED <<deaf, streaming, reporting, eeprom>>

GunAnswers(m) ==
    /\ heard' = CASE m.what = "challenge" -> Says("hash", m)
                  [] m.what = "dare"      -> Says("nonce", m)
                  [] m.what = "response"  -> Says(IF m.right THEN "true" ELSE "false", m)
                  [] m.what \in {"x", "y"} /\ ~streaming ->
                         Append(heard, [what |-> m.what, fresh |-> m.fresh,
                                        value |-> eeprom[m.what]])
                  [] m.what \in {"id", "version", "name", "joystick"} /\ ~streaming -> Says(m.what, m)
                  [] m.what = "recoil" -> Says("recoil", m)
                  [] OTHER -> heard
    \* A query while it streams can leave the firmware not reading at all.
    /\ deaf' \in {deaf, m.what \in Questions /\ streaming}
    /\ streaming' = (streaming \/ m.what = "stream")
    \* Firmware 1.9 only heeds command 50 while it streams, older ones always do.
    /\ reporting' \in IF m.what = "report" THEN {TRUE, streaming} ELSE {reporting}
    /\ eeprom' = CASE m.what = "setx" -> [eeprom EXCEPT !.x = "new"]
                   [] m.what = "sety" -> [eeprom EXCEPT !.y = "new"]
                   [] OTHER -> eeprom
    /\ UNCHANGED owed

GunReads ==
    /\ unsent # <<>> /\ ~deaf
    /\ unsent' = Tail(unsent)
    /\ IF owed THEN GunTakesPayload(Head(unsent)) ELSE GunAnswers(Head(unsent))
    /\ UNCHANGED hostVars

\* It takes a question and does not answer in time.
GunMisses ==
    /\ unsent # <<>> /\ ~deaf /\ ~owed
    /\ Head(unsent).what \in Questions \cup {"challenge", "dare", "response"}
    /\ unsent' = Tail(unsent)
    /\ UNCHANGED <<hostVars, gunVars, heard>>

ButtonPressed ==
    /\ reporting /\ Len(heard) < 2
    /\ heard' = Append(heard, [what |-> "buttons", fresh |-> FALSE, value |-> "none"])
    /\ mingled' = (mingled \/ (carried /\ phase = "waiting" /\ ~InAuth))
    /\ UNCHANGED <<command, at, phase, attempt, proof, got, said, sessions, late, carried,
                   gunVars, unsent>>

\* The microcontroller starts anew.
GunRestarts ==
    /\ owed' = FALSE /\ deaf' = FALSE /\ streaming' = FALSE /\ reporting' = FALSE
    /\ unsent' = <<>> /\ heard' = <<>> /\ carried' = FALSE
    /\ UNCHANGED eeprom

-----------------------------------------------------------------------------
\* Drop for Gun throws away what is unsent, and close what is unread; an answer the gun is
\* working on comes all the same.  A message half sent is cut: an auth command may lose its
\* payload.
HangUp ==
    /\ heard' = <<>>
    /\ \/ unsent' = <<>> /\ UNCHANGED owed
       \/ /\ unsent # <<>> /\ Head(unsent).what = "challenge"
          /\ unsent' = <<>> /\ owed' = TRUE
       \/ /\ unsent # <<>> /\ Draws(Head(unsent))
          /\ unsent' = Stale(<<Head(unsent)>>) /\ UNCHANGED owed
    /\ UNCHANGED <<deaf, streaming, reporting, eeprom>>

\* Gun::open.  No session tells the gun to stop streaming or reporting; whether its firmware
\* does so when it is opened anew is its own.
OpenSession ==
    /\ phase = "closed" /\ sessions < MaxSessions
    /\ command' \in Commands
    /\ at' = 1 /\ phase' = "ready" /\ attempt' = 1
    /\ proof' = FALSE /\ got' = [x |-> "none", y |-> "none"] /\ said' = FALSE
    /\ sessions' = sessions + 1
    /\ streaming' \in {streaming, FALSE} /\ reporting' \in {reporting, FALSE}
    /\ late' = FALSE /\ mingled' = FALSE /\ carried' = (streaming' \/ reporting')
    /\ UNCHANGED <<unsent, heard, owed, deaf, eeprom>>

Message(q) == [what |-> q, fresh |-> TRUE, right |-> proof]

\* query, query_variable and the legs of authenticate: what has come is thrown away
\* first, except between the gun's challenge and our response.
PutQuestion ==
    /\ phase = "ready" /\ LeftToDo /\ Step.do \in {"ask", "try"} /\ Len(unsent) < MaxUnsent
    /\ heard' = IF Step.what = "response" THEN Stale(heard) ELSE <<>>
    /\ unsent' = Append(Stale(unsent), Message(Step.what))
    /\ phase' = "waiting"
    /\ late' = (late \/ (~InAuth /\ \E i \in DOMAIN unsent : Draws(unsent[i])))
    /\ UNCHANGED <<command, at, attempt, proof, got, said, sessions, mingled, carried, gunVars>>

TellGun ==
    /\ phase = "ready" /\ LeftToDo /\ Step.do = "tell" /\ Len(unsent) < MaxUnsent
    /\ unsent' = Append(unsent, Message(Step.what))
    /\ at' = at + 1
    /\ UNCHANGED <<command, phase, attempt, proof, got, said, sessions, history, gunVars, heard>>

\* The gap after a recoil frame, for the gun's answer, and discard_input.
PauseAndDiscard ==
    /\ phase = "ready" /\ LeftToDo /\ Step.do = "pause"
    /\ heard' = <<>>
    /\ at' = at + 1
    /\ UNCHANGED <<command, phase, attempt, proof, got, said, sessions, history, gunVars, unsent>>

\* response == expected_gun_response(&nonce), for the nonce of this attempt.
IsOurHash(b) == b.what = "hash" /\ b.fresh

Acceptable(b) ==
    CASE Step.what = "challenge" -> IsOurHash(b)
      [] Step.what = "response"  -> b.what = "true"
      [] OTHER -> TRUE

Answered ==
    /\ phase = "waiting" /\ heard # <<>> /\ Acceptable(Head(heard))
    /\ LET b == Head(heard) IN
       /\ proof' = (Step.what = "dare" /\ b.what = "nonce" /\ b.fresh)
       /\ got' = IF Step.what \in {"x", "y"}
                 THEN [got EXCEPT ![Step.what] = IF b.what = Step.what THEN b.value ELSE "junk"]
                 ELSE got
    /\ heard' = Tail(heard)
    /\ at' = at + 1 /\ phase' = "ready"
    /\ UNCHANGED <<command, attempt, said, sessions, history, gunVars, unsent>>

\* No answer in time, or our bytes still queued (GunError::Timeout, NotReading).
NoAnswer == phase = "waiting" /\ heard = <<>>

TryFails ==
    /\ NoAnswer /\ Step.do = "try"
    /\ at' = at + 1 /\ phase' = "ready"
    /\ UNCHANGED <<command, attempt, proof, got, said, sessions, history, gunVars, unsent, heard>>

Blocked == phase = "ready" /\ LeftToDo /\ Step.do # "pause" /\ Len(unsent) = MaxUnsent

\* The handshake fails.  looks_wedged: no reply, or a write that blocks; or another
\* hash than the one we asked for.  A refused response is no such case.
HashIsWrong == phase = "waiting" /\ heard # <<>> /\ Step.what = "challenge"
               /\ ~Acceptable(Head(heard))
IsRefused   == phase = "waiting" /\ heard # <<>> /\ Step.what = "response"
               /\ ~Acceptable(Head(heard))
LooksWedged == InAuth /\ (NoAnswer \/ HashIsWrong \/ Blocked)

\* Mistake the checks must notice: only the leg that failed is tried again.
ResumesHandshake ==
    /\ phase = "unwedging"
    /\ heard' = <<>>
    /\ attempt' = 2 /\ phase' = "ready"
    /\ UNCHANGED <<command, at, proof, got, said, sessions, history, gunVars, unsent>>

\* First: feed the pending read 32 bytes, wait, throw away the hash and try again.
Unwedge ==
    /\ LooksWedged /\ attempt = 1 /\ Len(unsent) < MaxUnsent
    /\ unsent' = Append(Stale(unsent), [Message("zeros") EXCEPT !.fresh = FALSE])
    /\ phase' = "unwedging"
    /\ UNCHANGED <<command, at, attempt, proof, got, said, sessions, history, gunVars, heard>>

Unwedged ==
    /\ phase = "unwedging"
    /\ heard' = <<>>
    /\ at' = 1 /\ attempt' = 2 /\ phase' = "ready"
    /\ UNCHANGED <<command, proof, got, said, sessions, history, gunVars, unsent>>

\* Then: drop the session and reset the gun, by the bootloader or its USB port.
GiveUpSession ==
    /\ \/ LooksWedged /\ attempt = 1 /\ Len(unsent) = MaxUnsent
       \/ (LooksWedged \/ IsRefused) /\ attempt = 2
    /\ HangUp
    /\ phase' = "resetting"
    /\ UNCHANGED <<command, at, attempt, proof, got, said, sessions, history>>

ResetAndReopen ==
    /\ phase = "resetting"
    /\ GunRestarts
    /\ at' = 1 /\ attempt' = 3 /\ phase' = "ready"
    /\ UNCHANGED <<command, proof, got, said, sessions, late, mingled>>

TryOnceMore ==
    /\ (LooksWedged \/ IsRefused) /\ attempt = 3
    /\ at' = 1 /\ attempt' = 4 /\ phase' = "ready"
    /\ UNCHANGED <<command, proof, got, said, sessions, history, gunVars, unsent, heard>>

\* The session ends in an error: the last attempt, a refused response, a question that
\* must be answered, a write that blocks, a reset that fails, a port that is gone.
SessionFails ==
    /\ \/ InAuth /\ attempt = 4 /\ (LooksWedged \/ IsRefused)
       \/ attempt = 1 /\ IsRefused
       \/ ~InAuth /\ ((NoAnswer /\ Step.do = "ask") \/ Blocked)
       \/ phase = "resetting"
       \/ phase = "ready" /\ ~LeftToDo /\ command = "joystick"
    /\ HangUp
    /\ phase' = "closed"
    /\ UNCHANGED <<command, at, attempt, proof, got, said, sessions, history>>

\* After joystick-device enable or disable: drop the session, reset the gun so that it
\* enumerates anew, connect again and ask.
Reenumerate ==
    /\ phase = "ready" /\ ~LeftToDo /\ command = "joystick"
    /\ GunRestarts
    /\ command' = "status" /\ at' = 1 /\ attempt' = 1
    /\ UNCHANGED <<phase, proof, got, said, sessions, late, mingled>>

\* The command has done its steps, says so, and drops the session.
Succeed ==
    /\ phase = "ready" /\ ~LeftToDo /\ command # "joystick"
    /\ said' = TRUE
    /\ HangUp
    /\ phase' = "closed"
    /\ UNCHANGED <<command, at, attempt, proof, got, sessions, history>>

LinkNext ==
    \/ GunReads \/ GunMisses \/ ButtonPressed
    \/ OpenSession \/ PutQuestion \/ TellGun \/ PauseAndDiscard \/ Answered \/ TryFails
    \/ Unwedge \/ Unwedged \/ GiveUpSession \/ ResetAndReopen \/ TryOnceMore
    \/ SessionFails \/ Reenumerate \/ Succeed

LinkSpec == LinkInit /\ [][LinkNext]_linkVars

-----------------------------------------------------------------------------
GunBytes == [what : {"hash", "nonce", "true", "false", "recoil", "buttons"} \cup Questions,
          fresh : BOOLEAN, value : {"none", "old", "new"}]

LinkTypeOK ==
    /\ command \in Commands \cup {"status"}
    /\ phase \in {"closed", "ready", "waiting", "unwedging", "resetting"}
    /\ at \in 1 .. Len(StepsOf(command)) + 1
    /\ attempt \in 1..4
    /\ Len(unsent) <= MaxUnsent
    /\ \A i \in DOMAIN heard : heard[i] \in GunBytes
    /\ got \in [{"x", "y"} -> {"none", "old", "new", "junk"}]
    /\ sessions \in 0..MaxSessions
    /\ {proof, said, late, mingled, carried, owed, deaf, streaming, reporting} \subseteq BOOLEAN
    /\ eeprom \in [{"x", "y"} -> {"old", "new"}]

\* No question is on its way to a gun that streams: firmware 1.9 would not answer it,
\* and may stop reading for good (the order of prepare_gun).  A gun that was streaming when
\* the session began is another matter: nothing is known of it but that it was opened.
NothingAskedWhileStreaming ==
    phase = "waiting" /\ ~InAuth =>
        /\ streaming => carried
        /\ \A i \in DOMAIN unsent : unsent[i].what # "stream"

\* The offsets a session aims by are the gun's own: bytes of another answer or of a button
\* report are never taken for one, unless the answer to an earlier question was still to
\* come when the next was put, or a gun that an earlier session left reporting had a button
\* pressed just then (prepare_gun, query).
CalibrationIsTheGuns ==
    ~late /\ ~mingled => got.x # "junk" /\ got.y # "junk"

\* Past the handshake nothing of what was said before can be taken for an answer: whatever
\* attempts, timeouts, cut frames and earlier sessions went before it, the gun has nothing
\* left to say but reports of its buttons, and waits for no payload (authenticate, connect).
HandshakeClearsTheLine ==
    [][at = 3 /\ at' = 4 => /\ unsent' = <<>> /\ ~owed'
                           /\ \A i \in DOMAIN heard' : heard'[i].what = "buttons"]_linkVars

\* debug write-calibration reports success only for offsets it has read back, both
\* new, from the gun that stores them.
ReadBackIsStored ==
    said /\ command = "compare" /\ ~mingled =>
        got = eeprom /\ eeprom = [x |-> "new", y |-> "new"]

\* What calibrate reports as saved to the gun's EEPROM is stored there.
SavedIsStored ==
    said /\ command = "save" => eeprom = [x |-> "new", y |-> "new"]

\* What a session with a gun keeps to, whatever is lost, late or cut short.
LinkInv ==
    /\ LinkTypeOK
    /\ NothingAskedWhileStreaming
    /\ CalibrationIsTheGuns
    /\ ReadBackIsStored
=============================================================================
