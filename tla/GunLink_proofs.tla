-------------------------- MODULE GunLink_proofs --------------------------
(***************************************************************************)
(* Proofs about GunLink: for any of the driver's commands, any number of   *)
(* sessions and any queue of the kernel, whatever the gun loses, answers   *)
(* late or is interrupted in, no question meets a gun that the session made *)
(* stream, no foreign bytes are taken for an offset, what debug             *)
(* write-calibration reports is stored, and a handshake leaves nothing on   *)
(* the line that an answer to it could be confused with.                    *)
(***************************************************************************)
EXTENDS GunLink, SequenceTheorems, TLAPS

USE GunLinkAssumption

(* What the gun is told, what it is asked, and the orders it says nothing  *)
(* to.                                                                     *)
Tells  == {"map", "recoil", "report", "modes", "stream", "enable", "pulse", "setjoystick",
           "setx", "sety"}
Asks   == Questions \cup {"challenge", "dare", "response"}
Silent == Tells \ {"recoil"}
Messages == [what : Asks \cup Tells \cup {"zeros"}, fresh : BOOLEAN, right : BOOLEAN]

-----------------------------------------------------------------------------
(* The commands, step by step: both legs of the handshake, then questions, *)
(* orders and pauses; after what shuts the gun to questions none is asked, *)
(* and a recoil frame is followed by the pause for its answer.             *)
AsksAt(s, j)   == s[j].do \in {"ask", "try"} /\ s[j].what \in Questions
TellsAt(s, j)  == s[j].do = "tell" /\ s[j].what \in Tells
PausesAt(s, j) == s[j].do = "pause"

StepFits(s, j) ==
  /\ AsksAt(s, j) \/ TellsAt(s, j) \/ PausesAt(s, j)
  /\ s[j].do = "tell" /\ s[j].what \in {"stream", "report"} =>
       \A k \in j .. Len(s) : s[k].do \notin {"ask", "try"}
  /\ s[j].do = "tell" /\ s[j].what = "recoil" => j < Len(s) /\ PausesAt(s, j + 1)

Opens(s) == s[1] = Ask("challenge") /\ s[2] = Ask("dare") /\ s[3] = Ask("response")

Fits(s) ==
  /\ Len(s) \in Nat /\ Len(s) >= 3 /\ Opens(s)
  /\ \A j \in 4 .. Len(s) : StepFits(s, j)

AskFrom(s, m, n)  == \A j \in m .. n : \E q \in Questions : s[j] = Ask(q) \/ s[j] = Try(q)
TellFrom(s, m, n) == \A j \in m .. n : s[j] = Pause \/ \E q \in Tells : s[j] = Tell(q)

LEMMA AsksOnly == ASSUME NEW s, NEW m, NEW n, AskFrom(s, m, n)
                  PROVE  \A j \in m .. n : AsksAt(s, j) /\ s[j].do # "tell"
<1> SUFFICES ASSUME NEW j \in m .. n PROVE AsksAt(s, j) /\ s[j].do # "tell"
  OBVIOUS
<1>1. ASSUME NEW q \in Questions, s[j] = Ask(q) \/ s[j] = Try(q)
      PROVE  AsksAt(s, j) /\ s[j].do # "tell"
  BY <1>1 DEF Ask, Try, AsksAt
<1> QED
  BY <1>1 DEF AskFrom

LEMMA TellsOnly == ASSUME NEW s, NEW m, NEW n, TellFrom(s, m, n)
                   PROVE  \A j \in m .. n : /\ TellsAt(s, j) \/ PausesAt(s, j)
                                            /\ s[j].do \notin {"ask", "try"}
<1> SUFFICES ASSUME NEW j \in m .. n
             PROVE  (TellsAt(s, j) \/ PausesAt(s, j)) /\ s[j].do \notin {"ask", "try"}
  OBVIOUS
<1>1. CASE s[j] = Pause
  BY <1>1 DEF Pause, PausesAt
<1>2. ASSUME NEW q \in Tells, s[j] = Tell(q)
      PROVE  TellsAt(s, j) /\ s[j].do = "tell"
  BY <1>2 DEF Tell, TellsAt
<1> QED
  BY <1>1, <1>2 DEF TellFrom

(* Commands that ask first and then only tell.                             *)
LEMMA AskThenTell ==
  ASSUME NEW s, NEW n \in Nat, NEW m, m = n + 1, Len(s) \in Nat, 3 <= n, n <= Len(s),
         Opens(s), AskFrom(s, 4, n), TellFrom(s, m, Len(s)),
         \A j \in m .. Len(s) : s[j].what = "recoil" => j < Len(s) /\ s[j + 1] = Pause
  PROVE  Fits(s)
<1>1. \A j \in 4 .. n : AsksAt(s, j) /\ s[j].do # "tell"
  BY AsksOnly
<1>2. \A j \in m .. Len(s) : /\ TellsAt(s, j) \/ PausesAt(s, j)
                             /\ s[j].do \notin {"ask", "try"}
  BY TellsOnly
<1>3. \A j \in m .. Len(s) : s[j].what = "recoil" => j < Len(s) /\ PausesAt(s, j + 1)
  BY DEF PausesAt, Pause
<1> QED
  BY <1>1, <1>2, <1>3 DEF Fits, StepFits

LEMMA TrackFits == Fits(StepsOf("track"))
<1> DEFINE s == StepsOf("track")
<1>1. s = Auth \o TrackSteps
  BY DEF StepsOf
<1>2. /\ Len(s) = 14 /\ Opens(s) /\ s[4] = Try("id") /\ s[5] = Try("x") /\ s[6] = Try("y")
      /\ s[7] = Tell("map") /\ s[8] = Tell("recoil") /\ s[9] = Pause /\ s[10] = Tell("report")
      /\ s[11] = Tell("modes") /\ s[12] = Tell("stream") /\ s[13] = Tell("stream")
      /\ s[14] = Tell("report")
  BY <1>1 DEF Auth, TrackSteps, PrepareGun, StartStreaming, ApplyConfig, Burst, Opens
<1> HIDE DEF s
<1>3. AskFrom(s, 4, 6)
  BY <1>2 DEF AskFrom, Questions
<1>4. TellFrom(s, 7, 14)
  BY <1>2 DEF TellFrom, Tells
<1>5. \A j \in 7..14 : s[j].what = "recoil" => j < 14 /\ s[j + 1] = Pause
  <2>1. \A j \in 7..14 : s[j].what = "recoil" => j = 8
    BY <1>2 DEF Tell, Pause
  <2> QED
    BY <1>2, <2>1
<1>6. Fits(s)
  <2>1. 7 = 6 + 1 /\ 6 \in Nat /\ 3 <= 6 /\ 6 <= Len(s) /\ Len(s) \in Nat
    BY <1>2
  <2> QED
    BY <1>2, <1>3, <1>4, <1>5, <2>1, AskThenTell
<1> QED
  BY <1>6 DEF s

LEMMA InfoFits == Fits(StepsOf("info"))
<1> DEFINE s == StepsOf("info")
<1>1. s = Auth \o InfoSteps
  BY DEF StepsOf
<1>2. /\ Len(s) = 11 /\ Opens(s) /\ s[4] = Ask("version") /\ s[5] = Ask("name")
      /\ s[6] = Ask("x") /\ s[7] = Ask("y") /\ s[8] = Try("id") /\ s[9] = Try("id")
      /\ s[10] = Try("id") /\ s[11] = Try("joystick")
  BY <1>1 DEF Auth, InfoSteps, Opens
<1> HIDE DEF s
<1>3. AskFrom(s, 4, 11)
  BY <1>2 DEF AskFrom, Questions
<1>4. TellFrom(s, 12, 11)
  BY <1>2 DEF TellFrom, Tells
<1>5. \A j \in 12..11 : s[j].what = "recoil" => j < 11 /\ s[j + 1] = Pause
  BY <1>2 DEF Tell, Pause
<1>6. Fits(s)
  <2>1. 12 = 11 + 1 /\ 11 \in Nat /\ 3 <= 11 /\ 11 <= Len(s) /\ Len(s) \in Nat
    BY <1>2
  <2> QED
    BY <1>2, <1>3, <1>4, <1>5, <2>1, AskThenTell
<1> QED
  BY <1>6 DEF s

LEMMA SetupFits == Fits(StepsOf("setup"))
<1> DEFINE s == StepsOf("setup")
<1>1. s = Auth \o SetupSteps
  BY DEF StepsOf
<1>2. /\ Len(s) = 9 /\ Opens(s) /\ s[4] = Try("id") /\ s[5] = Tell("map")
      /\ s[6] = Tell("recoil") /\ s[7] = Pause /\ s[8] = Tell("report")
      /\ s[9] = Tell("modes")
  BY <1>1 DEF Auth, SetupSteps, ApplyConfig, Burst, Opens
<1> HIDE DEF s
<1>3. AskFrom(s, 4, 4)
  BY <1>2 DEF AskFrom, Questions
<1>4. TellFrom(s, 5, 9)
  BY <1>2 DEF TellFrom, Tells
<1>5. \A j \in 5..9 : s[j].what = "recoil" => j < 9 /\ s[j + 1] = Pause
  <2>1. \A j \in 5..9 : s[j].what = "recoil" => j = 6
    BY <1>2 DEF Tell, Pause
  <2> QED
    BY <1>2, <2>1
<1>6. Fits(s)
  <2>1. 5 = 4 + 1 /\ 4 \in Nat /\ 3 <= 4 /\ 4 <= Len(s) /\ Len(s) \in Nat
    BY <1>2
  <2> QED
    BY <1>2, <1>3, <1>4, <1>5, <2>1, AskThenTell
<1> QED
  BY <1>6 DEF s

LEMMA MonitorFits == Fits(StepsOf("monitor"))
<1> DEFINE s == StepsOf("monitor")
<1>1. s = Auth \o MonitorSteps
  BY DEF StepsOf
<1>2. /\ Len(s) = 13 /\ Opens(s) /\ s[4] = Try("id") /\ s[5] = Tell("map")
      /\ s[6] = Tell("recoil") /\ s[7] = Pause /\ s[8] = Tell("report")
      /\ s[9] = Tell("modes") /\ s[10] = Tell("stream") /\ s[11] = Tell("stream")
      /\ s[12] = Tell("modes") /\ s[13] = Tell("report")
  BY <1>1 DEF Auth, MonitorSteps, SetupSteps, StartStreaming, ApplyConfig, Burst, Opens
<1> HIDE DEF s
<1>3. AskFrom(s, 4, 4)
  BY <1>2 DEF AskFrom, Questions
<1>4. TellFrom(s, 5, 13)
  BY <1>2 DEF TellFrom, Tells
<1>5. \A j \in 5..13 : s[j].what = "recoil" => j < 13 /\ s[j + 1] = Pause
  <2>1. \A j \in 5..13 : s[j].what = "recoil" => j = 6
    BY <1>2 DEF Tell, Pause
  <2> QED
    BY <1>2, <2>1
<1>6. Fits(s)
  <2>1. 5 = 4 + 1 /\ 4 \in Nat /\ 3 <= 4 /\ 4 <= Len(s) /\ Len(s) \in Nat
    BY <1>2
  <2> QED
    BY <1>2, <1>3, <1>4, <1>5, <2>1, AskThenTell
<1> QED
  BY <1>6 DEF s

LEMMA JoystickFits == Fits(StepsOf("joystick"))
<1> DEFINE s == StepsOf("joystick")
<1>1. s = Auth \o JoystickSteps
  BY DEF StepsOf
<1>2. /\ Len(s) = 5 /\ Opens(s) /\ s[4] = Tell("setjoystick") /\ s[5] = Pause
  BY <1>1 DEF Auth, JoystickSteps, Opens
<1> HIDE DEF s
<1>3. AskFrom(s, 4, 3)
  BY <1>2 DEF AskFrom, Questions
<1>4. TellFrom(s, 4, 5)
  BY <1>2 DEF TellFrom, Tells
<1>5. \A j \in 4..5 : s[j].what = "recoil" => j < 5 /\ s[j + 1] = Pause
  BY <1>2 DEF Tell, Pause
<1>6. Fits(s)
  <2>1. 4 = 3 + 1 /\ 3 \in Nat /\ 3 <= 3 /\ 3 <= Len(s) /\ Len(s) \in Nat
    BY <1>2
  <2> QED
    BY <1>2, <1>3, <1>4, <1>5, <2>1, AskThenTell
<1> QED
  BY <1>6 DEF s

LEMMA StatusFits == Fits(StepsOf("status"))
<1> DEFINE s == StepsOf("status")
<1>1. s = Auth \o StatusSteps
  BY DEF StepsOf
<1>2. Len(s) = 4 /\ Opens(s) /\ s[4] = Ask("joystick")
  BY <1>1 DEF Auth, StatusSteps, Opens
<1> HIDE DEF s
<1>3. AskFrom(s, 4, 4)
  BY <1>2 DEF AskFrom, Questions
<1>4. TellFrom(s, 5, 4)
  BY <1>2 DEF TellFrom, Tells
<1>5. \A j \in 5..4 : s[j].what = "recoil" => j < 4 /\ s[j + 1] = Pause
  BY <1>2 DEF Tell, Pause
<1>6. Fits(s)
  <2>1. 5 = 4 + 1 /\ 4 \in Nat /\ 3 <= 4 /\ 4 <= Len(s) /\ Len(s) \in Nat
    BY <1>2
  <2> QED
    BY <1>2, <1>3, <1>4, <1>5, <2>1, AskThenTell
<1> QED
  BY <1>6 DEF s

LEMMA SaveFits == Fits(StepsOf("save"))
<1> DEFINE s == StepsOf("save")
<1>1. s = Auth \o WriteCalibration
  BY DEF StepsOf
<1>2. /\ Len(s) = 5 /\ Opens(s) /\ s[4] = Tell("setx") /\ s[5] = Tell("sety")
  BY <1>1 DEF Auth, WriteCalibration, Opens
<1> HIDE DEF s
<1>3. AskFrom(s, 4, 3)
  BY <1>2 DEF AskFrom, Questions
<1>4. TellFrom(s, 4, 5)
  BY <1>2 DEF TellFrom, Tells
<1>5. \A j \in 4..5 : s[j].what = "recoil" => j < 5 /\ s[j + 1] = Pause
  BY <1>2 DEF Tell, Pause
<1>6. Fits(s)
  <2>1. 4 = 3 + 1 /\ 3 \in Nat /\ 3 <= 3 /\ 3 <= Len(s) /\ Len(s) \in Nat
    BY <1>2
  <2> QED
    BY <1>2, <1>3, <1>4, <1>5, <2>1, AskThenTell
<1> QED
  BY <1>6 DEF s

(* Commands that ask between their orders give none that shuts the gun.    *)
LEMMA AskBetween ==
  ASSUME NEW s, Len(s) \in Nat, 3 <= Len(s), Opens(s),
         \A j \in 4 .. Len(s) : \/ AsksAt(s, j)
                                \/ TellsAt(s, j) /\ s[j].what \notin {"stream", "report"}
                                \/ PausesAt(s, j),
         \A j \in 4 .. Len(s) : s[j].what = "recoil" => j < Len(s) /\ PausesAt(s, j + 1)
  PROVE  Fits(s)
BY DEF Fits, StepFits, AsksAt, PausesAt

LEMMA RecoilFits == Fits(StepsOf("recoil"))
<1> DEFINE s == StepsOf("recoil")
<1>1. s = Auth \o RecoilSteps
  BY DEF StepsOf
<1>2. /\ Len(s) = 10 /\ Opens(s) /\ s[4] = Try("id") /\ s[5] = Tell("recoil") /\ s[6] = Pause
      /\ s[7] = Tell("enable") /\ s[8] = Ask("version") /\ s[9] = Tell("pulse")
      /\ s[10] = Tell("enable")
  BY <1>1 DEF Auth, RecoilSteps, Burst, Opens
<1> HIDE DEF s
<1>3. \A j \in 4..10 : j = 4 \/ j = 5 \/ j = 6 \/ j = 7 \/ j = 8 \/ j = 9 \/ j = 10
  OBVIOUS
<1>4. AsksAt(s, 4) /\ AsksAt(s, 8) /\ PausesAt(s, 6)
  BY <1>2 DEF AsksAt, PausesAt, Ask, Try, Pause, Questions
<1>5. TellsAt(s, 5) /\ TellsAt(s, 7) /\ TellsAt(s, 9) /\ TellsAt(s, 10)
  BY <1>2 DEF TellsAt, Tell, Tells
<1>6. /\ s[4].what = "id" /\ s[5].what = "recoil" /\ s[6].what = "input"
      /\ s[7].what = "enable" /\ s[8].what = "version" /\ s[9].what = "pulse"
      /\ s[10].what = "enable"
  BY <1>2 DEF Ask, Try, Tell, Pause
<1>7. Fits(s)
  <2>1. Len(s) \in Nat /\ 3 <= Len(s)
    BY <1>2
  <2>2. s[5 + 1] = s[6] /\ 5 < Len(s)
    BY <1>2
  <2>3. \A j \in 4 .. Len(s) : \/ AsksAt(s, j)
                               \/ TellsAt(s, j) /\ s[j].what \notin {"stream", "report"}
                               \/ PausesAt(s, j)
    BY <1>2, <1>3, <1>4, <1>5, <1>6
  <2>4. PausesAt(s, 5 + 1)
    BY <1>4, <2>2 DEF PausesAt
  <2>5. ASSUME NEW j \in 4 .. Len(s), s[j].what = "recoil"
        PROVE  j < Len(s) /\ PausesAt(s, j + 1)
    <3>1. j = 5
      BY <1>2, <1>3, <1>6, <2>5
    <3> QED
      BY <2>2, <2>4, <3>1
  <2>6. Opens(s)
    BY <1>2
  <2> QED
    BY <2>1, <2>3, <2>5, <2>6, AskBetween
<1> QED
  BY <1>7 DEF s

LEMMA CompareIs ==
  LET s == StepsOf("compare") IN
  /\ Len(s) = 9 /\ Opens(s) /\ s[4] = Ask("x") /\ s[5] = Ask("y") /\ s[6] = Tell("setx")
  /\ s[7] = Tell("sety") /\ s[8] = Ask("x") /\ s[9] = Ask("y")
<1>1. StepsOf("compare") = Auth \o CompareSteps
  BY DEF StepsOf
<1> QED
  BY <1>1 DEF Auth, CompareSteps, WriteCalibration, Opens

LEMMA CompareFits == Fits(StepsOf("compare"))
<1> DEFINE s == StepsOf("compare")
<1>1. /\ Len(s) = 9 /\ Opens(s) /\ s[4] = Ask("x") /\ s[5] = Ask("y") /\ s[6] = Tell("setx")
      /\ s[7] = Tell("sety") /\ s[8] = Ask("x") /\ s[9] = Ask("y")
  BY CompareIs
<1> HIDE DEF s
<1>2. \A j \in 4..9 : j = 4 \/ j = 5 \/ j = 6 \/ j = 7 \/ j = 8 \/ j = 9
  OBVIOUS
<1>3. AsksAt(s, 4) /\ AsksAt(s, 5) /\ AsksAt(s, 8) /\ AsksAt(s, 9)
  BY <1>1 DEF AsksAt, Ask, Questions
<1>4. TellsAt(s, 6) /\ TellsAt(s, 7)
  BY <1>1 DEF TellsAt, Tell, Tells
<1>5. /\ s[4].what = "x" /\ s[5].what = "y" /\ s[6].what = "setx" /\ s[7].what = "sety"
      /\ s[8].what = "x" /\ s[9].what = "y"
  BY <1>1 DEF Ask, Tell
<1>6. Fits(s)
  <2>1. Len(s) \in Nat /\ 3 <= Len(s)
    BY <1>1
  <2>2. \A j \in 4..9 : /\ \/ AsksAt(s, j)
                           \/ TellsAt(s, j) /\ s[j].what \notin {"stream", "report"}
                         /\ s[j].what # "recoil"
    BY <1>2, <1>3, <1>4, <1>5
  <2> QED
    BY <1>1, <2>1, <2>2, AskBetween
<1> QED
  BY <1>6 DEF s

LEMMA CommandsFit == \A c \in CommandNames : Fits(StepsOf(c))
BY TrackFits, InfoFits, SetupFits, MonitorFits, JoystickFits, StatusFits, SaveFits,
   RecoilFits, CompareFits
DEF CommandNames

-----------------------------------------------------------------------------
(* The inductive invariant.  What a step asks is a matter of its script.   *)
Asking(c, j) == StepsOf(c)[j].do \in {"ask", "try"}

(* Nothing is asked any more, nor is the handshake still going on.         *)
PastAsking == at > 3 /\ \A j \in at .. Len(StepsOf(command)) : ~Asking(command, j)

Typed ==
  /\ command \in Commands \cup {"status"}
  /\ phase \in {"closed", "ready", "waiting", "unwedging", "resetting"}
  /\ at \in 1 .. Len(StepsOf(command)) + 1
  /\ attempt \in 1..4
  /\ unsent \in Seq(Messages) /\ Len(unsent) <= MaxUnsent
  /\ heard \in Seq(GunBytes)
  /\ got.x \in {"none", "old", "new", "junk"} /\ got.y \in {"none", "old", "new", "junk"}
  /\ got = [x |-> got.x, y |-> got.y]
  /\ sessions \in 0..MaxSessions
  /\ proof \in BOOLEAN /\ said \in BOOLEAN /\ late \in BOOLEAN /\ owed \in BOOLEAN
  /\ mingled \in BOOLEAN /\ carried \in BOOLEAN
  /\ deaf \in BOOLEAN /\ streaming \in BOOLEAN /\ reporting \in BOOLEAN
  /\ eeprom.x \in {"old", "new"} /\ eeprom.y \in {"old", "new"}
  /\ eeprom = [x |-> eeprom.x, y |-> eeprom.y]

Live == phase \in {"ready", "waiting"}

Phases ==
  /\ phase = "unwedging" => at <= 3
  /\ phase = "waiting" => LeftToDo /\ Asking(command, at)
  /\ said => phase = "closed" /\ ~LeftToDo

(* What shuts the gun to questions is said only when no more are to come.  *)
Shut ==
  /\ streaming \/ reporting => PastAsking \/ carried \/ phase = "closed"
  /\ \A i \in 1..Len(unsent) : unsent[i].what \in {"stream", "report"} =>
        PastAsking /\ phase # "closed"

OnlyButtons == \A i \in 1..Len(heard) : heard[i].what = "buttons"

(* From byte i on the gun has said nothing more.                           *)
LastSaid(i) == \A j \in i + 1 .. Len(heard) : heard[j].what = "buttons"

(* First leg: the hash of this attempt has nothing before it to be read,   *)
(* and nothing after it.                                                   *)
FreshIsLast ==
  phase = "waiting" /\ at = 1 =>
    /\ \A i \in 1..Len(unsent) :
         unsent[i].fresh => i = Len(unsent) /\ unsent[i].what = "challenge"
    /\ \A i \in 1..Len(heard) :
         heard[i].fresh => unsent = <<>> /\ ~owed /\ LastSaid(i)

(* A gun that has answered the challenge waits for no payload.             *)
Open == Live /\ at >= 2 => ~owed

(* Second leg: the gun's own challenge is the last thing it says.          *)
Dared ==
  Live /\ at = 2 =>
    /\ ~proof
    /\ phase = "ready" => unsent = <<>> /\ OnlyButtons
    /\ \A i \in 1..Len(unsent) : i = 1 /\ unsent[i].what = "dare"
    /\ \A i \in 1..Len(heard) :
         \/ heard[i].what = "buttons"
         \/ heard[i].what = "nonce" /\ unsent = <<>> /\ LastSaid(i)

(* Third leg: only a response to that very challenge is found right, and   *)
(* then the line is clear behind the verdict.                              *)
Proved ==
  Live /\ at = 3 =>
    /\ ~proof => /\ \A i \in 1..Len(heard) : heard[i].what # "true"
                 /\ \A i \in 1..Len(unsent) : unsent[i].what = "response" => ~unsent[i].right
    /\ proof => /\ phase = "ready" => unsent = <<>> /\ OnlyButtons
                /\ \A i \in 1..Len(unsent) : i = 1 /\ OnlyButtons
                /\ \A i \in 1..Len(heard) : heard[i].what = "true" => LastSaid(i)

(* While a question waits, only its own answer may come.                   *)
Orderly == ~late /\ ~mingled

Apt(b) == Step.what \in {"x", "y"} => b.what = Step.what /\ b.value = eeprom[Step.what]

OneUnderWay ==
  phase = "waiting" /\ at > 3 /\ Orderly =>
    /\ \A i \in 1..Len(unsent) :
          \/ unsent[i].what \in Silent
          \/ i = Len(unsent) /\ unsent[i].what = Step.what /\ heard = <<>>
    /\ heard # <<>> => unsent = <<>> /\ Len(heard) = 1 /\ Apt(heard[1])

NoJunk == Orderly => got.x # "junk" /\ got.y # "junk"

(* What write-calibration sent is stored, or still before its question.    *)
OnItsWay(v, q) == eeprom[v] = "new" \/ \E i \in 1..Len(unsent) : unsent[i].what = q

Stored ==
  command = "compare" /\ ~mingled =>
    /\ ~late
    /\ phase = "ready" /\ at > 3 => \A i \in 1..Len(unsent) : unsent[i].what \in Silent
    /\ Live /\ at >= 7 => OnItsWay("x", "setx")
    /\ Live /\ at >= 8 => OnItsWay("y", "sety")
    /\ at >= 9 => got.x = "new" /\ eeprom.x = "new"
    /\ at >= 10 => got.y = "new" /\ eeprom.y = "new"

IInv == /\ Typed /\ Phases /\ Shut /\ FreshIsLast /\ Open /\ Dared /\ Proved
        /\ OneUnderWay /\ NoJunk /\ Stored

-----------------------------------------------------------------------------
(* Queues: what is put at the end, taken from the front, or grown old.     *)
LEMMA AppendOf ==
  ASSUME NEW S, NEW s \in Seq(S), NEW e \in S
  PROVE  /\ Append(s, e) \in Seq(S) /\ Len(Append(s, e)) = Len(s) + 1 /\ Append(s, e) # <<>>
         /\ \A i \in 1..Len(s) : Append(s, e)[i] = s[i]
         /\ Append(s, e)[Len(s) + 1] = e
OBVIOUS

LEMMA TailOf ==
  ASSUME NEW S, NEW s \in Seq(S), s # <<>>
  PROVE  /\ Tail(s) \in Seq(S) /\ Len(s) \in Nat \ {0} /\ Len(Tail(s)) = Len(s) - 1
         /\ \A i \in 1..Len(Tail(s)) : Tail(s)[i] = s[i + 1]
         /\ Head(s) = s[1] /\ Head(s) \in S
OBVIOUS

LEMMA StaleMessages ==
  ASSUME NEW s \in Seq(Messages)
  PROVE  /\ Stale(s) \in Seq(Messages) /\ Len(Stale(s)) = Len(s)
         /\ \A i \in 1..Len(s) : Stale(s)[i].what = s[i].what /\ ~Stale(s)[i].fresh
<1> DEFINE Old(m) == [m EXCEPT !.fresh = FALSE]
<1>1. \A m \in Messages : Old(m) \in Messages /\ Old(m).what = m.what /\ ~Old(m).fresh
  BY DEF Messages
<1>2. Stale(s) = [i \in DOMAIN s |-> Old(s[i])]
  BY DEF Stale
<1> HIDE DEF Old
<1> QED
  BY <1>1, <1>2

LEMMA StaleBytes ==
  ASSUME NEW s \in Seq(GunBytes)
  PROVE  /\ Stale(s) \in Seq(GunBytes) /\ Len(Stale(s)) = Len(s)
         /\ \A i \in 1..Len(s) : Stale(s)[i].what = s[i].what
<1> DEFINE Old(b) == [b EXCEPT !.fresh = FALSE]
<1>1. \A b \in GunBytes : Old(b) \in GunBytes /\ Old(b).what = b.what
  BY DEF GunBytes
<1>2. Stale(s) = [i \in DOMAIN s |-> Old(s[i])]
  BY DEF Stale
<1> HIDE DEF Old
<1> QED
  BY <1>1, <1>2

LEMMA StepIs ==
  ASSUME Typed
  PROVE  /\ Len(StepsOf(command)) \in Nat /\ Len(StepsOf(command)) >= 3 /\ Len(Auth) = 3
         /\ at = 1 => Step.do = "ask" /\ Step.what = "challenge"
         /\ at = 2 => Step.do = "ask" /\ Step.what = "dare"
         /\ at = 3 => Step.do = "ask" /\ Step.what = "response"
         /\ LeftToDo /\ at > 3 => /\ at \in 4 .. Len(StepsOf(command))
                                  /\ StepFits(StepsOf(command), at)
<1>1. Fits(StepsOf(command)) /\ at \in Nat
  BY CommandsFit DEF Typed, CommandNames
<1>2. Len(Auth) = 3
  BY DEF Auth
<1>3. StepsOf(command)[1].do = "ask" /\ StepsOf(command)[1].what = "challenge"
      /\ StepsOf(command)[2].do = "ask" /\ StepsOf(command)[2].what = "dare"
      /\ StepsOf(command)[3].do = "ask" /\ StepsOf(command)[3].what = "response"
  BY <1>1 DEF Fits, Opens, Ask
<1> QED
  BY <1>1, <1>2, <1>3 DEF Fits, Typed, Step, LeftToDo

LEMMA Initially == LinkInit => IInv
<1> SUFFICES ASSUME LinkInit PROVE IInv
  OBVIOUS
<1>1. Len(StepsOf(command)) \in Nat /\ Len(StepsOf(command)) >= 3
  BY CommandsFit DEF LinkInit, Fits
<1>2. /\ Len(unsent) = 0 /\ Len(heard) = 0 
  BY DEF LinkInit
<1>3. Typed
  <2>1. /\ at \in 1 .. Len(StepsOf(command)) + 1 /\ attempt \in 1..4
        /\ Len(unsent) <= MaxUnsent /\ sessions \in 0..MaxSessions
    BY <1>1, <1>2 DEF LinkInit
  <2>2. unsent \in Seq(Messages) /\ heard \in Seq(GunBytes)
    BY DEF LinkInit
  <2>3. /\ got = [x |-> "none", y |-> "none"] /\ eeprom = [x |-> "old", y |-> "old"]
        /\ command \in Commands /\ phase = "closed" /\ proof = FALSE /\ said = FALSE
        /\ late = FALSE /\ mingled = FALSE /\ carried = FALSE
        /\ owed \in BOOLEAN /\ deaf \in BOOLEAN /\ streaming \in BOOLEAN /\ reporting \in BOOLEAN
    BY DEF LinkInit
  <2> QED
    BY <2>1, <2>2, <2>3 DEF Typed
<1>4. at = 1 /\ phase = "closed" /\ unsent = <<>> /\ heard = <<>>
      /\ got.x = "none" /\ got.y = "none" /\ ~said /\ ~late
  BY DEF LinkInit
<1> QED
  BY <1>2, <1>3, <1>4 DEF IInv, Phases, Shut, Live, FreshIsLast, Open, Dared, Proved,
     OneUnderWay, NoJunk, Stored

LEMMA InRange ==
  ASSUME Typed
  PROVE  /\ at \in Nat /\ Len(unsent) \in Nat /\ Len(heard) \in Nat
         /\ (unsent = <<>> <=> Len(unsent) = 0) /\ (heard = <<>> <=> Len(heard) = 0)
         /\ DOMAIN unsent = 1..Len(unsent) /\ DOMAIN heard = 1..Len(heard)
         /\ \A i \in 1..Len(unsent) : unsent[i] \in Messages
         /\ \A i \in 1..Len(heard) : heard[i] \in GunBytes
<1>1. at \in 1 .. Len(StepsOf(command)) + 1 /\ Len(StepsOf(command)) \in Nat
  BY StepIs DEF Typed
<1>2. unsent \in Seq(Messages) /\ heard \in Seq(GunBytes)
  BY DEF Typed
<1> QED
  BY <1>1, <1>2

(* What stays the same where the driver does nothing.                      *)
LEMMA StandsStill ==
  ASSUME UNCHANGED <<command, at>>
  PROVE  /\ StepsOf(command)' = StepsOf(command) /\ Step' = Step /\ LeftToDo' = LeftToDo
         /\ PastAsking' = PastAsking /\ Asking(command, at)' = Asking(command, at)
BY DEF Step, LeftToDo, PastAsking, Asking

-----------------------------------------------------------------------------
(* The gun says something only to what is asked or to a recoil frame.      *)
Suits(b, m) ==
  /\ b.fresh => m.fresh
  /\ m.what \notin Silent
  /\ m.what \in {"x", "y"} => b.what = m.what /\ b.value = eeprom[m.what]
  /\ m.what = "dare" => b.what = "nonce"
  /\ b.what = "true" => m.what = "response" /\ m.right

LEMMA AnswerOf ==
  ASSUME Typed, NEW m \in Messages, GunAnswers(m)
  PROVE  heard' = heard \/ \E b \in GunBytes : heard' = Append(heard, b) /\ Suits(b, m)
<1> DEFINE Said(w) == [what |-> w, fresh |-> m.fresh, value |-> "none"]
<1>1. \A w \in {"hash", "nonce", "true", "false", "recoil"} \cup Questions :
         Said(w) \in GunBytes /\ Said(w).fresh = m.fresh /\ Said(w).what = w
  BY DEF GunBytes, Messages
<1>2. \A w : Says(w, m) = Append(heard, Said(w))
  BY DEF Says
<1> HIDE DEF Said
<1>3. CASE m.what = "challenge"
  <2>1. heard' = Says("hash", m)
    BY <1>3 DEF GunAnswers
  <2> QED
    BY <1>1, <1>2, <1>3, <2>1 DEF Silent, Tells, Suits
<1>4. CASE m.what = "dare"
  <2>1. heard' = Says("nonce", m)
    BY <1>4 DEF GunAnswers
  <2> QED
    BY <1>1, <1>2, <1>4, <2>1 DEF Silent, Tells, Suits
<1>5. CASE m.what = "response"
  <2>1. heard' = Says(IF m.right THEN "true" ELSE "false", m)
    BY <1>5 DEF GunAnswers
  <2>2. CASE m.right
    BY <1>1, <1>2, <1>5, <2>1, <2>2 DEF Silent, Tells, Suits
  <2>3. CASE ~m.right
    BY <1>1, <1>2, <1>5, <2>1, <2>3 DEF Silent, Tells, Suits
  <2> QED
    BY <2>2, <2>3
<1>6. CASE m.what \in {"x", "y"}
  <2> DEFINE b == [what |-> m.what, fresh |-> m.fresh, value |-> eeprom[m.what]]
  <2>1. heard' = heard \/ heard' = Append(heard, b)
    BY <1>6 DEF GunAnswers
  <2>2. b \in GunBytes /\ b.fresh = m.fresh /\ b.what = m.what /\ b.value = eeprom[m.what]
    BY <1>6 DEF GunBytes, Messages, Typed, Questions
  <2> HIDE DEF b
  <2> QED
    BY <1>6, <2>1, <2>2 DEF Silent, Tells, Suits
<1>7. CASE m.what \in {"id", "version", "name", "joystick"}
  <2>1. heard' = heard \/ heard' = Says(m.what, m)
    BY <1>7 DEF GunAnswers
  <2> QED
    BY <1>1, <1>2, <1>7, <2>1 DEF Silent, Tells, Questions, Suits
<1>8. CASE m.what = "recoil"
  <2>1. heard' = Says("recoil", m)
    BY <1>8 DEF GunAnswers
  <2> QED
    BY <1>1, <1>2, <1>8, <2>1 DEF Silent, Suits
<1>9. CASE m.what \notin Asks \cup {"recoil"}
  <2>1. heard' = heard
    BY <1>9 DEF GunAnswers, Asks, Questions
  <2> QED
    BY <2>1
<1> QED
  BY <1>3, <1>4, <1>5, <1>6, <1>7, <1>8, <1>9 DEF Asks, Questions

LEMMA EepromOf ==
  ASSUME Typed, NEW m \in Messages, GunAnswers(m)
  PROVE  /\ eeprom'.x \in {"old", "new"} /\ eeprom'.y \in {"old", "new"}
         /\ eeprom' = [x |-> eeprom'.x, y |-> eeprom'.y]
         /\ eeprom.x = "new" \/ m.what = "setx" => eeprom'.x = "new"
         /\ eeprom.y = "new" \/ m.what = "sety" => eeprom'.y = "new"
         /\ m.what \notin {"setx", "sety"} => eeprom' = eeprom
<1>1. m.what = "setx" => eeprom' = [eeprom EXCEPT !.x = "new"]
  BY DEF GunAnswers
<1>2. m.what = "sety" => eeprom' = [eeprom EXCEPT !.y = "new"]
  BY DEF GunAnswers
<1>3. m.what \notin {"setx", "sety"} => eeprom' = eeprom
  BY DEF GunAnswers
<1>4. DOMAIN eeprom = {"x", "y"}
  BY DEF Typed
<1> QED
  BY <1>1, <1>2, <1>3, <1>4 DEF Typed

LEMMA CompareStep ==
  ASSUME Typed, command = "compare"
  PROVE  /\ at \in 1..10 /\ (LeftToDo <=> at <= 9)
         /\ at \in {6, 7} => Step.do = "tell"
         /\ at \in {1, 2, 3, 4, 5, 8, 9} => Step.do = "ask"
         /\ at \in {4, 5, 8, 9} => Step.what \in {"x", "y"}
         /\ at = 6 => Step.what = "setx"
         /\ at = 7 => Step.what = "sety"
         /\ at = 8 => Step.what = "x"
         /\ at = 9 => Step.what = "y"
<1> DEFINE s == StepsOf("compare")
<1>1. /\ Len(s) = 9 /\ Opens(s) /\ s[4] = Ask("x") /\ s[5] = Ask("y") /\ s[6] = Tell("setx")
      /\ s[7] = Tell("sety") /\ s[8] = Ask("x") /\ s[9] = Ask("y")
  BY CompareIs
<1>2. at \in 1 .. Len(s) + 1 /\ Step = s[at] /\ (LeftToDo <=> at <= Len(s))
  BY DEF Typed, Step, LeftToDo
<1> HIDE DEF s
<1>3. /\ s[1].do = "ask" /\ s[2].do = "ask" /\ s[3].do = "ask" /\ s[4].do = "ask"
      /\ s[5].do = "ask" /\ s[6].do = "tell" /\ s[7].do = "tell" /\ s[8].do = "ask"
      /\ s[9].do = "ask" /\ s[4].what = "x" /\ s[5].what = "y" /\ s[6].what = "setx"
      /\ s[7].what = "sety" /\ s[8].what = "x" /\ s[9].what = "y"
  BY <1>1 DEF Opens, Ask, Tell
<1> QED
  BY <1>1, <1>2, <1>3

-----------------------------------------------------------------------------
(* The gun takes a message off the queue, with or without an answer.       *)
Takes(m) ==
  /\ unsent # <<>> /\ m = Head(unsent) /\ unsent' = Tail(unsent) /\ UNCHANGED hostVars
  /\ owed' \in BOOLEAN /\ deaf' \in BOOLEAN /\ streaming' \in BOOLEAN /\ reporting' \in BOOLEAN
  /\ owed' => owed /\ m.what \notin Long
  /\ streaming' \/ reporting' => streaming \/ reporting \/ m.what \in {"stream", "report"}
  /\ heard' = heard \/ \E b \in GunBytes : heard' = Append(heard, b) /\ Suits(b, m)
  /\ eeprom'.x \in {"old", "new"} /\ eeprom'.y \in {"old", "new"}
  /\ eeprom' = [x |-> eeprom'.x, y |-> eeprom'.y]
  /\ eeprom.x = "new" \/ (~owed /\ m.what = "setx") => eeprom'.x = "new"
  /\ eeprom.y = "new" \/ (~owed /\ m.what = "sety") => eeprom'.y = "new"
  /\ m.what \notin {"setx", "sety"} => eeprom' = eeprom

LEMMA Taken ==
  ASSUME Typed, NEW m, Takes(m)
  PROVE  /\ m = unsent[1] /\ m \in Messages /\ Len(unsent) > 0 /\ 1 \in 1..Len(unsent)
         /\ unsent' \in Seq(Messages) /\ Len(unsent') = Len(unsent) - 1
         /\ \A i \in 1..Len(unsent') : unsent'[i] = unsent[i + 1] /\ i + 1 \in 1..Len(unsent)
         /\ Len(unsent) = 1 => unsent' = <<>>
         /\ command' = command /\ at' = at /\ phase' = phase /\ proof' = proof /\ got' = got
         /\ said' = said /\ late' = late /\ mingled' = mingled /\ carried' = carried
         /\ attempt' = attempt /\ sessions' = sessions
<1>1. unsent \in Seq(Messages) /\ unsent # <<>> /\ unsent' = Tail(unsent) /\ m = Head(unsent)
  BY DEF Typed, Takes
<1>2. /\ unsent' \in Seq(Messages) /\ Len(unsent) \in Nat \ {0} /\ Len(unsent') = Len(unsent) - 1
      /\ \A i \in 1..Len(unsent') : unsent'[i] = unsent[i + 1]
      /\ m = unsent[1] /\ m \in Messages
  BY <1>1, TailOf
<1>3. 1 \in 1..Len(unsent) /\ \A i \in 1..Len(unsent') : i + 1 \in 1..Len(unsent)
  BY <1>2
<1>4. Len(unsent) = 1 => unsent' = <<>>
  BY <1>2
<1> QED
  BY <1>2, <1>3, <1>4 DEF Takes, hostVars, history

(* What is heard after it.                                                 *)
Adds(b) ==
  /\ Len(heard') = Len(heard) + 1 /\ heard'[Len(heard) + 1] = b
  /\ \A i \in 1..Len(heard) : heard'[i] = heard[i]
  /\ \A i \in 1..Len(heard') : i \in 1..Len(heard) \/ i = Len(heard) + 1

LEMMA HeardThen ==
  ASSUME Typed, NEW m, Takes(m)
  PROVE  /\ heard' \in Seq(GunBytes)
         /\ heard' = heard \/ \E b \in GunBytes : Suits(b, m) /\ Adds(b)
<1>1. heard \in Seq(GunBytes) /\ Len(heard) \in Nat
  BY InRange DEF Typed
<1>2. ASSUME NEW b \in GunBytes, heard' = Append(heard, b)
      PROVE  heard' \in Seq(GunBytes) /\ Adds(b)
  <2>1. /\ heard' \in Seq(GunBytes) /\ Len(heard') = Len(heard) + 1
        /\ heard'[Len(heard) + 1] = b
        /\ \A i \in 1..Len(heard) : heard'[i] = heard[i]
    BY <1>1, <1>2, AppendOf
  <2> QED
    BY <1>1, <2>1 DEF Adds
<1> QED
  BY <1>1, <1>2 DEF Takes

LEMMA TakesTyped == ASSUME IInv, NEW m, Takes(m) PROVE Typed' /\ Phases' /\ Shut'
<1>t. Typed
  BY DEF IInv
<1>1. /\ m = unsent[1] /\ m \in Messages /\ Len(unsent) > 0 /\ 1 \in 1..Len(unsent)
      /\ unsent' \in Seq(Messages) /\ Len(unsent') = Len(unsent) - 1
      /\ \A i \in 1..Len(unsent') : unsent'[i] = unsent[i + 1] /\ i + 1 \in 1..Len(unsent)
      /\ command' = command /\ at' = at /\ phase' = phase /\ proof' = proof /\ got' = got
      /\ said' = said /\ late' = late /\ mingled' = mingled /\ carried' = carried
      /\ attempt' = attempt /\ sessions' = sessions
  BY <1>t, Taken
<1>2. /\ StepsOf(command)' = StepsOf(command) /\ LeftToDo' = LeftToDo
      /\ PastAsking' = PastAsking /\ Asking(command, at)' = Asking(command, at)
  BY <1>1, StandsStill
<1>3. Typed'
  <2>1. Len(unsent') <= MaxUnsent
    BY <1>1, <1>t, InRange DEF Typed
  <2>2. heard' \in Seq(GunBytes)
    BY <1>t, HeardThen
  <2> QED
    BY <1>1, <1>2, <1>t, <2>1, <2>2 DEF Typed, Takes
<1>4. Phases'
  BY <1>1, <1>2 DEF IInv, Phases
<1>5. Shut'
  <2>1. m.what \in {"stream", "report"} => PastAsking
    BY <1>1 DEF IInv, Shut
  <2>2. streaming' \/ reporting' => PastAsking \/ carried \/ phase = "closed"
    BY <2>1 DEF IInv, Shut, Takes
  <2>3. \A i \in 1..Len(unsent') : unsent'[i].what \in {"stream", "report"} =>
           PastAsking /\ phase # "closed"
    BY <1>1 DEF IInv, Shut
  <2> QED
    BY <1>1, <1>2, <2>2, <2>3 DEF Shut
<1> QED
  BY <1>3, <1>4, <1>5

LEMMA TakesFresh == ASSUME IInv, NEW m, Takes(m) PROVE FreshIsLast' /\ Open'
<1>t. Typed
  BY DEF IInv
<1>1. /\ m = unsent[1] /\ Len(unsent) > 0 /\ 1 \in 1..Len(unsent)
      /\ Len(unsent') = Len(unsent) - 1 /\ (Len(unsent) = 1 => unsent' = <<>>)
      /\ \A i \in 1..Len(unsent') : unsent'[i] = unsent[i + 1] /\ i + 1 \in 1..Len(unsent)
      /\ at' = at /\ phase' = phase
      /\ Len(unsent) \in Nat /\ Len(heard) \in Nat
  BY <1>t, Taken, InRange
<1>2. Open'
  BY <1>1 DEF IInv, Open, Live, Takes
<1>3. FreshIsLast'
  <2> SUFFICES ASSUME phase = "waiting", at = 1
               PROVE  /\ \A i \in 1..Len(unsent') :
                           unsent'[i].fresh => i = Len(unsent') /\ unsent'[i].what = "challenge"
                      /\ \A i \in 1..Len(heard') :
                           heard'[i].fresh => unsent' = <<>> /\ ~owed' /\ LastSaid(i)'
    BY <1>1 DEF FreshIsLast
  <2>1. /\ \A i \in 1..Len(unsent) :
             unsent[i].fresh => i = Len(unsent) /\ unsent[i].what = "challenge"
        /\ \A i \in 1..Len(heard) : ~heard[i].fresh
    BY <1>1 DEF IInv, FreshIsLast
  <2>2. \A i \in 1..Len(unsent') :
          unsent'[i].fresh => i = Len(unsent') /\ unsent'[i].what = "challenge"
    <3>1. \A i \in 1..Len(unsent') : i + 1 = Len(unsent) => i = Len(unsent')
      BY <1>1
    <3> QED
      BY <1>1, <2>1, <3>1
  <2>3. CASE heard' = heard
    BY <2>1, <2>2, <2>3
  <2>4. ASSUME NEW b \in GunBytes, Suits(b, m), Adds(b)
        PROVE  \A i \in 1..Len(heard') :
                  heard'[i].fresh => unsent' = <<>> /\ ~owed' /\ LastSaid(i)'
    <3>1. b.fresh => unsent' = <<>> /\ ~owed'
      BY <1>1, <2>1, <2>4 DEF Suits, Takes, Long
    <3>2. \A i : i = Len(heard) + 1 => LastSaid(i)'
      BY <1>1, <2>4 DEF LastSaid, Adds
    <3> QED
      BY <2>1, <2>4, <3>1, <3>2 DEF Adds
  <2> QED
    BY <1>t, <2>2, <2>3, <2>4, HeardThen
<1> QED
  BY <1>2, <1>3

LEMMA TakesDared == ASSUME IInv, NEW m, Takes(m) PROVE Dared'
<1>t. Typed
  BY DEF IInv
<1>1. /\ m = unsent[1] /\ Len(unsent) > 0 /\ 1 \in 1..Len(unsent)
      /\ (Len(unsent) = 1 => unsent' = <<>>)
      /\ at' = at /\ phase' = phase /\ proof' = proof
      /\ Len(unsent) \in Nat /\ Len(heard) \in Nat
  BY <1>t, Taken, InRange
<1> SUFFICES ASSUME Live, at = 2 PROVE Dared'
  BY <1>1 DEF Dared, Live
<1>2. /\ ~proof /\ phase # "ready" /\ Len(unsent) = 1 /\ m.what = "dare"
      /\ \A i \in 1..Len(heard) : heard[i].what = "buttons"
  <2>1. phase # "ready"
    BY <1>1 DEF IInv, Dared
  <2>2. Len(unsent) \in 1..Len(unsent)
    BY <1>1
  <2> QED
    BY <1>1, <2>1, <2>2 DEF IInv, Dared
<1>3. unsent' = <<>> /\ Len(unsent') = 0
  BY <1>1, <1>2
<1>4. \A i \in 1..Len(heard') : \/ heard'[i].what = "buttons"
                                \/ heard'[i].what = "nonce" /\ LastSaid(i)'
  <2>1. CASE heard' = heard
    BY <1>2, <2>1
  <2>2. ASSUME NEW b \in GunBytes, Suits(b, m), Adds(b)
        PROVE  \A i \in 1..Len(heard') : \/ heard'[i].what = "buttons"
                                         \/ heard'[i].what = "nonce" /\ LastSaid(i)'
    <3>1. \A i : i = Len(heard) + 1 => LastSaid(i)'
      BY <1>1, <2>2 DEF LastSaid, Adds
    <3>2. b.what = "nonce"
      BY <1>2, <2>2 DEF Suits
    <3> QED
      BY <1>2, <2>2, <3>1, <3>2 DEF Adds
  <2> QED
    BY <1>t, <2>1, <2>2, HeardThen
<1> QED
  BY <1>1, <1>2, <1>3, <1>4 DEF Dared

LEMMA TakesProved == ASSUME IInv, NEW m, Takes(m) PROVE Proved'
<1>t. Typed
  BY DEF IInv
<1>1. /\ m = unsent[1] /\ Len(unsent) > 0 /\ 1 \in 1..Len(unsent)
      /\ (Len(unsent) = 1 => unsent' = <<>>)
      /\ \A i \in 1..Len(unsent') : unsent'[i] = unsent[i + 1] /\ i + 1 \in 1..Len(unsent)
      /\ at' = at /\ phase' = phase /\ proof' = proof
      /\ Len(unsent) \in Nat /\ Len(heard) \in Nat
  BY <1>t, Taken, InRange
<1> SUFFICES ASSUME Live, at = 3 PROVE Proved'
  BY <1>1 DEF Proved, Live
<1>2. ASSUME NEW b \in GunBytes, Suits(b, m), ~proof PROVE b.what # "true"
  BY <1>1, <1>2 DEF IInv, Proved, Suits
<1>3. CASE ~proof
  <2>1. \A i \in 1..Len(unsent') : unsent'[i].what = "response" => ~unsent'[i].right
    BY <1>1, <1>3 DEF IInv, Proved
  <2>2. \A i \in 1..Len(heard) : heard[i].what # "true"
    BY <1>3 DEF IInv, Proved
  <2>3. \A i \in 1..Len(heard') : heard'[i].what # "true"
    BY <1>2, <1>3, <1>t, <2>2, HeardThen DEF Adds
  <2> QED
    BY <1>1, <1>3, <2>1, <2>3 DEF Proved
<1>4. CASE proof
  <2>1. phase # "ready" /\ Len(unsent) = 1 /\ OnlyButtons
    <3>1. phase # "ready"
      BY <1>1, <1>4 DEF IInv, Proved
    <3>2. Len(unsent) \in 1..Len(unsent)
      BY <1>1
    <3> QED
      BY <1>1, <1>4, <3>1, <3>2 DEF IInv, Proved
  <2>2. unsent' = <<>> /\ Len(unsent') = 0
    BY <1>1, <2>1
  <2>3. \A i \in 1..Len(heard') : heard'[i].what = "true" => LastSaid(i)'
    <3>1. CASE heard' = heard
      BY <2>1, <3>1 DEF OnlyButtons
    <3>2. ASSUME NEW b \in GunBytes, Adds(b)
          PROVE  \A i \in 1..Len(heard') : heard'[i].what = "true" => LastSaid(i)'
      <4>1. \A i : i = Len(heard) + 1 => LastSaid(i)'
        BY <1>1, <3>2 DEF LastSaid, Adds
      <4> QED
        BY <2>1, <3>2, <4>1 DEF OnlyButtons, Adds
    <3> QED
      BY <1>t, <3>1, <3>2, HeardThen
  <2> QED
    BY <1>1, <1>4, <2>1, <2>2, <2>3 DEF Proved
<1> QED
  BY <1>3, <1>4

LEMMA TakesUnder == ASSUME IInv, NEW m, Takes(m) PROVE OneUnderWay' /\ NoJunk'
<1>t. Typed
  BY DEF IInv
<1>1. /\ m = unsent[1] /\ Len(unsent) > 0 /\ 1 \in 1..Len(unsent)
      /\ Len(unsent') = Len(unsent) - 1 /\ (Len(unsent) = 1 => unsent' = <<>>)
      /\ \A i \in 1..Len(unsent') : unsent'[i] = unsent[i + 1] /\ i + 1 \in 1..Len(unsent)
      /\ command' = command /\ at' = at /\ phase' = phase /\ got' = got /\ late' = late
      /\ mingled' = mingled
      /\ Len(unsent) \in Nat /\ Len(heard) \in Nat /\ (heard = <<>> <=> Len(heard) = 0)
  BY <1>t, Taken, InRange
<1>2. Step' = Step
  BY <1>1, StandsStill
<1>3. NoJunk'
  BY <1>1 DEF IInv, NoJunk, Orderly
<1>4. OneUnderWay'
  <2> SUFFICES ASSUME phase = "waiting", at > 3, Orderly
               PROVE  /\ \A i \in 1..Len(unsent') :
                           \/ unsent'[i].what \in Silent
                           \/ i = Len(unsent') /\ unsent'[i].what = Step.what /\ heard' = <<>>
                      /\ heard' # <<>> => unsent' = <<>> /\ Len(heard') = 1 /\ Apt(heard[1])'
    BY <1>1, <1>2 DEF OneUnderWay, Orderly
  <2>1. /\ heard = <<>> /\ (m.what \in Silent \/ (Len(unsent) = 1 /\ m.what = Step.what))
        /\ \A i \in 1..Len(unsent) :
             unsent[i].what \in Silent \/ (i = Len(unsent) /\ unsent[i].what = Step.what)
    BY <1>1 DEF IInv, OneUnderWay
  <2>2. CASE m.what \in Silent
    <3>1. heard' = heard
      BY <2>2 DEF Takes, Suits
    <3>2. \A i \in 1..Len(unsent') : i + 1 = Len(unsent) => i = Len(unsent')
      BY <1>1
    <3> QED
      BY <1>1, <2>1, <3>1, <3>2
  <2>3. CASE m.what \notin Silent
    <3>1. Len(unsent) = 1 /\ m.what = Step.what
      BY <2>1, <2>3
    <3>2. Len(unsent') = 0 /\ unsent' = <<>>
      BY <1>1, <3>1
    <3>3. ASSUME heard' # <<>> PROVE Len(heard') = 1 /\ Apt(heard[1])'
      <4>1. PICK b \in GunBytes : Suits(b, m) /\ Adds(b)
        BY <1>t, <2>1, <3>3, HeardThen
      <4>2. Len(heard') = 1 /\ heard'[1] = b
        BY <1>1, <2>1, <4>1 DEF Adds
      <4>3. m.what \in {"x", "y"} => eeprom' = eeprom
        BY DEF Takes
      <4> QED
        BY <1>2, <3>1, <4>1, <4>2, <4>3 DEF Apt, Suits
    <3> QED
      BY <3>2, <3>3
  <2> QED
    BY <2>2, <2>3
<1> QED
  BY <1>3, <1>4

LEMMA TakesStored == ASSUME IInv, NEW m, Takes(m) PROVE Stored'
<1>t. Typed
  BY DEF IInv
<1>1. /\ m = unsent[1] /\ Len(unsent) > 0
      /\ Len(unsent') = Len(unsent) - 1
      /\ \A i \in 1..Len(unsent') : unsent'[i] = unsent[i + 1] /\ i + 1 \in 1..Len(unsent)
      /\ command' = command /\ at' = at /\ phase' = phase /\ got' = got /\ late' = late
      /\ mingled' = mingled /\ Len(unsent) \in Nat /\ at \in Nat
  BY <1>t, Taken, InRange
<1> SUFFICES ASSUME command = "compare", ~mingled PROVE Stored'
  BY <1>1 DEF Stored
<1>2. ASSUME NEW v \in {"x", "y"}, NEW q, q = (IF v = "x" THEN "setx" ELSE "sety"),
             OnItsWay(v, q), ~owed
      PROVE  OnItsWay(v, q)'
  <2>1. CASE eeprom[v] = "new"
    BY <1>2, <2>1 DEF OnItsWay, Takes
  <2>2. ASSUME NEW i \in 1..Len(unsent), unsent[i].what = q PROVE OnItsWay(v, q)'
    <3>1. CASE i = 1
      <4>1. eeprom'[v] = "new"
        BY <1>1, <1>2, <2>2, <3>1 DEF Takes
      <4> QED
        BY <4>1 DEF OnItsWay
    <3>2. CASE i # 1
      <4>1. i - 1 \in 1..Len(unsent') /\ unsent'[i - 1] = unsent[i]
        BY <1>1, <3>2
      <4> QED
        BY <2>2, <4>1 DEF OnItsWay
    <3> QED
      BY <3>1, <3>2
  <2> QED
    BY <1>2, <2>1, <2>2 DEF OnItsWay
<1>3. Live /\ at >= 7 => OnItsWay("x", "setx")'
  <2>1. Live /\ at >= 7 => OnItsWay("x", "setx") /\ ~owed
    BY <1>1 DEF IInv, Stored, Open
  <2> QED
    BY <1>2, <2>1
<1>4. Live /\ at >= 8 => OnItsWay("y", "sety")'
  <2>1. Live /\ at >= 8 => OnItsWay("y", "sety") /\ ~owed
    BY <1>1 DEF IInv, Stored, Open
  <2> QED
    BY <1>2, <2>1
<1>5. /\ at >= 9 => got'.x = "new" /\ eeprom'.x = "new"
      /\ at >= 10 => got'.y = "new" /\ eeprom'.y = "new"
  BY <1>1 DEF IInv, Stored, Takes
<1>6. /\ ~late
      /\ phase = "ready" /\ at > 3 => \A i \in 1..Len(unsent') : unsent'[i].what \in Silent
  BY <1>1 DEF IInv, Stored
<1> QED
  BY <1>1, <1>3, <1>4, <1>5, <1>6 DEF Stored, Live

LEMMA TakesKeeps == ASSUME IInv, NEW m, Takes(m) PROVE IInv'
BY TakesTyped, TakesFresh, TakesDared, TakesProved, TakesUnder, TakesStored DEF IInv

LEMMA GunReadsKeeps == ASSUME IInv, GunReads PROVE IInv'
<1> DEFINE m == Head(unsent)
<1>t. Typed
  BY DEF IInv
<1>1. /\ unsent # <<>> /\ unsent' = Tail(unsent) /\ UNCHANGED hostVars
      /\ IF owed THEN GunTakesPayload(m) ELSE GunAnswers(m)
  BY DEF GunReads
<1>2. /\ m \in Messages /\ m = Head(unsent)
  BY <1>1, <1>t, TailOf DEF Typed
<1> HIDE DEF m
<1>3. CASE owed
  <2>1. /\ UNCHANGED <<deaf, streaming, reporting, eeprom>>
        /\ owed' = (m.what \notin Long)
        /\ heard' = IF m.what \in Long THEN Says("hash", [m EXCEPT !.fresh = FALSE]) ELSE heard
    BY <1>1, <1>3 DEF GunTakesPayload
  <2>2. m.what \in Long => \E b \in GunBytes : heard' = Append(heard, b) /\ Suits(b, m)
    <3> DEFINE b == [what |-> "hash", fresh |-> [m EXCEPT !.fresh = FALSE].fresh, value |-> "none"]
    <3>1. b \in GunBytes /\ ~b.fresh /\ b.what = "hash"
      BY <1>2 DEF GunBytes, Messages
    <3>2. m.what \in Long => heard' = Append(heard, b)
      BY <2>1 DEF Says
    <3>3. m.what \in Long => m.what \notin Silent /\ m.what \notin {"x", "y", "dare"}
      BY DEF Long, Silent, Tells
    <3> HIDE DEF b
    <3>4. m.what \in Long => Suits(b, m)
      BY <3>1, <3>3 DEF Suits
    <3> QED
      BY <3>1, <3>2, <3>4
  <2>3. owed' => owed /\ m.what \notin Long
    BY <1>3, <2>1
  <2>4. heard' = heard \/ \E b \in GunBytes : heard' = Append(heard, b) /\ Suits(b, m)
    BY <2>1, <2>2
  <2>5. Takes(m)
    BY <1>1, <1>2, <1>3, <1>t, <2>1, <2>3, <2>4 DEF Takes, Typed
  <2> QED
    BY <2>5, TakesKeeps
<1>4. CASE ~owed
  <2>1. /\ GunAnswers(m) /\ owed' = owed
        /\ deaf' \in {deaf, m.what \in Questions /\ streaming}
        /\ streaming' = (streaming \/ m.what = "stream")
        /\ reporting' \in IF m.what = "report" THEN {TRUE, streaming} ELSE {reporting}
    BY <1>1, <1>4 DEF GunAnswers
  <2>2. streaming \in BOOLEAN /\ reporting \in BOOLEAN /\ deaf \in BOOLEAN
    BY <1>t DEF Typed
  <2>3. deaf' \in BOOLEAN
    BY <2>1, <2>2
  <2>4. reporting' = reporting \/ (m.what = "report" /\ reporting' \in {TRUE, streaming})
    BY <2>1
  <2>5. /\ streaming' \in BOOLEAN /\ reporting' \in BOOLEAN
        /\ streaming' \/ reporting' => streaming \/ reporting \/ m.what \in {"stream", "report"}
    BY <2>1, <2>2, <2>4
  <2>6. heard' = heard \/ \E b \in GunBytes : heard' = Append(heard, b) /\ Suits(b, m)
    BY <1>2, <1>t, <2>1, AnswerOf
  <2>7. /\ eeprom'.x \in {"old", "new"} /\ eeprom'.y \in {"old", "new"}
        /\ eeprom' = [x |-> eeprom'.x, y |-> eeprom'.y]
        /\ eeprom.x = "new" \/ m.what = "setx" => eeprom'.x = "new"
        /\ eeprom.y = "new" \/ m.what = "sety" => eeprom'.y = "new"
        /\ m.what \notin {"setx", "sety"} => eeprom' = eeprom
    BY <1>2, <1>t, <2>1, EepromOf
  <2>8. owed' \in BOOLEAN /\ (owed' => owed /\ m.what \notin Long)
    BY <1>4, <1>t, <2>1 DEF Typed
  <2>9. Takes(m)
    BY <1>1, <1>2, <1>4, <2>3, <2>5, <2>6, <2>7, <2>8 DEF Takes
  <2> QED
    BY <2>9, TakesKeeps
<1> QED
  BY <1>3, <1>4

LEMMA GunMissesKeeps == ASSUME IInv, GunMisses PROVE IInv'
<1>1. /\ unsent # <<>> /\ ~owed /\ unsent' = Tail(unsent)
      /\ UNCHANGED <<owed, deaf, streaming, reporting, eeprom>> /\ heard' = heard
      /\ UNCHANGED hostVars
      /\ Head(unsent).what \in Questions \cup {"challenge", "dare", "response"}
  BY DEF GunMisses, gunVars
<1>2. Head(unsent).what \notin {"setx", "sety"}
  BY <1>1 DEF Questions
<1>3. /\ owed' \in BOOLEAN /\ deaf' \in BOOLEAN /\ streaming' \in BOOLEAN /\ reporting' \in BOOLEAN
      /\ eeprom'.x \in {"old", "new"} /\ eeprom'.y \in {"old", "new"}
      /\ eeprom' = [x |-> eeprom'.x, y |-> eeprom'.y]
  BY <1>1 DEF IInv, Typed
<1>4. Takes(Head(unsent))
  BY <1>1, <1>2, <1>3 DEF Takes
<1> QED
  BY <1>4, TakesKeeps

(* A report of a button is no answer, and comes to a session past asking   *)
(* only if the gun came reporting.                                         *)
LEMMA ButtonKeeps == ASSUME IInv, ButtonPressed PROVE IInv'
<1> DEFINE b == [what |-> "buttons", fresh |-> FALSE, value |-> "none"]
<1>t. Typed
  BY DEF IInv
<1>1. /\ reporting /\ heard' = Append(heard, b)
      /\ mingled' = (mingled \/ (carried /\ phase = "waiting" /\ ~InAuth))
      /\ UNCHANGED <<command, at, phase, attempt, proof, got, said, sessions, late, carried>>
      /\ UNCHANGED <<owed, deaf, streaming, reporting, eeprom, unsent>>
  BY DEF ButtonPressed, gunVars
<1>2. b \in GunBytes /\ b.what = "buttons" /\ ~b.fresh
  BY DEF GunBytes
<1> HIDE DEF b
<1>3. heard \in Seq(GunBytes) /\ Len(heard) \in Nat /\ at \in Nat
  BY <1>t, InRange DEF Typed
<1>4. /\ heard' \in Seq(GunBytes) /\ Len(heard') = Len(heard) + 1 /\ heard'[Len(heard) + 1] = b
      /\ \A i \in 1..Len(heard) : heard'[i] = heard[i]
  BY <1>1, <1>2, <1>3, AppendOf
<1>5. \A i \in 1..Len(heard') : i \in 1..Len(heard) \/ i = Len(heard) + 1
  BY <1>3, <1>4
<1>6. /\ StepsOf(command)' = StepsOf(command) /\ LeftToDo' = LeftToDo
      /\ PastAsking' = PastAsking /\ Asking(command, at)' = Asking(command, at)
  BY <1>1, StandsStill
<1>7. Typed'
  <2>1. mingled' \in BOOLEAN
    BY <1>1, <1>t DEF Typed
  <2> QED
    BY <1>1, <1>4, <1>6, <1>t, <2>1 DEF Typed
<1>8. Phases' /\ Shut' /\ Open'
  BY <1>1, <1>6 DEF IInv, Phases, Shut, Open, Live
<1>9. \A i \in 1..Len(heard) : LastSaid(i) => LastSaid(i)'
  BY <1>2, <1>3, <1>4, <1>5 DEF LastSaid
<1>10. OnlyButtons => OnlyButtons'
  BY <1>2, <1>4, <1>5 DEF OnlyButtons
<1>11. FreshIsLast'
  BY <1>1, <1>2, <1>4, <1>5, <1>9 DEF IInv, FreshIsLast
<1>12. Dared'
  BY <1>1, <1>2, <1>4, <1>5, <1>9, <1>10 DEF IInv, Dared, Live
<1>13. Proved'
  BY <1>1, <1>2, <1>4, <1>5, <1>9, <1>10 DEF IInv, Proved, Live
<1>14. OneUnderWay'
  <2> SUFFICES ASSUME phase = "waiting", at > 3 PROVE mingled'
    BY <1>1 DEF OneUnderWay, Orderly
  <2>1. ~PastAsking
    BY <1>3, StepIs, <1>t DEF IInv, Phases, PastAsking, LeftToDo
  <2>2. carried
    BY <1>1, <2>1 DEF IInv, Shut
  <2>3. ~InAuth
    <3>1. Len(Auth) = 3
      BY DEF Auth
    <3> QED
      BY <1>3, <3>1 DEF InAuth
  <2> QED
    BY <1>1, <2>2, <2>3
<1>15. NoJunk'
  BY <1>1 DEF IInv, NoJunk, Orderly
<1>16. Stored'
  BY <1>1 DEF IInv, Stored, OnItsWay, Live
<1> QED
  BY <1>7, <1>8, <1>11, <1>12, <1>13, <1>14, <1>15, <1>16 DEF IInv

-----------------------------------------------------------------------------
(* The facts about the state and the step under way that the driver's      *)
(* actions go by.                                                          *)
LEMMA Under ==
  ASSUME IInv
  PROVE  /\ at \in Nat /\ at >= 1 /\ at <= Len(StepsOf(command)) + 1
         /\ Len(StepsOf(command)) \in Nat /\ Len(StepsOf(command)) >= 3
         /\ (InAuth <=> at <= 3)
         /\ at <= 3 => ~PastAsking /\ LeftToDo /\ Step.do = "ask" /\ Step.what \notin Questions
                       /\ (Step.what = "response" <=> at = 3)
         /\ phase = "waiting" => ~PastAsking
         /\ ~PastAsking => \A i \in 1..Len(unsent) : unsent[i].what \notin {"stream", "report"}
         /\ phase # "closed" => ~said
<1>1. Typed
  BY DEF IInv
<1>2. /\ at \in Nat /\ at >= 1 /\ at <= Len(StepsOf(command)) + 1
      /\ Len(StepsOf(command)) \in Nat /\ Len(StepsOf(command)) >= 3
  BY <1>1, StepIs DEF Typed
<1>3. InAuth <=> at <= 3
  BY <1>1, <1>2, StepIs DEF InAuth
<1>4. at <= 3 => LeftToDo /\ Step.do = "ask" /\ Step.what \in {"challenge", "dare", "response"}
                 /\ (Step.what = "response" <=> at = 3)
  BY <1>1, <1>2, StepIs DEF LeftToDo
<1>5. at <= 3 => ~PastAsking
  BY <1>2 DEF PastAsking
<1>6. phase = "waiting" => ~PastAsking
  BY <1>2 DEF IInv, Phases, PastAsking, LeftToDo
<1> QED
  BY <1>2, <1>3, <1>4, <1>5, <1>6 DEF IInv, Shut, Phases, Questions

(* Past the handshake, what a step may be.                                 *)
LEMMA StepPast ==
  ASSUME IInv, LeftToDo, at > 3
  PROVE  /\ Step.do \in {"ask", "try"} => Step.what \in Questions
         /\ Step.do = "tell" => Step.what \in Tells
         /\ Step.do = "tell" /\ Step.what \in {"stream", "report"} =>
              \A j \in at .. Len(StepsOf(command)) : ~Asking(command, j)
<1>1. at \in 4 .. Len(StepsOf(command)) /\ StepFits(StepsOf(command), at)
  BY StepIs DEF IInv
<1> QED
  BY <1>1 DEF StepFits, AsksAt, TellsAt, PausesAt, Asking, Step

(* Telling on, what shut the gun keeps it shut.                            *)
LEMMA StaysPast ==
  ASSUME IInv, PastAsking, command' = command, at' = at + 1
  PROVE  PastAsking'
<1>1. at \in Nat /\ Len(StepsOf(command)) \in Nat
  BY Under
<1> QED
  BY <1>1 DEF PastAsking, Asking

(* A session or an attempt begins: of what was, only what is on the line   *)
(* and a gun that came as it came are left.                                *)
LEMMA BeginsKeeps ==
  ASSUME IInv, at' = 1, phase' = "ready", attempt' \in 1..4, said' = FALSE,
         command' \in Commands \cup {"status"}, proof' \in BOOLEAN, sessions' \in 0..MaxSessions,
         \/ got' = [x |-> "none", y |-> "none"]
         \/ UNCHANGED <<got, late, mingled>>,
         late' \in BOOLEAN, mingled' \in BOOLEAN, carried' \in BOOLEAN,
         command' = "compare" /\ ~mingled' => ~late',
         unsent' \in Seq(Messages), Len(unsent') <= MaxUnsent, heard' \in Seq(GunBytes),
         owed' \in BOOLEAN, deaf' \in BOOLEAN, streaming' \in BOOLEAN, reporting' \in BOOLEAN,
         streaming' \/ reporting' => carried', UNCHANGED eeprom,
         \A i \in 1..Len(unsent') : unsent'[i].what \notin {"stream", "report"}
  PROVE  IInv'
<1>1. Typed'
  <2>1. Len(StepsOf(command)') \in Nat /\ Len(StepsOf(command)') >= 3
    BY CommandsFit DEF Fits, CommandNames
  <2>2. at' \in 1 .. Len(StepsOf(command)') + 1
    BY <2>1
  <2>3. /\ got'.x \in {"none", "old", "new", "junk"} /\ got'.y \in {"none", "old", "new", "junk"}
        /\ got' = [x |-> got'.x, y |-> got'.y]
    BY DEF IInv, Typed
  <2> QED
    BY <2>2, <2>3 DEF IInv, Typed
<1>2. Phases' /\ Shut' /\ FreshIsLast' /\ Open' /\ Dared' /\ Proved' /\ OneUnderWay'
  BY DEF Phases, Shut, FreshIsLast, Open, Dared, Proved, OneUnderWay
<1>3. NoJunk' /\ Stored'
  BY DEF IInv, NoJunk, Stored, Orderly
<1> QED
  BY <1>1, <1>2, <1>3 DEF IInv

LEMMA OpenKeeps == ASSUME IInv, OpenSession PROVE IInv'
<1>1. /\ phase = "closed" /\ sessions < MaxSessions /\ command' \in Commands
      /\ at' = 1 /\ phase' = "ready" /\ attempt' = 1 /\ proof' = FALSE
      /\ got' = [x |-> "none", y |-> "none"] /\ said' = FALSE /\ sessions' = sessions + 1
      /\ late' = FALSE /\ mingled' = FALSE /\ carried' = (streaming' \/ reporting')
      /\ streaming' \in {streaming, FALSE} /\ reporting' \in {reporting, FALSE}
      /\ UNCHANGED <<unsent, heard, owed, deaf, eeprom>>
  BY DEF OpenSession
<1>2. \A i \in 1..Len(unsent') : unsent'[i].what \notin {"stream", "report"}
  BY <1>1 DEF IInv, Shut
<1>3. /\ unsent' \in Seq(Messages) /\ Len(unsent') <= MaxUnsent /\ heard' \in Seq(GunBytes)
      /\ owed' \in BOOLEAN /\ deaf' \in BOOLEAN /\ streaming' \in BOOLEAN
      /\ reporting' \in BOOLEAN /\ sessions' \in 0..MaxSessions
  <2>1. /\ unsent' \in Seq(Messages) /\ Len(unsent') <= MaxUnsent /\ heard' \in Seq(GunBytes)
        /\ owed' \in BOOLEAN /\ deaf' \in BOOLEAN
    BY <1>1 DEF IInv, Typed
  <2>2. streaming' \in BOOLEAN /\ reporting' \in BOOLEAN
    <3>1. streaming \in BOOLEAN /\ reporting \in BOOLEAN
      BY DEF IInv, Typed
    <3> QED
      BY <1>1, <3>1
  <2>3. sessions' \in 0..MaxSessions
    BY <1>1 DEF IInv, Typed
  <2> QED
    BY <2>1, <2>2, <2>3
<1>4. carried' \in BOOLEAN /\ attempt' \in 1..4
  BY <1>1, <1>3
<1> QED
  BY <1>1, <1>2, <1>3, <1>4, BeginsKeeps

(* The handshake starts again, or the gun itself.                          *)
LEMMA AgainKeeps ==
  ASSUME IInv, Unwedged \/ TryOnceMore \/ ResetAndReopen \/ Reenumerate PROVE IInv'
<1>t. Typed
  BY DEF IInv
<1>1. phase # "closed" /\ ~said
  BY Under DEF Unwedged, TryOnceMore, ResetAndReopen, Reenumerate, LooksWedged, IsRefused,
     NoAnswer, HashIsWrong, Blocked
<1>2. /\ at' = 1 /\ phase' = "ready" /\ attempt' \in 1..4 /\ said' = FALSE
      /\ command' \in {command, "status"} /\ UNCHANGED <<proof, sessions, got, late, mingled, eeprom>>
  BY <1>1, <1>t DEF Unwedged, TryOnceMore, ResetAndReopen, Reenumerate, GunRestarts, history,
     gunVars, Typed
<1>3. command' = "compare" /\ ~mingled' => ~late'
  BY <1>2 DEF IInv, Stored
<1>4. /\ unsent' \in Seq(Messages) /\ Len(unsent') <= MaxUnsent /\ heard' \in Seq(GunBytes)
      /\ owed' \in BOOLEAN /\ deaf' \in BOOLEAN /\ carried' \in BOOLEAN
      /\ streaming' \in BOOLEAN /\ reporting' \in BOOLEAN
      /\ streaming' \/ reporting' => carried'
      /\ \A i \in 1..Len(unsent') : unsent'[i].what \notin {"stream", "report"}
  <2>1. CASE ResetAndReopen \/ Reenumerate
    <3>1. /\ unsent' = <<>> /\ heard' = <<>> /\ owed' = FALSE /\ deaf' = FALSE
          /\ streaming' = FALSE /\ reporting' = FALSE /\ carried' = FALSE
      BY <2>1 DEF ResetAndReopen, Reenumerate, GunRestarts
    <3>2. unsent' \in Seq(Messages) /\ heard' \in Seq(GunBytes)
      BY <3>1
    <3>3. Len(unsent') = 0 /\ Len(unsent') <= MaxUnsent
      BY <3>1
    <3>4. /\ owed' \in BOOLEAN /\ deaf' \in BOOLEAN /\ carried' \in BOOLEAN
          /\ streaming' \in BOOLEAN /\ reporting' \in BOOLEAN
          /\ streaming' \/ reporting' => carried'
      BY <3>1
    <3> QED
      BY <3>2, <3>3, <3>4
  <2>2. CASE Unwedged \/ TryOnceMore
    <3>1. /\ unsent' = unsent /\ (heard' = heard \/ heard' = <<>>)
          /\ UNCHANGED <<owed, deaf, streaming, reporting, carried>>
      BY <2>2 DEF Unwedged, TryOnceMore, gunVars, history
    <3>2. at <= 3
      <4>1. IsRefused => at <= 3
        <5>1. IsRefused => Step.what = "response" /\ LeftToDo /\ Step.do \in {"ask", "try"}
          BY DEF IsRefused, IInv, Phases, Asking, Step
        <5> QED
          BY <5>1, Under, StepPast DEF Questions
      <4>2. LooksWedged => at <= 3
        BY Under DEF LooksWedged
      <4> QED
        BY <2>2, <4>1, <4>2 DEF Unwedged, TryOnceMore, IInv, Phases
    <3>3. ~PastAsking
      BY <3>2, Under
    <3>4. streaming \/ reporting => carried
      BY <1>1, <3>3 DEF IInv, Shut
    <3>5. \A i \in 1..Len(unsent) : unsent[i].what \notin {"stream", "report"}
      BY <3>3, Under
    <3>6. heard' \in Seq(GunBytes)
      <4>1. heard \in Seq(GunBytes) /\ <<>> \in Seq(GunBytes)
        BY <1>t DEF Typed
      <4> QED
        BY <3>1, <4>1
    <3> QED
      BY <1>t, <3>1, <3>4, <3>5, <3>6 DEF Typed
  <2> QED
    BY <2>1, <2>2
<1>5. /\ command' \in Commands \cup {"status"} /\ proof' \in BOOLEAN
      /\ sessions' \in 0..MaxSessions /\ late' \in BOOLEAN /\ mingled' \in BOOLEAN
  BY <1>2, <1>t DEF Typed
<1> QED
  BY <1>2, <1>3, <1>4, <1>5, BeginsKeeps

(* A question is put: with nothing heard, or behind the gun's challenge.   *)
LEMMA PutKeeps == ASSUME IInv, PutQuestion PROVE IInv'
<1> DEFINE q == Message(Step.what)
<1>t. Typed
  BY DEF IInv
<1>1. /\ phase = "ready" /\ LeftToDo /\ Step.do \in {"ask", "try"} /\ Len(unsent) < MaxUnsent
      /\ heard' = IF Step.what = "response" THEN Stale(heard) ELSE <<>>
      /\ unsent' = Append(Stale(unsent), q) /\ phase' = "waiting"
      /\ late' = (late \/ (~InAuth /\ \E i \in DOMAIN unsent : Draws(unsent[i])))
      /\ UNCHANGED <<command, at, attempt, proof, got, said, sessions, mingled, carried>>
      /\ UNCHANGED <<owed, deaf, streaming, reporting, eeprom>>
  BY DEF PutQuestion, gunVars
<1>2. /\ at \in Nat /\ at >= 1 /\ (InAuth <=> at <= 3)
      /\ at = 1 => Step.what = "challenge"
      /\ at = 2 => Step.what = "dare"
      /\ at = 3 => Step.what = "response"
      /\ at > 3 => Step.what \in Questions
  BY <1>1, <1>t, Under, StepIs, StepPast
<1>3. q \in Messages /\ q.what = Step.what /\ q.fresh /\ q.right = proof
  <2>1. Step.what \in Asks
    BY <1>2 DEF Asks
  <2> QED
    BY <1>t, <2>1 DEF Message, Messages, Typed
<1> HIDE DEF q
<1>4. /\ Stale(unsent) \in Seq(Messages) /\ Len(Stale(unsent)) = Len(unsent)
      /\ Len(unsent) \in Nat /\ DOMAIN unsent = 1..Len(unsent)
      /\ \A i \in 1..Len(unsent) : unsent[i] \in Messages
      /\ \A i \in 1..Len(unsent) : /\ Stale(unsent)[i].what = unsent[i].what
                                   /\ ~Stale(unsent)[i].fresh
  BY <1>t, StaleMessages, InRange DEF Typed
<1>5. /\ unsent' \in Seq(Messages) /\ Len(unsent') = Len(unsent) + 1
      /\ unsent'[Len(unsent) + 1] = q
      /\ \A i \in 1..Len(unsent) : unsent'[i].what = unsent[i].what /\ ~unsent'[i].fresh
      /\ \A i \in 1..Len(unsent') : i \in 1..Len(unsent) \/ (i = Len(unsent') /\ unsent'[i] = q)
  BY <1>1, <1>3, <1>4, AppendOf
<1>6. /\ StepsOf(command)' = StepsOf(command) /\ Step' = Step /\ LeftToDo' = LeftToDo
      /\ PastAsking' = PastAsking /\ Asking(command, at)' = Asking(command, at)
  BY <1>1, StandsStill
<1>7. at # 3 => heard' = <<>> /\ Len(heard') = 0
  BY <1>1, <1>2 DEF Questions
<1>8. at = 3 => /\ heard' = Stale(heard) /\ Len(heard') = Len(heard)
                /\ \A i \in 1..Len(heard) : heard'[i].what = heard[i].what
  BY <1>1, <1>2, <1>t, StaleBytes DEF Typed
<1>l. late' <=> late \/ (at > 3 /\ \E i \in 1..Len(unsent) : Draws(unsent[i]))
  <2>1. late' <=> late \/ (~InAuth /\ \E i \in DOMAIN unsent : Draws(unsent[i]))
    BY <1>1
  <2>2. (\E i \in DOMAIN unsent : Draws(unsent[i])) <=> \E i \in 1..Len(unsent) : Draws(unsent[i])
    BY <1>4
  <2>3. ~InAuth <=> at > 3
    BY <1>2
  <2> QED
    BY <2>1, <2>2, <2>3
<1>9. Typed'
  <2>1. heard' \in Seq(GunBytes)
    <3>1. Stale(heard) \in Seq(GunBytes) /\ <<>> \in Seq(GunBytes)
      BY <1>t, StaleBytes DEF Typed
    <3> QED
      BY <1>1, <3>1
  <2>2. Len(unsent') <= MaxUnsent
    BY <1>1, <1>4, <1>5
  <2>3. late' \in BOOLEAN
    BY <1>1, <1>t DEF Typed
  <2> QED
    BY <1>1, <1>5, <1>6, <1>t, <2>1, <2>2, <2>3 DEF Typed
<1>10. Asking(command, at) /\ ~PastAsking
  <2>1. Asking(command, at)
    BY <1>1 DEF Asking, Step
  <2> QED
    BY <1>1, <1>2, <2>1, Under DEF PastAsking, LeftToDo
<1>11. Phases'
  BY <1>1, <1>6, <1>10, Under DEF Phases
<1>12. Shut'
  <2>1. q.what \notin {"stream", "report"}
    BY <1>2, <1>3 DEF Questions
  <2> QED
    BY <1>1, <1>5, <1>6, <1>10, <2>1 DEF IInv, Shut
<1>13. FreshIsLast'
  BY <1>1, <1>2, <1>3, <1>5, <1>7 DEF FreshIsLast
<1>14. Open'
  BY <1>1 DEF IInv, Open, Live
<1>15. Dared'
  <2>1. at = 2 => unsent = <<>> /\ Len(unsent) = 0 /\ ~proof
    BY <1>1 DEF IInv, Dared, Live
  <2> QED
    BY <1>1, <1>2, <1>3, <1>5, <1>7, <2>1 DEF Dared
<1>16. Proved'
  <2> SUFFICES ASSUME at = 3 PROVE Proved'
    BY <1>1 DEF Proved
  <2>1. CASE ~proof
    <3>1. \A i \in 1..Len(unsent) : unsent[i].what = "response" => ~unsent[i].right
      BY <1>1, <2>1 DEF IInv, Proved, Live
    <3>2. \A i \in 1..Len(unsent) : unsent'[i].right = unsent[i].right
      <4>1. \A m \in Messages : [m EXCEPT !.fresh = FALSE].right = m.right
        BY DEF Messages
      <4>2. \A i \in 1..Len(unsent) : Stale(unsent)[i] = [unsent[i] EXCEPT !.fresh = FALSE]
        BY <1>4 DEF Stale
      <4>3. \A i \in 1..Len(unsent) : unsent'[i] = Stale(unsent)[i]
        BY <1>1, <1>3, <1>4, AppendOf
      <4> QED
        BY <1>4, <4>1, <4>2, <4>3
    <3>3. \A i \in 1..Len(heard') : heard'[i].what # "true"
      BY <1>1, <1>8, <2>1 DEF IInv, Proved, Live
    <3> QED
      BY <1>1, <1>3, <1>5, <2>1, <3>1, <3>2, <3>3 DEF Proved
  <2>2. CASE proof
    <3>1. unsent = <<>> /\ Len(unsent) = 0 /\ OnlyButtons
      BY <1>1, <2>2 DEF IInv, Proved, Live
    <3>2. OnlyButtons'
      BY <1>8, <3>1 DEF OnlyButtons
    <3>3. \A i \in 1..Len(unsent') : i = 1
      BY <1>5, <3>1
    <3> QED
      BY <1>1, <2>2, <3>2, <3>3 DEF Proved, OnlyButtons
  <2> QED
    BY <2>1, <2>2
<1>17. OneUnderWay'
  <2> SUFFICES ASSUME at > 3, ~late'
               PROVE  /\ heard' = <<>>
                      /\ \A i \in 1..Len(unsent') :
                           \/ unsent'[i].what \in Silent
                           \/ i = Len(unsent') /\ unsent'[i].what = Step.what
    BY <1>1, <1>6 DEF OneUnderWay, Orderly
  <2>1. \A i \in 1..Len(unsent) : ~Draws(unsent[i])
    BY <1>l
  <2>2. \A m \in Messages : ~Draws(m) => m.what \in Silent
    BY DEF Draws, Messages, Asks, Silent
  <2>3. \A i \in 1..Len(unsent) : unsent[i].what \in Silent
    BY <1>4, <2>1, <2>2
  <2> QED
    BY <1>2, <1>3, <1>5, <1>7, <2>3
<1>18. NoJunk'
  BY <1>1 DEF IInv, NoJunk, Orderly
<1>19. Stored'
  <2> SUFFICES ASSUME command = "compare", ~mingled PROVE Stored'
    BY <1>1 DEF Stored
  <2>1. \A w : \A v \in {"x", "y"} : OnItsWay(v, w) => OnItsWay(v, w)'
    BY <1>1, <1>5 DEF OnItsWay
  <2>2. ~late'
    <3>1. \A w \in Silent : w \notin Questions \cup {"challenge", "dare", "response", "zeros", "recoil"}
      BY DEF Silent, Tells, Questions
    <3>2. at > 3 => \A i \in 1..Len(unsent) : ~Draws(unsent[i])
      BY <1>1, <3>1 DEF IInv, Stored, Draws
    <3>3. ~late
      BY DEF IInv, Stored
    <3> QED
      BY <1>l, <3>2, <3>3
  <2> QED
    BY <1>1, <1>2, <2>1, <2>2 DEF IInv, Stored, Live
<1> QED
  BY <1>9, <1>11, <1>12, <1>13, <1>14, <1>15, <1>16, <1>17, <1>18, <1>19 DEF IInv

LEMMA TellKeeps == ASSUME IInv, TellGun PROVE IInv'
<1> DEFINE q == Message(Step.what)
<1>t. Typed
  BY DEF IInv
<1>1. /\ phase = "ready" /\ LeftToDo /\ Step.do = "tell" /\ Len(unsent) < MaxUnsent
      /\ unsent' = Append(unsent, q) /\ at' = at + 1
      /\ UNCHANGED <<command, phase, attempt, proof, got, said, sessions, late, mingled, carried>>
      /\ UNCHANGED <<owed, deaf, streaming, reporting, eeprom, heard>>
  BY DEF TellGun, gunVars, history
<1>2. at \in Nat /\ at > 3 /\ Len(StepsOf(command)) \in Nat /\ Step.what \in Tells /\ ~said
  BY <1>1, Under, StepPast
<1>3. q \in Messages /\ q.what = Step.what
  BY <1>2, <1>t DEF Message, Messages, Typed
<1> HIDE DEF q
<1>4. /\ unsent' \in Seq(Messages) /\ Len(unsent') = Len(unsent) + 1 /\ Len(unsent) \in Nat
      /\ unsent'[Len(unsent) + 1] = q
      /\ \A i \in 1..Len(unsent) : unsent'[i] = unsent[i]
      /\ \A i \in 1..Len(unsent') : i \in 1..Len(unsent) \/ i = Len(unsent) + 1
  BY <1>1, <1>3, <1>t, AppendOf, InRange DEF Typed
<1>5. Typed'
  <2>1. at' \in 1 .. Len(StepsOf(command')) + 1 /\ Len(unsent') <= MaxUnsent
    BY <1>1, <1>2, <1>4 DEF LeftToDo
  <2> QED
    BY <1>1, <1>4, <1>t, <2>1 DEF Typed
<1>6. Phases'
  BY <1>1, <1>2 DEF Phases
<1>7. PastAsking => PastAsking'
  BY <1>1, StaysPast
<1>8. q.what \in {"stream", "report"} => PastAsking'
  <2>1. q.what \in {"stream", "report"} => PastAsking
    BY <1>1, <1>2, <1>3, StepPast DEF PastAsking
  <2> QED
    BY <1>7, <2>1
<1>9. Shut'
  BY <1>1, <1>4, <1>7, <1>8 DEF IInv, Shut
<1>10. Open' /\ FreshIsLast' /\ Dared' /\ Proved' /\ OneUnderWay'
  <2>1. at' > 3 /\ at' # 1 /\ at' # 2 /\ at' # 3 /\ phase' # "waiting"
    BY <1>1, <1>2
  <2>2. Open'
    BY <1>1, <1>2 DEF IInv, Open, Live
  <2> QED
    BY <2>1, <2>2 DEF FreshIsLast, Dared, Proved, OneUnderWay
<1>11. NoJunk'
  BY <1>1 DEF IInv, NoJunk, Orderly
<1>12. Stored'
  <2> SUFFICES ASSUME command = "compare", ~mingled PROVE Stored'
    BY <1>1 DEF Stored
  <2>1. \A w : \A v \in {"x", "y"} : OnItsWay(v, w) => OnItsWay(v, w)'
    BY <1>1, <1>4 DEF OnItsWay
  <2>2. at \in {6, 7} /\ (at = 6 => q.what = "setx") /\ (at = 7 => q.what = "sety")
    BY <1>1, <1>2, <1>3, <1>t, CompareStep
  <2>3. \A w : \A v \in {"x", "y"} : w = q.what => OnItsWay(v, w)'
    <3>1. Len(unsent) + 1 \in 1..Len(unsent') /\ unsent'[Len(unsent) + 1].what = q.what
      BY <1>4
    <3> QED
      BY <3>1 DEF OnItsWay
  <2>4. at = 6 => OnItsWay("x", "setx")'
    BY <2>2, <2>3
  <2>5. at = 7 => OnItsWay("y", "sety")' /\ OnItsWay("x", "setx")'
    BY <1>1, <2>1, <2>2, <2>3 DEF IInv, Stored, Live
  <2>6. \A i \in 1..Len(unsent') : unsent'[i].what \in Silent
    <3>1. q.what \in Silent
      BY <2>2 DEF Silent, Tells
    <3>2. \A i \in 1..Len(unsent) : unsent[i].what \in Silent
      BY <1>1, <1>2 DEF IInv, Stored
    <3> QED
      BY <1>4, <3>1, <3>2
  <2>7. ~late
    BY DEF IInv, Stored
  <2>8. /\ at' >= 7 => OnItsWay("x", "setx")'
        /\ at' >= 8 => OnItsWay("y", "sety")'
        /\ at' < 9
    BY <1>1, <2>2, <2>4, <2>5
  <2> QED
    BY <1>1, <1>2, <2>6, <2>7, <2>8 DEF Stored
<1> QED
  BY <1>5, <1>6, <1>9, <1>10, <1>11, <1>12 DEF IInv

(* Going on without an answer: past the pause of a recoil frame, or after  *)
(* a question that may fail.                                               *)
LEMMA GoesOnKeeps == ASSUME IInv, PauseAndDiscard \/ TryFails PROVE IInv'
<1>t. Typed
  BY DEF IInv
<1>1. /\ LeftToDo /\ Step.do \in {"pause", "try"} /\ heard' = <<>> /\ at' = at + 1
      /\ phase' = "ready" /\ phase \in {"ready", "waiting"}
      /\ UNCHANGED <<command, attempt, proof, got, said, sessions, late, mingled, carried>>
      /\ UNCHANGED <<owed, deaf, streaming, reporting, eeprom, unsent>>
  BY DEF PauseAndDiscard, TryFails, NoAnswer, gunVars, history, IInv, Phases
<1>2. at \in Nat /\ at > 3 /\ Len(StepsOf(command)) \in Nat /\ ~said /\ command # "compare"
  <2>1. at \in Nat /\ at > 3 /\ Len(StepsOf(command)) \in Nat /\ ~said
    BY <1>1, Under
  <2>2. command # "compare"
    BY <1>1, <1>t, <2>1, CompareStep
  <2> QED
    BY <2>1, <2>2
<1>3. Typed'
  <2>1. at' \in 1 .. Len(StepsOf(command')) + 1 /\ heard' \in Seq(GunBytes)
    BY <1>1, <1>2 DEF LeftToDo
  <2> QED
    BY <1>1, <1>t, <2>1 DEF Typed
<1>4. PastAsking => PastAsking'
  BY <1>1, StaysPast
<1>5. Phases' /\ Shut'
  BY <1>1, <1>2, <1>4 DEF IInv, Phases, Shut
<1>6. Open' /\ FreshIsLast' /\ Dared' /\ Proved' /\ OneUnderWay'
  <2>1. at' > 3 /\ at' # 1 /\ at' # 2 /\ at' # 3 /\ phase' # "waiting"
    BY <1>1, <1>2
  <2>2. Open'
    BY <1>1, <1>2 DEF IInv, Open, Live
  <2> QED
    BY <2>1, <2>2 DEF FreshIsLast, Dared, Proved, OneUnderWay
<1>7. NoJunk' /\ Stored'
  BY <1>1, <1>2 DEF IInv, NoJunk, Orderly, Stored
<1> QED
  BY <1>3, <1>5, <1>6, <1>7 DEF IInv

(* A challenge accepted leaves a clear line, and so does a verdict.        *)
LEMMA Clears ==
  ASSUME IInv, Answered, at \in {1, 3}
  PROVE  unsent = <<>> /\ ~owed /\ \A i \in 1..Len(heard') : heard'[i].what = "buttons"
<1>t. Typed
  BY DEF IInv
<1>1. /\ phase = "waiting" /\ heard # <<>> /\ Acceptable(Head(heard)) /\ heard' = Tail(heard)
  BY DEF Answered
<1>2. /\ Len(heard) \in Nat \ {0} /\ Len(heard') = Len(heard) - 1 /\ Head(heard) = heard[1]
      /\ \A i \in 1..Len(heard') : heard'[i] = heard[i + 1]
  BY <1>1, <1>t, TailOf DEF Typed
<1>3. 1 \in 1..Len(heard) /\ \A i \in 1..Len(heard') : i + 1 \in 1 + 1 .. Len(heard)
  BY <1>2
<1>4. CASE at = 1
  <2>1. heard[1].fresh
    BY <1>1, <1>2, <1>4, <1>t, StepIs DEF Acceptable, IsOurHash
  <2>2. unsent = <<>> /\ ~owed /\ LastSaid(1)
    BY <1>1, <1>3, <1>4, <2>1 DEF IInv, FreshIsLast
  <2> QED
    BY <1>2, <1>3, <2>2 DEF LastSaid
<1>5. CASE at = 3
  <2>1. heard[1].what = "true"
    BY <1>1, <1>2, <1>5, <1>t, StepIs DEF Acceptable
  <2>2. proof
    BY <1>1, <1>3, <1>5, <2>1 DEF IInv, Proved, Live
  <2>3. LastSaid(1) /\ ~OnlyButtons
    BY <1>1, <1>3, <1>5, <2>1, <2>2 DEF IInv, Proved, Live, OnlyButtons
  <2>4. unsent = <<>>
    <3>1. \A i \in 1..Len(unsent) : OnlyButtons
      BY <1>1, <1>5, <2>2 DEF IInv, Proved, Live
    <3>2. ~(Len(unsent) >= 1)
      BY <2>3, <3>1, <1>t, InRange
    <3> QED
      BY <3>2, <1>t, InRange
  <2>5. ~owed
    BY <1>1, <1>5 DEF IInv, Open, Live
  <2> QED
    BY <1>2, <1>3, <2>3, <2>4, <2>5 DEF LastSaid
<1> QED
  BY <1>4, <1>5

LEMMA AnsweredKeeps == ASSUME IInv, Answered PROVE IInv'
<1> DEFINE b == heard[1]
<1>t. Typed
  BY DEF IInv
<1>1. /\ phase = "waiting" /\ heard # <<>> /\ Acceptable(Head(heard))
      /\ proof' = (Step.what = "dare" /\ Head(heard).what = "nonce" /\ Head(heard).fresh)
      /\ got' = IF Step.what \in {"x", "y"}
                THEN [got EXCEPT ![Step.what] = IF Head(heard).what = Step.what
                                                THEN Head(heard).value ELSE "junk"]
                ELSE got
      /\ heard' = Tail(heard) /\ at' = at + 1 /\ phase' = "ready"
      /\ UNCHANGED <<command, attempt, said, sessions, late, mingled, carried, unsent>>
      /\ UNCHANGED <<owed, deaf, streaming, reporting, eeprom>>
  BY DEF Answered, gunVars, history
<1>2. /\ heard \in Seq(GunBytes) /\ heard' \in Seq(GunBytes) /\ Head(heard) = b /\ b \in GunBytes
      /\ Len(heard) \in Nat \ {0} /\ Len(heard') = Len(heard) - 1 /\ 1 \in 1..Len(heard)
      /\ \A i \in 1..Len(heard') : heard'[i] = heard[i + 1] /\ i + 1 \in 1..Len(heard)
  <2>1. /\ heard \in Seq(GunBytes) /\ heard' \in Seq(GunBytes) /\ Head(heard) = b /\ b \in GunBytes
        /\ Len(heard) \in Nat \ {0} /\ Len(heard') = Len(heard) - 1
        /\ \A i \in 1..Len(heard') : heard'[i] = heard[i + 1]
    BY <1>1, <1>t, TailOf DEF Typed
  <2> QED
    BY <2>1
<1>3. /\ at \in Nat /\ at >= 1 /\ Len(StepsOf(command)) \in Nat /\ ~PastAsking /\ ~said
      /\ LeftToDo /\ Len(unsent) \in Nat /\ (unsent = <<>> => Len(unsent) = 0)
  BY <1>1, <1>t, Under, InRange DEF IInv, Phases
<1>4. /\ at = 1 => Step.what = "challenge"
      /\ at = 2 => Step.what = "dare"
      /\ at = 3 => Step.what = "response"
  BY <1>t, StepIs
<1>5. at > 3 /\ Orderly => /\ unsent = <<>>
                           /\ Step.what \in {"x", "y"} => b.what = Step.what /\ b.value = eeprom[Step.what]
  BY <1>1 DEF IInv, OneUnderWay, Apt
<1>6. b.value \in {"none", "old", "new"} /\ b.what \in {"hash", "nonce", "true", "false", "recoil", "buttons"} \cup Questions
  BY <1>2 DEF GunBytes
<1>7. /\ Step.what # "x" => got'.x = got.x
      /\ Step.what # "y" => got'.y = got.y
      /\ Step.what = "x" => got'.x = IF b.what = "x" THEN b.value ELSE "junk"
      /\ Step.what = "y" => got'.y = IF b.what = "y" THEN b.value ELSE "junk"
      /\ got' = [x |-> got'.x, y |-> got'.y]
  <2>1. DOMAIN got = {"x", "y"}
    BY <1>t DEF Typed
  <2>2. CASE Step.what = "x"
    BY <1>1, <1>2, <1>t, <2>1, <2>2 DEF Typed
  <2>3. CASE Step.what = "y"
    BY <1>1, <1>2, <1>t, <2>1, <2>3 DEF Typed
  <2>4. CASE Step.what \notin {"x", "y"}
    BY <1>1, <1>t, <2>4 DEF Typed
  <2> QED
    BY <2>2, <2>3, <2>4
<1> HIDE DEF b
<1>8. Typed'
  <2>1. /\ got'.x \in {"none", "old", "new", "junk"} /\ got'.y \in {"none", "old", "new", "junk"}
    BY <1>6, <1>7, <1>t DEF Typed
  <2>2. at' \in 1 .. Len(StepsOf(command')) + 1 /\ proof' \in BOOLEAN
    BY <1>1, <1>3 DEF LeftToDo
  <2> QED
    BY <1>1, <1>2, <1>7, <1>t, <2>1, <2>2 DEF Typed
<1>9. Phases'
  BY <1>1, <1>3 DEF Phases
<1>10. Shut'
  <2>1. streaming \/ reporting => carried
    BY <1>1, <1>3 DEF IInv, Shut
  <2>2. \A i \in 1..Len(unsent) : unsent[i].what \notin {"stream", "report"}
    BY <1>3, Under
  <2> QED
    BY <1>1, <2>1, <2>2 DEF Shut
<1>11. Open'
  BY <1>1, <1>3, Clears DEF IInv, Open, Live
<1>12. FreshIsLast' /\ OneUnderWay'
  BY <1>1 DEF FreshIsLast, OneUnderWay
<1>13. Dared'
  <2>a. at' = 2 => at = 1
    BY <1>1, <1>3
  <2> SUFFICES ASSUME at = 1 PROVE Dared'
    BY <2>a DEF Dared
  <2>1. unsent = <<>> /\ \A i \in 1..Len(heard') : heard'[i].what = "buttons"
    BY Clears
  <2>2. ~proof'
    BY <1>1, <1>4
  <2>3. unsent' = <<>> /\ Len(unsent') = 0
    BY <1>1, <1>3, <2>1
  <2> QED
    BY <2>1, <2>2, <2>3 DEF Dared, OnlyButtons
<1>14. Proved'
  <2>a. at' = 3 => at = 2
    BY <1>1, <1>3
  <2> SUFFICES ASSUME at = 2 PROVE Proved'
    BY <2>a DEF Proved
  <2>1. /\ \A i \in 1..Len(unsent) : i = 1 /\ unsent[i].what = "dare"
        /\ \A i \in 1..Len(heard) :
             \/ heard[i].what = "buttons"
             \/ heard[i].what = "nonce" /\ unsent = <<>> /\ LastSaid(i)
    BY <1>1 DEF IInv, Dared, Live
  <2>2. \A i \in 1..Len(heard') : heard'[i].what # "true"
    BY <1>2, <2>1
  <2>3. ASSUME proof' PROVE unsent' = <<>> /\ OnlyButtons' /\ Len(unsent') = 0
    <3>1. b.what = "nonce"
      BY <1>1, <1>2, <2>3
    <3>2. unsent = <<>> /\ LastSaid(1)
      BY <1>2, <2>1, <3>1 DEF b
    <3>3. \A i \in 1..Len(heard') : i + 1 \in 1 + 1 .. Len(heard)
      BY <1>2
    <3> QED
      BY <1>1, <1>2, <1>3, <3>2, <3>3 DEF LastSaid, OnlyButtons
  <2>4. CASE proof'
    <3>1. \A i \in 1..Len(unsent') : i = 1 /\ OnlyButtons'
      BY <2>3, <2>4
    <3> QED
      BY <2>2, <2>3, <2>4, <3>1 DEF Proved
  <2>5. CASE ~proof'
    BY <1>1, <2>1, <2>2, <2>5 DEF Proved
  <2> QED
    BY <2>4, <2>5
<1>15. NoJunk'
  <2>1. CASE at <= 3
    BY <1>1, <1>3, <1>4, <1>7, <2>1 DEF IInv, NoJunk, Orderly
  <2>2. CASE at > 3
    <3>1. eeprom.x # "junk" /\ eeprom.y # "junk"
      BY <1>t DEF Typed
    <3> QED
      BY <1>1, <1>5, <1>7, <2>2, <3>1 DEF IInv, NoJunk, Orderly
  <2> QED
    BY <1>3, <2>1, <2>2
<1>16. Stored'
  <2> SUFFICES ASSUME command = "compare", ~mingled PROVE Stored'
    BY <1>1 DEF Stored
  <2>1. ~late /\ Orderly
    BY DEF IInv, Stored, Orderly
  <2>2. unsent = <<>> \/ at < 3
    BY <1>3, <1>5, <2>1, Clears
  <2>3. at' > 3 => \A i \in 1..Len(unsent') : unsent'[i].what \in Silent
    BY <1>1, <1>3, <2>2
  <2>4. at \in {1, 2, 3, 4, 5, 8, 9} /\ (at = 8 => Step.what = "x") /\ (at = 9 => Step.what = "y")
    <3>1. Step.do \in {"ask", "try"}
      BY <1>1 DEF IInv, Phases, Asking, Step
    <3> QED
      BY <1>3, <1>t, <3>1, CompareStep
  <2>5. /\ at' >= 7 => OnItsWay("x", "setx")'
        /\ at' >= 8 => OnItsWay("y", "sety")'
    <3>1. /\ at >= 8 => OnItsWay("x", "setx") /\ OnItsWay("y", "sety")
      BY <1>1, <1>3 DEF IInv, Stored, Live
    <3> QED
      BY <1>1, <1>3, <2>4, <3>1 DEF OnItsWay
  <2>6. at = 8 => eeprom.x = "new" /\ got'.x = "new"
    <3>1. at = 8 => OnItsWay("x", "setx") /\ unsent = <<>>
      BY <1>1, <1>3, <2>2 DEF IInv, Stored, Live
    <3>2. at = 8 => eeprom.x = "new"
      BY <1>3, <3>1 DEF OnItsWay
    <3> QED
      BY <1>5, <1>7, <2>1, <2>4, <3>2
  <2>7. at = 9 => /\ eeprom.y = "new" /\ got'.y = "new"
                  /\ eeprom.x = "new" /\ got'.x = "new"
    <3>1. at = 9 => OnItsWay("y", "sety") /\ unsent = <<>> /\ eeprom.x = "new" /\ got.x = "new"
      BY <1>1, <1>3, <2>2 DEF IInv, Stored, Live
    <3>2. at = 9 => eeprom.y = "new"
      BY <1>3, <3>1 DEF OnItsWay
    <3> QED
      BY <1>5, <1>7, <2>1, <2>4, <3>1, <3>2
  <2>8. (at' >= 9 => at = 8 \/ at = 9) /\ (at' >= 10 => at = 9)
    BY <1>1, <2>4
  <2> QED
    BY <1>1, <2>1, <2>3, <2>5, <2>6, <2>7, <2>8 DEF Stored
<1> QED
  BY <1>8, <1>9, <1>10, <1>11, <1>12, <1>13, <1>14, <1>15, <1>16 DEF IInv

(* A handshake that fails is still one.                                    *)
LEMMA InHandshake ==
  ASSUME IInv, LooksWedged \/ IsRefused
  PROVE  at <= 3 /\ phase \in {"ready", "waiting"} /\ ~PastAsking /\ ~said
<1>1. phase \in {"ready", "waiting"}
  BY DEF LooksWedged, IsRefused, NoAnswer, HashIsWrong, Blocked
<1>2. at <= 3
  <2>1. IsRefused => Step.what = "response" /\ LeftToDo /\ Step.do \in {"ask", "try"}
    BY DEF IsRefused, IInv, Phases, Asking, Step
  <2> QED
    BY <2>1, Under, StepPast DEF LooksWedged, Questions
<1> QED
  BY <1>1, <1>2, Under

LEMMA UnwedgeKeeps == ASSUME IInv, Unwedge PROVE IInv'
<1> DEFINE z == [Message("zeros") EXCEPT !.fresh = FALSE]
<1>t. Typed
  BY DEF IInv
<1>1. /\ LooksWedged /\ Len(unsent) < MaxUnsent /\ unsent' = Append(Stale(unsent), z)
      /\ phase' = "unwedging"
      /\ UNCHANGED <<command, at, attempt, proof, got, said, sessions, late, mingled, carried>>
      /\ UNCHANGED <<owed, deaf, streaming, reporting, eeprom, heard>>
  BY DEF Unwedge, gunVars, history
<1>2. z \in Messages /\ z.what = "zeros"
  BY <1>t DEF Message, Messages, Typed
<1> HIDE DEF z
<1>3. at <= 3 /\ phase \in {"ready", "waiting"} /\ ~PastAsking /\ ~said
  BY <1>1, InHandshake
<1>4. /\ Stale(unsent) \in Seq(Messages) /\ Len(Stale(unsent)) = Len(unsent)
      /\ Len(unsent) \in Nat
      /\ \A i \in 1..Len(unsent) : Stale(unsent)[i].what = unsent[i].what
  BY <1>t, StaleMessages, InRange DEF Typed
<1>5. /\ unsent' \in Seq(Messages) /\ Len(unsent') = Len(unsent) + 1
      /\ unsent'[Len(unsent) + 1] = z
      /\ \A i \in 1..Len(unsent) : unsent'[i].what = unsent[i].what
      /\ \A i \in 1..Len(unsent') : i \in 1..Len(unsent) \/ i = Len(unsent) + 1
  BY <1>1, <1>2, <1>4, AppendOf
<1>6. Typed'
  <2>1. Len(unsent') <= MaxUnsent
    BY <1>1, <1>4, <1>5
  <2> QED
    BY <1>1, <1>5, <1>t, <2>1 DEF Typed
<1>7. Shut'
  <2>1. streaming \/ reporting => carried
    BY <1>3 DEF IInv, Shut
  <2>2. \A i \in 1..Len(unsent) : unsent[i].what \notin {"stream", "report"}
    BY <1>3, Under
  <2> QED
    BY <1>1, <1>2, <1>5, <2>1, <2>2 DEF Shut
<1>8. Phases' /\ FreshIsLast' /\ Open' /\ Dared' /\ Proved' /\ OneUnderWay'
  BY <1>1, <1>3 DEF Phases, FreshIsLast, Open, Dared, Proved, OneUnderWay, Live
<1>9. NoJunk' /\ Stored'
  BY <1>1 DEF IInv, NoJunk, Orderly, Stored, Live
<1> QED
  BY <1>6, <1>7, <1>8, <1>9 DEF IInv

(* Hanging up may leave a question to be answered, never an order.         *)
LEMMA EndKeeps == ASSUME IInv, GiveUpSession \/ SessionFails \/ Succeed PROVE IInv'
<1>t. Typed
  BY DEF IInv
<1>1. /\ HangUp /\ phase' \in {"resetting", "closed"}
      /\ UNCHANGED <<command, at, attempt, proof, got, sessions, late, mingled, carried>>
  BY DEF GiveUpSession, SessionFails, Succeed, history
<1>2. /\ StepsOf(command)' = StepsOf(command) /\ LeftToDo' = LeftToDo
      /\ PastAsking' = PastAsking
  BY <1>1, StandsStill
<1>3. /\ heard' = <<>> /\ owed' \in BOOLEAN
      /\ UNCHANGED <<deaf, streaming, reporting, eeprom>>
      /\ unsent' = <<>> \/ (unsent # <<>> /\ Draws(Head(unsent)) /\ unsent' = Stale(<<Head(unsent)>>))
  BY <1>1, <1>t DEF HangUp, Typed
<1>4. /\ unsent' \in Seq(Messages) /\ Len(unsent') <= MaxUnsent
      /\ \A i \in 1..Len(unsent') : unsent'[i].what \notin {"stream", "report"}
  <2>1. CASE unsent' = <<>>
    <3>1. Len(unsent') = 0
      BY <2>1
    <3> QED
      BY <2>1, <3>1
  <2>2. CASE unsent # <<>> /\ Draws(Head(unsent)) /\ unsent' = Stale(<<Head(unsent)>>)
    <3> DEFINE m == Head(unsent)
    <3>1. m \in Messages
      BY <1>t, <2>2, TailOf DEF Typed
    <3>2. m.what \notin {"stream", "report"}
      BY <2>2 DEF Draws, Questions
    <3> HIDE DEF m
    <3>3. <<m>> \in Seq(Messages) /\ Len(<<m>>) = 1 /\ <<m>>[1] = m
      BY <3>1
    <3>4. /\ Stale(<<m>>) \in Seq(Messages) /\ Len(Stale(<<m>>)) = 1
          /\ \A i \in 1..1 : Stale(<<m>>)[i].what = <<m>>[i].what
      BY <3>3, StaleMessages
    <3>5. unsent' = Stale(<<m>>)
      BY <2>2 DEF m
    <3>6. Len(unsent') <= MaxUnsent
      <4>1. 1 <= MaxUnsent
        OBVIOUS
      <4>2. Len(unsent') = 1
        BY <3>4, <3>5
      <4> QED
        BY <4>1, <4>2
    <3>7. \A i \in 1..Len(unsent') : unsent'[i].what = m.what
      BY <3>3, <3>4, <3>5
    <3> QED
      BY <3>2, <3>4, <3>5, <3>6, <3>7
  <2> QED
    BY <1>3, <2>1, <2>2
<1>5. Typed' /\ said' \in BOOLEAN
  <2>1. said' \in BOOLEAN
    BY <1>t DEF GiveUpSession, SessionFails, Succeed, Typed
  <2>2. heard' \in Seq(GunBytes)
    BY <1>3
  <2> QED
    BY <1>1, <1>2, <1>3, <1>4, <1>t, <2>1, <2>2 DEF Typed
<1>6. /\ phase # "closed" /\ ~said /\ (said' => phase' = "closed" /\ ~LeftToDo)
      /\ phase' = "resetting" => ~PastAsking
  <2>1. CASE Succeed
    BY <2>1, Under DEF Succeed
  <2>2. CASE SessionFails
    BY <2>2, Under DEF SessionFails, LooksWedged, IsRefused, NoAnswer, HashIsWrong, Blocked
  <2>3. CASE GiveUpSession
    <3>1. LooksWedged \/ IsRefused
      BY <2>3 DEF GiveUpSession
    <3> QED
      BY <2>3, <3>1, InHandshake DEF GiveUpSession
  <2> QED
    BY <2>1, <2>2, <2>3
<1>7. Phases'
  BY <1>1, <1>2, <1>6 DEF Phases
<1>8. Shut'
  <2>1. phase' = "closed" \/ (streaming \/ reporting => carried)
    BY <1>1, <1>6 DEF IInv, Shut
  <2> QED
    BY <1>1, <1>3, <1>4, <2>1 DEF Shut
<1>9. FreshIsLast' /\ Open' /\ Dared' /\ Proved' /\ OneUnderWay'
  BY <1>1 DEF FreshIsLast, Open, Dared, Proved, OneUnderWay, Live
<1>10. NoJunk' /\ Stored'
  BY <1>1, <1>3 DEF IInv, NoJunk, Orderly, Stored, Live
<1> QED
  BY <1>5, <1>7, <1>8, <1>9, <1>10 DEF IInv

LEMMA LinkKeeps == IInv /\ [LinkNext]_linkVars => IInv'
<1> SUFFICES ASSUME IInv, [LinkNext]_linkVars PROVE IInv'
  OBVIOUS
<1>1. CASE UNCHANGED linkVars
  BY <1>1
  DEF linkVars, hostVars, history, gunVars, IInv, Typed, Phases, Shut, FreshIsLast, Open, Dared,
      Proved, OnlyButtons, LastSaid, Live, OneUnderWay, NoJunk, Stored, PastAsking, Asking,
      Orderly, Apt, OnItsWay, Step, LeftToDo
<1> QED
  BY <1>1, GunReadsKeeps, GunMissesKeeps, ButtonKeeps, OpenKeeps, PutKeeps, TellKeeps,
     GoesOnKeeps, AnsweredKeeps, UnwedgeKeeps, AgainKeeps, EndKeeps
  DEF LinkNext

-----------------------------------------------------------------------------
LEMMA LinkHolds == IInv => LinkInv
<1> SUFFICES ASSUME IInv PROVE LinkInv
  OBVIOUS
<1>t. Typed
  BY DEF IInv
<1>1. LinkTypeOK
  <2>1. \A i \in DOMAIN heard : heard[i] \in GunBytes
    BY <1>t, InRange
  <2>2. got \in [{"x", "y"} -> {"none", "old", "new", "junk"}]
    BY <1>t DEF Typed
  <2>3. eeprom \in [{"x", "y"} -> {"old", "new"}]
    BY <1>t DEF Typed
  <2>4. {proof, said, late, mingled, carried, owed, deaf, streaming, reporting} \subseteq BOOLEAN
    BY <1>t DEF Typed
  <2> QED
    BY <1>t, <2>1, <2>2, <2>3, <2>4 DEF Typed, LinkTypeOK
<1>2. NothingAskedWhileStreaming
  <2>1. phase = "waiting" => ~PastAsking
    BY Under
  <2>2. ~PastAsking => \A i \in DOMAIN unsent : unsent[i].what # "stream"
    BY <1>t, Under, InRange
  <2> QED
    BY <2>1, <2>2 DEF IInv, Shut, NothingAskedWhileStreaming
<1>3. CalibrationIsTheGuns
  BY DEF IInv, NoJunk, Orderly, CalibrationIsTheGuns
<1>4. ReadBackIsStored
  <2> SUFFICES ASSUME said, command = "compare", ~mingled
               PROVE  got = eeprom /\ eeprom = [x |-> "new", y |-> "new"]
    BY DEF ReadBackIsStored
  <2>1. at = 10
    BY <1>t, CompareStep DEF IInv, Phases
  <2>2. got.x = "new" /\ got.y = "new" /\ eeprom.x = "new" /\ eeprom.y = "new"
    BY <2>1 DEF IInv, Stored
  <2> QED
    BY <1>t, <2>2 DEF Typed
<1> QED
  BY <1>1, <1>2, <1>3, <1>4 DEF LinkInv

(* Whatever a gun loses or answers late, and wherever a session is cut     *)
(* off: no question is put to a gun the session has made stream (the order *)
(* of prepare_gun), offsets are the gun's own unless an answer was still   *)
(* to come or a gun that came reporting had a button pressed, and what     *)
(* debug write-calibration calls written is stored.                        *)
THEOREM LinkIsKept == LinkSpec => []LinkInv
<1>1. LinkInit => IInv
  BY Initially
<1>2. IInv /\ [LinkNext]_linkVars => IInv'
  BY LinkKeeps
<1>3. IInv => LinkInv
  BY LinkHolds
<1> QED
  BY <1>1, <1>2, <1>3, PTL DEF LinkSpec

(* The last leg is left only by the gun's verdict on a response to its     *)
(* challenge of this very attempt.                                         *)
LEMMA ClearStep ==
  IInv /\ [LinkNext]_linkVars =>
    [at = 3 /\ at' = 4 => /\ unsent' = <<>> /\ ~owed'
                          /\ \A i \in DOMAIN heard' : heard'[i].what = "buttons"]_linkVars
<1> SUFFICES ASSUME IInv, LinkNext, at = 3, at' = 4
             PROVE  /\ unsent' = <<>> /\ ~owed'
                    /\ \A i \in DOMAIN heard' : heard'[i].what = "buttons"
  OBVIOUS
<1>1. Step.do = "ask"
  BY StepIs DEF IInv
<1>2. Answered
  <2>1. ~OpenSession /\ ~PutQuestion /\ ~TellGun /\ ~PauseAndDiscard /\ ~TryFails
    BY <1>1 DEF OpenSession, PutQuestion, TellGun, PauseAndDiscard, TryFails
  <2>2. ~GunReads /\ ~GunMisses /\ ~ButtonPressed
    BY DEF GunReads, GunMisses, ButtonPressed, hostVars
  <2>3. ~Unwedge /\ ~Unwedged /\ ~GiveUpSession /\ ~ResetAndReopen /\ ~TryOnceMore
        /\ ~SessionFails /\ ~Reenumerate /\ ~Succeed
    BY DEF Unwedge, Unwedged, GiveUpSession, ResetAndReopen, TryOnceMore, SessionFails,
       Reenumerate, Succeed
  <2> QED
    BY <2>1, <2>2, <2>3 DEF LinkNext
<1>3. unsent = <<>> /\ ~owed /\ \A i \in 1..Len(heard') : heard'[i].what = "buttons"
  BY <1>2, Clears
<1>4. unsent' = unsent /\ owed' = owed
  BY <1>2 DEF Answered, gunVars
<1>5. DOMAIN heard' = 1..Len(heard')
  BY <1>2, AnsweredKeeps DEF IInv, Typed
<1> QED
  BY <1>3, <1>4, <1>5

(* Past the handshake nothing of what was said before it can be taken for  *)
(* an answer, whatever attempts, cut frames and earlier sessions there     *)
(* were (authenticate, connect).                                           *)
THEOREM HandshakesClearTheLine == LinkSpec => HandshakeClearsTheLine
<1>1. LinkInit => IInv
  BY Initially
<1>2. IInv /\ [LinkNext]_linkVars => IInv'
  BY LinkKeeps
<1>3. IInv /\ [LinkNext]_linkVars =>
        [at = 3 /\ at' = 4 => /\ unsent' = <<>> /\ ~owed'
                              /\ \A i \in DOMAIN heard' : heard'[i].what = "buttons"]_linkVars
  BY ClearStep
<1> QED
  BY <1>1, <1>2, <1>3, PTL DEF LinkSpec, HandshakeClearsTheLine
=============================================================================
