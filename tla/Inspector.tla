------------------------------- MODULE Inspector -------------------------------
(***************************************************************************)
(* The inspector application: the codes its camera recognises              *)
(* (ViewerPage.qml), the requests of its MyClient (myclient.cpp), and the  *)
(* picture it shows (main.qml).  All of it runs in one thread, but answers *)
(* come whenever they come and in any order, other codes are recognised    *)
(* meanwhile, and pages are left, entered and made anew.                   *)
(*                                                                         *)
(* The server and the network are external: any request may get any of the *)
(* answers the server has for it, or an error, or none.                    *)
(***************************************************************************)
EXTENDS Integers, FiniteSets

CONSTANTS
    MemberCodes,    \* QR codes of members
    SettingsCodes,  \* QR codes "settings|..." that an administrator made
    Config,         \* Config[c]: the settings in such a code
    Checkpoints, Passwords, NoPassword,
    Delays,         \* re-authorisation delays that may be typed in
    InitialDelay, InitialCheckpoint,
    MaxSends,       \* bound: requests sent in all
    LastTick        \* bound: the time the model covers

Codes == MemberCodes \cup SettingsCodes

ASSUME InspectorAssumption ==
    /\ MemberCodes \cap SettingsCodes = {}
    /\ Config \in [SettingsCodes -> [checkpointID : Checkpoints,
                                     recordDelay : Nat,
                                     clientPassword : Passwords]]
    /\ NoPassword \in Passwords
    /\ Delays \subseteq Nat /\ InitialDelay \in Nat
    /\ InitialCheckpoint \in Checkpoints
    /\ MaxSends \in Nat /\ LastTick \in Nat

VARIABLES
    clock,           \* Date().getTime(), in ticks
    page,            \* the current item of stackView
    checkpointID, recordDelay, clientPassword,  \* globalSettings
    tagsHistory,     \* by code: when it was recognised, its place in the list
    sends,           \* requests sent so far; the last one has this number
    pending,         \* requests under way
    connected,       \* finished() of mngr is connected to getResponse()
    pingGoodTimer,   \* running
    photoImage,      \* what the picture shows, and for which request
    recognised       \* history: by code recognised since the page was made,
                     \* when that was last, and the least delay since then

settings == <<checkpointID, recordDelay, clientPassword>>
clientVars == <<sends, pending, connected>>
screenVars == <<pingGoodTimer, photoImage>>
vars == <<clock, page, settings, tagsHistory, clientVars, screenVars,
          recognised>>

Pages == {"Viewer Page", "Client settings", "Start Page"}
Images == {"none", "photo", "default_face", "nokey", "accessdenied", "crash",
           "connecterror", "configured", "checked"}

\* overlapped: another request was under way at some time since it was sent.
Requests == [number : Nat, code : Codes, checkpoint : Checkpoints,
             command : {"new visit", "ping"}, overlapped : BOOLEAN]

PartlyOn(f, S, T) == DOMAIN f \subseteq S /\ f \in [DOMAIN f -> T]

TypeOK ==
    /\ clock \in Nat
    /\ page \in Pages
    /\ checkpointID \in Checkpoints /\ recordDelay \in Nat
    /\ clientPassword \in Passwords
    /\ PartlyOn(tagsHistory, Codes, [time : Nat, place : Nat])
    /\ sends \in Nat
    /\ pending \subseteq Requests
    /\ connected \in BOOLEAN
    /\ pingGoodTimer \in BOOLEAN
    /\ photoImage \in [image : Images, request : Nat]
    /\ PartlyOn(recognised, Codes, [time : Nat, least : Nat])

NoCodes == [c \in {} |-> 0]
NoImage == [image |-> "none", request |-> 0]

Init ==
    /\ clock = 0
    /\ page = "Viewer Page"
    /\ checkpointID = InitialCheckpoint /\ recordDelay = InitialDelay
    /\ clientPassword = NoPassword
    /\ tagsHistory = NoCodes
    /\ sends = 0 /\ pending = {} /\ connected = FALSE
    /\ pingGoodTimer = FALSE /\ photoImage = NoImage
    /\ recognised = NoCodes

Tick ==
    /\ clock < LastTick
    /\ clock' = clock + 1
    /\ UNCHANGED <<page, settings, tagsHistory, clientVars, screenVars,
                   recognised>>

-----------------------------------------------------------------------------
(* checkTag().                                                             *)

Known == DOMAIN tagsHistory

Age(c) == clock - tagsHistory[c].time

\* Mutant: a code may be sent again when the delay is just over.
StaleEarly(c) == Age(c) >= recordDelay
Stale(c) == Age(c) > recordDelay

\* checkTag(c) = 1
Accepts(c) == c \in Known => Stale(c)

\* The entries the loop passes before it comes to c, or to the end.
Passed(c) ==
    {d \in Known : c \in Known => tagsHistory[d].place < tagsHistory[c].place}

Kept(c) == Known \ {d \in Passed(c) : Stale(d)}

\* Mutant: a code that is refused has its time updated, too.
RefusedEntries(c) ==
    [d \in Kept(c) |-> IF d = c THEN [tagsHistory[d] EXCEPT !.time = clock]
                       ELSE tagsHistory[d]]
Entries(c) == [d \in Kept(c) |-> tagsHistory[d]]

Entry(c) ==
    [time |-> clock,
     place |-> IF c \in Known THEN tagsHistory[c].place ELSE sends + 1]

AcceptedEntries(c) ==
    [d \in Kept(c) \cup {c} |-> IF d = c THEN Entry(c) ELSE tagsHistory[d]]

-----------------------------------------------------------------------------
(* MyClient.                                                               *)

\* Mutant: the slot is connected for the first request only.
ConnectOnce == connected' = (connected \/ sends = 0)
\* However often connect() was called, one disconnect() undoes it all.
ConnectSlot == connected' = TRUE

SendGet(c, command, checkpoint) ==
    /\ sends' = sends + 1
    /\ pending' =
         {[r EXCEPT !.overlapped = TRUE] : r \in pending}
           \cup {[number |-> sends + 1, code |-> c, checkpoint |-> checkpoint,
                  command |-> command, overlapped |-> pending # {}]}
    /\ ConnectSlot

\* Mutant: the slot stays connected.
StayConnected == UNCHANGED connected
DisconnectSlot == connected' = FALSE

-----------------------------------------------------------------------------
(* onTagFound.                                                             *)

\* Mutant: the fields of the code are counted from another one.
ApplySettingsShifted(c) ==
    /\ checkpointID' = Config[c].clientPassword
    /\ UNCHANGED <<recordDelay, clientPassword>>
ApplySettings(c) ==
    /\ checkpointID' = Config[c].checkpointID
    /\ recordDelay' = Config[c].recordDelay
    /\ clientPassword' = Config[c].clientPassword

\* A code with another password changes nothing and is confirmed all the same.
ConfigureClient(c) ==
    /\ IF clientPassword \in {NoPassword, Config[c].clientPassword}
         THEN ApplySettings(c) ELSE UNCHANGED settings
    /\ photoImage' = [image |-> "configured", request |-> 0]
    /\ SendGet(c, "ping", checkpointID')

NewVisit(c) ==
    /\ SendGet(c, "new visit", checkpointID)
    /\ UNCHANGED <<settings, photoImage>>

\* History: the least delay in force since each code was recognised.
Lower(f, delay) ==
    [c \in DOMAIN f |-> [f[c] EXCEPT !.least = IF delay < @ THEN delay ELSE @]]

Recognise(c) ==
    recognised' =
        Lower([d \in DOMAIN recognised \cup {c} |->
                 IF d = c THEN [time |-> clock, least |-> recordDelay]
                 ELSE recognised[d]],
              recordDelay')

\* A frame taken before the settings were opened may be decoded after it.
ViewerExists == page # "Start Page"

AcceptTag(c) ==
    /\ ViewerExists
    /\ sends < MaxSends
    /\ Accepts(c)
    /\ tagsHistory' = AcceptedEntries(c)
    /\ \/ c \in SettingsCodes /\ ConfigureClient(c)
       \/ c \in MemberCodes /\ NewVisit(c)
    /\ Recognise(c)
    /\ UNCHANGED <<clock, page, pingGoodTimer>>

RefuseTag(c) ==
    /\ ViewerExists
    /\ ~Accepts(c)
    /\ tagsHistory' = Entries(c)
    /\ UNCHANGED <<clock, page, settings, clientVars, screenVars, recognised>>

-----------------------------------------------------------------------------
(* Answers.                                                                *)

\* What the server answers to each command.
Answers(r) ==
    IF r.command = "ping" THEN {"ping", "404"}
    ELSE {"image", "defaultface", "404", "accessdenied", "databaseerror"}

Picture(answer) ==
    CASE answer = "image"         -> "photo"
      [] answer = "defaultface"   -> "default_face"
      [] answer = "404"           -> "nokey"
      [] answer = "accessdenied"  -> "accessdenied"
      [] answer = "databaseerror" -> "crash"
      [] answer = "error"         -> "connecterror"

\* onErrorFounded, onGetServerResponse and onGetImgFromServer: an answer to a
\* ping only starts the timer.
Show(r, answer) ==
    IF answer = "ping"
      THEN pingGoodTimer' = TRUE /\ UNCHANGED photoImage
      ELSE /\ photoImage' = [image |-> Picture(answer), request |-> r.number]
           /\ UNCHANGED pingGoodTimer

\* finished(r): getResponse() runs once, however often it was connected, and
\* not at all when the answer to another request has disconnected it.
Finished(r, answer) ==
    /\ pending' = pending \ {r}
    /\ IF connected
         THEN DisconnectSlot /\ Show(r, answer)
         ELSE UNCHANGED <<connected, screenVars>>
    /\ UNCHANGED <<clock, page, settings, tagsHistory, sends, recognised>>

Answer(r) == r \in pending /\ \E answer \in Answers(r) : Finished(r, answer)

NetworkError(r) == r \in pending /\ Finished(r, "error")

PingGood ==
    /\ pingGoodTimer
    /\ pingGoodTimer' = FALSE
    /\ photoImage' = [image |-> "checked", request |-> 0]
    /\ UNCHANGED <<clock, page, settings, tagsHistory, clientVars, recognised>>

-----------------------------------------------------------------------------
(* Pages.  The viewer stays where it is under the settings page.           *)

OpenSettings ==
    /\ page = "Viewer Page"
    /\ page' = "Client settings"
    /\ UNCHANGED <<clock, settings, tagsHistory, clientVars, screenVars,
                   recognised>>

\* A field is edited; the fields take effect as they are typed.
EditSettings ==
    /\ page = "Client settings"
    /\ \/ /\ checkpointID' \in Checkpoints
          /\ UNCHANGED <<recordDelay, clientPassword>>
       \/ /\ recordDelay' \in Delays
          /\ UNCHANGED <<checkpointID, clientPassword>>
       \/ /\ clientPassword' \in Passwords
          /\ UNCHANGED <<checkpointID, recordDelay>>
    /\ recognised' = Lower(recognised, recordDelay')
    /\ UNCHANGED <<clock, page, tagsHistory, clientVars, screenVars>>

CloseSettings ==
    /\ page = "Client settings"
    /\ page' = "Viewer Page"
    /\ UNCHANGED <<clock, settings, tagsHistory, clientVars, screenVars,
                   recognised>>

\* updateCamera() and changeRole() clear the stack: the viewer and its list
\* are gone.  Its requests are not.
ClearStack ==
    /\ page = "Client settings"
    /\ page' = "Start Page"
    /\ tagsHistory' = NoCodes /\ recognised' = NoCodes
    /\ UNCHANGED <<clock, settings, clientVars, screenVars>>

\* The timer cameraopen, or the choice of the role.
OpenViewer ==
    /\ page = "Start Page"
    /\ page' = "Viewer Page"
    /\ UNCHANGED <<clock, settings, tagsHistory, clientVars, screenVars,
                   recognised>>

\* The application ends and is started again: only the settings were saved,
\* and whether it begins with the viewer.
Restart ==
    /\ page' \in {"Viewer Page", "Start Page"}
    /\ tagsHistory' = NoCodes /\ recognised' = NoCodes
    /\ pending' = {} /\ connected' = FALSE
    /\ pingGoodTimer' = FALSE /\ photoImage' = NoImage
    /\ UNCHANGED <<clock, settings, sends>>

-----------------------------------------------------------------------------
TagFound(c) == AcceptTag(c) \/ RefuseTag(c)

Next ==
    \/ Tick
    \/ \E c \in Codes : TagFound(c)
    \/ \E r \in pending : Answer(r) \/ NetworkError(r)
    \/ PingGood
    \/ OpenSettings \/ EditSettings \/ CloseSettings \/ ClearStack
    \/ OpenViewer \/ Restart

Spec == Init /\ [][Next]_vars

-----------------------------------------------------------------------------
(* Properties.                                                             *)

\* As long as the viewer is not made anew, a code is not sent again before the
\* delay has passed: not before the least delay that was in force since it was
\* sent, although the list is cleaned on the way and the delay may be changed
\* by hand or by a settings code (ViewerPage.qml:97-132).
SentOncePerDelay ==
    [][\A c \in DOMAIN recognised :
          AcceptTag(c) => clock - recognised[c].time > recognised[c].least]_vars

\* A code that is refused was sent by this page within the present delay: being
\* shown again and again does not put the member off (ViewerPage.qml:108-115).
RefusedWithinDelay ==
    [][\A c \in Codes :
          RefuseTag(c) => /\ c \in DOMAIN recognised
                          /\ clock - recognised[c].time <= recordDelay]_vars

\* The slot is never left connected with nothing to come: while it is, the
\* request that was sent last has not been answered (myclient.cpp:30, 47).
ListensForLatest ==
    connected => \E r \in pending : r.number = sends

\* A member whose request had the line for itself sees the answer to it, or the
\* error, whatever happened to earlier requests and whichever page is open.
Answered(r) == Answer(r) \/ NetworkError(r)

LoneAnswerShown ==
    [][\A r \in pending :
          Answered(r) /\ r.command = "new visit" /\ ~r.overlapped
          => photoImage'.request = r.number]_vars

\* Every member who was sent to the server sees the answer
\* (AppInstructor.qml:103).
EveryAnswerShown ==
    [][\A r \in pending :
          Answered(r) /\ r.command = "new visit"
          => photoImage'.request = r.number]_vars
=============================================================================
