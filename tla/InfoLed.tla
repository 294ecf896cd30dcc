------------------------------- MODULE InfoLed -------------------------------
(***************************************************************************)
(* package/rockchip/led_control_app: the LED service.                      *)
(*                                                                         *)
(* Clients call led_open, which puts the requested state in the one slot   *)
(* m_currentState and notifies the main loop; the main loop waits for      *)
(* m_currentState # m_oldState and shows the state; a poller thread ends   *)
(* the volume and the wifi-error displays after five seconds and saves the *)
(* volume.                                                                 *)
(*                                                                         *)
(* Every critical section of led_mutex is one step.  The main loop         *)
(* evaluates its predicate and blocks in two steps: m_mtx, which wait()    *)
(* releases, is not the mutex the notifiers hold, so they may come between *)
(* the two.                                                                *)
(***************************************************************************)
EXTENDS Integers

CONSTANTS
    Requests,           \* the modes clients ask for
    Volumes,            \* the volumes they set
    MaxRequests,        \* bound: how many requests there are
    DeviceInfoExists    \* /data/cfg/device_info.txt can be opened for writing

Timeout == 5    \* seconds, both timers

\* The state led_open asks for in each mode.
ModeState ==
    [MODE_BOOTED |-> "LED_SCROLLING", MODE_NETWORK_STARTED |-> "LED_SCROLLING",
     MODE_JAVACLIENT_STARTED |-> "LED_SCROLLING", MODE_SENSORY_STARTED |-> "LED_SCROLLING",
     MODE_SYSTEM_OK |-> "SYSTEM_OK", MODE_START |-> "SYSTEM_START", MODE_OFF |-> "OFF",
     MODE_VP |-> "VP_PROCESS", MODE_VP_WAKEUP |-> "VP_WAKEUP",
     MODE_WIFI_CONNECT |-> "WIFI_MODE", MODE_BLUETOOTH |-> "BT_MODE",
     MODE_NORMAL |-> "NORMAL_MODE", MODE_VOLUME |-> "ADJUST_VOLUME",
     MODE_WIFI_ERR |-> "WIFI_ERR", MODE_MIC_MUTE |-> "MIC_MUTE"]

\* The modes that set m_scrollLedNum.
ScrollNum == [MODE_BOOTED |-> 3, MODE_NETWORK_STARTED |-> 8, MODE_JAVACLIENT_STARTED |-> 4,
              MODE_SENSORY_STARTED |-> 6, MODE_SYSTEM_OK |-> 0]

Modes == DOMAIN ModeState
States == {ModeState[m] : m \in Modes} \union {"IDLE"}

\* The states the main loop returns to when the volume display ends.
Lasting == {"WIFI_MODE", "BT_MODE", "NORMAL_MODE", "MIC_MUTE"}

\* The states that are shown as all LEDs off.
Dark == {"OFF", "NORMAL_MODE", "SYSTEM_START"}

ASSUME InfoLedConstants ==
    /\ Requests \subseteq Modes
    /\ Volumes \subseteq Nat
    /\ MaxRequests \in Nat
    /\ DeviceInfoExists \in BOOLEAN

VARIABLES
    m_currentState, m_oldState, m_ledState, m_scrollLedNum,
    m_currentVolume, m_isVolAdjust, m_isWifiError, m_needSaveVol,
    volAge, wifiAge,    \* seconds since m_tvVolAdjust and m_tvWifiError, up to Timeout
    pc,                 \* the main loop: "check", "block", "waiting", "lock"
    led,                \* what the LEDs show: a state, or a volume
    saved,              \* the volume in device_info.txt
    requests            \* requests made so far

flags == <<m_isVolAdjust, m_isWifiError, m_needSaveVol>>
clocks == <<volAge, wifiAge>>
vars == <<m_currentState, m_oldState, m_ledState, m_scrollLedNum, m_currentVolume,
          flags, clocks, pc, led, saved, requests>>

Pattern == [shows : (States \ {"IDLE", "ADJUST_VOLUME"}) \ (Dark \ {"OFF"})]
               \union [shows : {"ADJUST_VOLUME"}, volume : Volumes \union {0}]

TypeOK ==
    /\ m_currentState \in States /\ m_oldState \in States
    /\ m_ledState \in Lasting
    /\ m_scrollLedNum \in {0, 3, 4, 6, 8}
    /\ m_currentVolume \in Volumes \union {0}
    /\ m_isVolAdjust \in BOOLEAN /\ m_isWifiError \in BOOLEAN /\ m_needSaveVol \in BOOLEAN
    /\ volAge \in 0 .. Timeout /\ wifiAge \in 0 .. Timeout
    /\ pc \in {"check", "block", "waiting", "lock"}
    /\ led \in Pattern
    /\ saved \in Volumes \union {0}
    /\ requests \in 0 .. MaxRequests

\* The main loop has found the device (leds_multi_init) and enters its loop;
\* before that led_open returns at once.
Init ==
    /\ m_currentState = "OFF" /\ m_oldState = "OFF"
    /\ m_ledState = "NORMAL_MODE"
    /\ m_scrollLedNum = 3
    /\ m_currentVolume = 0
    /\ m_isVolAdjust = FALSE /\ m_isWifiError = FALSE /\ m_needSaveVol = FALSE
    /\ volAge = 0 /\ wifiAge = 0
    /\ pc = "check"
    /\ led = [shows |-> "OFF"]
    /\ saved = 0
    /\ requests = 0
-----------------------------------------------------------------------------
\* mStateChange.notify_one(): wakes the main loop only if it is blocked.
notify_one == pc' = IF pc = "waiting" THEN "check" ELSE pc

\* A client calls led_open(mode, val).
led_open(mode, val) ==
    /\ requests < MaxRequests
    /\ requests' = requests + 1
    /\ m_scrollLedNum' = IF mode \in DOMAIN ScrollNum THEN ScrollNum[mode] ELSE m_scrollLedNum
    /\ m_currentVolume' = IF mode = "MODE_VOLUME" THEN val ELSE m_currentVolume
    /\ m_currentState' = ModeState[mode]
    /\ notify_one
    /\ UNCHANGED <<m_oldState, m_ledState, flags, clocks, led, saved>>

\* The wait's predicate, evaluated with m_mtx held.
CheckState ==
    /\ pc = "check"
    /\ pc' = IF m_currentState # m_oldState THEN "lock" ELSE "block"
    /\ UNCHANGED <<m_currentState, m_oldState, m_ledState, m_scrollLedNum, m_currentVolume,
                   flags, clocks, led, saved, requests>>

\* The wait releases m_mtx and blocks; from here on a notification is seen.
Block ==
    /\ pc = "block"
    /\ pc' = "waiting"
    /\ UNCHANGED <<m_currentState, m_oldState, m_ledState, m_scrollLedNum, m_currentVolume,
                   flags, clocks, led, saved, requests>>

\* A condition variable may wake with no notification.
SpuriousWakeup ==
    /\ pc = "waiting"
    /\ pc' = "check"
    /\ UNCHANGED <<m_currentState, m_oldState, m_ledState, m_scrollLedNum, m_currentVolume,
                   flags, clocks, led, saved, requests>>

\* The state the loop body works on: no scrolling once m_scrollLedNum is 0.
Effective == IF m_scrollLedNum = 0 /\ m_currentState = "LED_SCROLLING"
             THEN "IDLE" ELSE m_currentState

\* What the loop body shows for state s; IDLE, and OFF during the volume
\* display, leave the LEDs alone.
ShowFor(s, adjusting) ==
    CASE s = "IDLE" \/ (s = "OFF" /\ adjusting) -> led
      [] s = "ADJUST_VOLUME" -> [shows |-> s, volume |-> m_currentVolume]
      [] s \in Dark /\ ~(s = "OFF" /\ adjusting) -> [shows |-> "OFF"]
      [] OTHER -> [shows |-> s]

\* Mutant: a volume display that is interrupted does not ask for a save.
HandleStateNoSave ==
    /\ pc = "lock"
    /\ LET interrupted == m_isVolAdjust /\ m_currentState \notin {"ADJUST_VOLUME", "IDLE", "OFF"}
           adjusting == m_isVolAdjust /\ ~interrupted
           s == Effective
       IN  /\ m_isVolAdjust' = (adjusting \/ s = "ADJUST_VOLUME")
           /\ m_isWifiError' = IF m_currentState \in {"WIFI_ERR", "IDLE"}
                               THEN m_isWifiError \/ s = "WIFI_ERR" ELSE FALSE
           /\ m_oldState' = s
           /\ m_currentState' = IF s = "OFF" /\ adjusting THEN s ELSE "IDLE"
           /\ m_ledState' = IF s \in Lasting THEN s ELSE m_ledState
           /\ led' = ShowFor(s, adjusting)
           /\ volAge' = IF s = "ADJUST_VOLUME" THEN 0 ELSE volAge
           /\ wifiAge' = IF s = "WIFI_ERR" THEN 0 ELSE wifiAge
    /\ pc' = "check"
    /\ UNCHANGED <<m_scrollLedNum, m_currentVolume, m_needSaveVol, saved, requests>>

\* Mutant: volume does not end the wifi-error display.
HandleStateKeepWifi ==
    /\ pc = "lock"
    /\ LET interrupted == m_isVolAdjust /\ m_currentState \notin {"ADJUST_VOLUME", "IDLE", "OFF"}
           adjusting == m_isVolAdjust /\ ~interrupted
           s == Effective
       IN  /\ m_isVolAdjust' = (adjusting \/ s = "ADJUST_VOLUME")
           /\ m_needSaveVol' = (m_needSaveVol \/ interrupted)
           /\ m_isWifiError' = IF m_currentState \in {"WIFI_ERR", "IDLE", "ADJUST_VOLUME"}
                               THEN m_isWifiError \/ s = "WIFI_ERR" ELSE FALSE
           /\ m_oldState' = s
           /\ m_currentState' = IF s = "OFF" /\ adjusting THEN s ELSE "IDLE"
           /\ m_ledState' = IF s \in Lasting THEN s ELSE m_ledState
           /\ led' = ShowFor(s, adjusting)
           /\ volAge' = IF s = "ADJUST_VOLUME" THEN 0 ELSE volAge
           /\ wifiAge' = IF s = "WIFI_ERR" THEN 0 ELSE wifiAge
    /\ pc' = "check"
    /\ UNCHANGED <<m_scrollLedNum, m_currentVolume, saved, requests>>

\* One pass of the loop body, under led_mutex.
HandleState ==
    /\ pc = "lock"
    /\ LET interrupted == m_isVolAdjust /\ m_currentState \notin {"ADJUST_VOLUME", "IDLE", "OFF"}
           adjusting == m_isVolAdjust /\ ~interrupted
           s == Effective
       IN  /\ m_isVolAdjust' = (adjusting \/ s = "ADJUST_VOLUME")
           /\ m_needSaveVol' = (m_needSaveVol \/ interrupted)
           /\ m_isWifiError' = IF m_currentState \in {"WIFI_ERR", "IDLE"}
                               THEN m_isWifiError \/ s = "WIFI_ERR" ELSE FALSE
           /\ m_oldState' = s
           /\ m_currentState' = IF s = "OFF" /\ adjusting THEN s ELSE "IDLE"
           /\ m_ledState' = IF s \in Lasting THEN s ELSE m_ledState
           /\ led' = ShowFor(s, adjusting)
           /\ volAge' = IF s = "ADJUST_VOLUME" THEN 0 ELSE volAge
           /\ wifiAge' = IF s = "WIFI_ERR" THEN 0 ELSE wifiAge
    /\ pc' = "check"
    /\ UNCHANGED <<m_scrollLedNum, m_currentVolume, saved, requests>>

\* Mutant: the poller itself ends the wifi error, and so asks for OFF once.
PollWifiOnce ==
    LET volDue == m_isVolAdjust /\ volAge >= Timeout
        wifiDue == m_isWifiError /\ wifiAge >= Timeout
    IN  /\ m_currentState' = IF wifiDue THEN "OFF"
                             ELSE IF volDue THEN m_ledState ELSE m_currentState
        /\ IF volDue \/ wifiDue THEN notify_one ELSE UNCHANGED pc
        /\ saved' = IF (volDue \/ m_needSaveVol) /\ DeviceInfoExists
                    THEN m_currentVolume ELSE saved
        /\ m_isVolAdjust' = (m_isVolAdjust /\ ~volDue)
        /\ m_isWifiError' = (m_isWifiError /\ ~wifiDue)
        /\ m_needSaveVol' = FALSE
        /\ UNCHANGED <<m_oldState, m_ledState, m_scrollLedNum, m_currentVolume,
                       clocks, led, requests>>

\* One pass of the poller, under led_mutex: the volume display that is over is
\* replaced by the lasting state and the volume saved; an interrupted one is
\* saved; the wifi error that is over is switched off.
Poll ==
    LET volDue == m_isVolAdjust /\ volAge >= Timeout
        wifiDue == m_isWifiError /\ wifiAge >= Timeout
    IN  /\ m_currentState' = IF wifiDue THEN "OFF"
                             ELSE IF volDue THEN m_ledState ELSE m_currentState
        /\ IF volDue \/ wifiDue THEN notify_one ELSE UNCHANGED pc
        /\ saved' = IF (volDue \/ m_needSaveVol) /\ DeviceInfoExists
                    THEN m_currentVolume ELSE saved
        /\ m_isVolAdjust' = (m_isVolAdjust /\ ~volDue)
        /\ m_needSaveVol' = FALSE
        /\ UNCHANGED <<m_oldState, m_ledState, m_scrollLedNum, m_currentVolume,
                       m_isWifiError, clocks, led, requests>>

\* A second passes.
Tick ==
    /\ volAge' = IF volAge < Timeout THEN volAge + 1 ELSE volAge
    /\ wifiAge' = IF wifiAge < Timeout THEN wifiAge + 1 ELSE wifiAge
    /\ UNCHANGED <<m_currentState, m_oldState, m_ledState, m_scrollLedNum, m_currentVolume,
                   flags, pc, led, saved, requests>>

Client == \E mode \in Requests, val \in Volumes : led_open(mode, val)
MainLoop == CheckState \/ Block \/ HandleState

Next == Client \/ MainLoop \/ SpuriousWakeup \/ Poll \/ Tick

\* Both threads are scheduled and time passes; clients and spurious wakeups are
\* under no obligation.
Fairness == WF_vars(MainLoop) /\ WF_vars(Poll) /\ WF_vars(Tick)

Spec == Init /\ [][Next]_vars /\ Fairness
-----------------------------------------------------------------------------
\* The LEDs show a volume exactly as long as its timer runs or its replacement
\* is pending, and the wifi error exactly as long as its timer runs; so at most
\* one of the two timers runs, whatever requests overwrite each other.
LedAgreesWithTimers ==
    /\ m_isVolAdjust => led.shows = "ADJUST_VOLUME"
    /\ led.shows = "ADJUST_VOLUME" => m_isVolAdjust \/ m_currentState # "IDLE"
    /\ m_isWifiError <=> led.shows = "WIFI_ERR"

\* What makes it inductive: every request to scroll brings a number of LEDs, so
\* the loop's guard against scrolling with none never meets such a request.
ScrollHasLeds == m_currentState = "LED_SCROLLING" => m_scrollLedNum # 0

IInv == TypeOK /\ LedAgreesWithTimers /\ ScrollHasLeds

\* The volume of an adjustment under way is saved to the device's settings,
\* whether its display runs out or another request interrupts it, unless a
\* newer volume is set.
VolumeIsSaved ==
    \A v \in Volumes :
        (m_isVolAdjust \/ m_needSaveVol) /\ m_currentVolume = v
            ~> saved = v \/ m_currentVolume # v

\* The wifi-error display comes to an end even if a notification is lost: the
\* poller asks for OFF until the main loop has handled it.
WifiErrorEnds == led.shows = "WIFI_ERR" ~> led.shows # "WIFI_ERR"
=============================================================================
