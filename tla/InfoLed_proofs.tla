--------------------------- MODULE InfoLed_proofs ---------------------------
(***************************************************************************)
(* The LED service for any set of requests, any volumes and any number of  *)
(* requests.                                                               *)
(***************************************************************************)
EXTENDS InfoLed, TLAPS

(***************************************************************************)
(* The states a mode asks for, computed from the table of modes.           *)
(***************************************************************************)
LEMMA ModeTable ==
    /\ Modes = {"MODE_BOOTED", "MODE_NETWORK_STARTED", "MODE_JAVACLIENT_STARTED",
                "MODE_SENSORY_STARTED", "MODE_SYSTEM_OK", "MODE_START", "MODE_OFF",
                "MODE_VP", "MODE_VP_WAKEUP", "MODE_WIFI_CONNECT", "MODE_BLUETOOTH",
                "MODE_NORMAL", "MODE_VOLUME", "MODE_WIFI_ERR", "MODE_MIC_MUTE"}
    /\ \A mode \in Modes : ModeState[mode] \in States \ {"IDLE"}
    /\ States = {"LED_SCROLLING", "SYSTEM_OK", "SYSTEM_START", "OFF", "VP_PROCESS",
                 "VP_WAKEUP", "WIFI_MODE", "BT_MODE", "NORMAL_MODE", "ADJUST_VOLUME",
                 "WIFI_ERR", "MIC_MUTE", "IDLE"}
BY DEF Modes, ModeState, States

LEMMA PatternType ==
    /\ \A s \in States \ {"IDLE", "ADJUST_VOLUME", "NORMAL_MODE", "SYSTEM_START"} :
           [shows |-> s] \in Pattern
    /\ \A v \in Volumes \union {0} : [shows |-> "ADJUST_VOLUME", volume |-> v] \in Pattern
BY ModeTable DEF Pattern, Dark

LEMMA InitIInv == Init => IInv
<1> SUFFICES ASSUME Init PROVE IInv
  OBVIOUS
<1>1. "OFF" \in States /\ [shows |-> "OFF"] \in Pattern
  BY ModeTable, PatternType
<1>2. TypeOK
  <2>1. led \in Pattern /\ m_currentState \in States /\ m_oldState \in States
    BY <1>1 DEF Init
  <2>2. m_ledState \in Lasting /\ m_scrollLedNum \in {0, 3, 4, 6, 8}
    BY DEF Init, Lasting
  <2>3. 0 \in 0 .. Timeout /\ 0 \in 0 .. MaxRequests
    BY InfoLedConstants DEF Timeout
  <2>4. QED
    BY <2>1, <2>2, <2>3, Zenon DEF Init, TypeOK
<1>3. LedAgreesWithTimers /\ ScrollHasLeds
  BY DEF Init, LedAgreesWithTimers, ScrollHasLeds
<1>4. QED
  BY <1>2, <1>3 DEF IInv

(***************************************************************************)
(* A request changes the slot, never the LEDs or the timers.               *)
(***************************************************************************)
LEMMA RequestIInv ==
    ASSUME IInv, NEW mode \in Requests, NEW val \in Volumes, led_open(mode, val)
    PROVE  IInv'
<1> USE DEF IInv, led_open, notify_one, flags, clocks
<1>1. mode \in Modes /\ ModeState[mode] \in States \ {"IDLE"}
  BY ModeTable, InfoLedConstants
<1>2. TypeOK'
  BY <1>1, InfoLedConstants DEF TypeOK, ScrollNum
<1>3. LedAgreesWithTimers'
  BY <1>1 DEF LedAgreesWithTimers
<1>4. ScrollHasLeds'
  BY <1>1, ModeTable DEF ScrollHasLeds, ModeState, ScrollNum
<1>5. QED
  BY <1>2, <1>3, <1>4

(***************************************************************************)
(* One pass of the main loop shows a state and starts or stops the timers. *)
(***************************************************************************)
LEMMA HandleIInv == ASSUME IInv, HandleState PROVE IInv'
<1> DEFINE interrupted == m_isVolAdjust /\ m_currentState \notin {"ADJUST_VOLUME", "IDLE", "OFF"}
           adjusting == m_isVolAdjust /\ ~interrupted
<1> USE DEF IInv
<1>1. Effective = m_currentState
  BY DEF Effective, ScrollHasLeds
<1>2. m_currentState \in States /\ adjusting \in BOOLEAN /\ interrupted \in BOOLEAN
  BY DEF TypeOK
<1>3. /\ m_isVolAdjust' = (adjusting \/ m_currentState = "ADJUST_VOLUME")
      /\ m_needSaveVol' = (m_needSaveVol \/ interrupted)
      /\ m_isWifiError' = IF m_currentState \in {"WIFI_ERR", "IDLE"}
                          THEN m_isWifiError \/ m_currentState = "WIFI_ERR" ELSE FALSE
      /\ m_oldState' = m_currentState
      /\ m_currentState' = IF m_currentState = "OFF" /\ adjusting THEN m_currentState ELSE "IDLE"
      /\ m_ledState' = IF m_currentState \in Lasting THEN m_currentState ELSE m_ledState
      /\ led' = ShowFor(m_currentState, adjusting)
      /\ volAge' = IF m_currentState = "ADJUST_VOLUME" THEN 0 ELSE volAge
      /\ wifiAge' = IF m_currentState = "WIFI_ERR" THEN 0 ELSE wifiAge
      /\ pc' = "check"
      /\ UNCHANGED <<m_scrollLedNum, m_currentVolume, saved, requests>>
  BY <1>1 DEF HandleState
<1>4. led' = IF m_currentState = "IDLE" \/ (m_currentState = "OFF" /\ adjusting) THEN led
             ELSE IF m_currentState = "ADJUST_VOLUME"
                  THEN [shows |-> "ADJUST_VOLUME", volume |-> m_currentVolume]
             ELSE IF m_currentState \in Dark THEN [shows |-> "OFF"]
             ELSE [shows |-> m_currentState]
  BY <1>3 DEF ShowFor, Dark
<1>5. led' \in Pattern
  <2>1. "OFF" \in States \ {"IDLE", "ADJUST_VOLUME", "NORMAL_MODE", "SYSTEM_START"}
    BY ModeTable
  <2>2. m_currentVolume \in Volumes \union {0} /\ led \in Pattern
    BY DEF TypeOK
  <2>3. QED
    BY <1>2, <1>4, <2>1, <2>2, PatternType DEF Dark
<1>6. TypeOK'
  <2>1. /\ m_isVolAdjust' \in BOOLEAN /\ m_needSaveVol' \in BOOLEAN
        /\ m_isWifiError' \in BOOLEAN
    BY <1>2, <1>3 DEF TypeOK
  <2>2. m_currentState' \in States /\ m_oldState' \in States /\ m_ledState' \in Lasting
    BY <1>2, <1>3, ModeTable DEF TypeOK
  <2>3. volAge' \in 0 .. Timeout /\ wifiAge' \in 0 .. Timeout
    BY <1>3 DEF TypeOK, Timeout
  <2>4. m_scrollLedNum' \in {0, 3, 4, 6, 8} /\ requests' \in 0 .. MaxRequests
    BY <1>3 DEF TypeOK
  <2>5. /\ m_currentVolume' \in Volumes \union {0} /\ saved' \in Volumes \union {0}
        /\ pc' \in {"check", "block", "waiting", "lock"}
    BY <1>3 DEF TypeOK
  <2>6. QED
    BY <1>5, <2>1, <2>2, <2>3, <2>4, <2>5, Zenon DEF TypeOK
<1>7. LedAgreesWithTimers'
  <2>1. CASE m_currentState = "IDLE" \/ (m_currentState = "OFF" /\ adjusting)
    <3>1. led' = led /\ m_isVolAdjust' = adjusting
      BY <1>3, <1>4, <2>1
    <3>2. CASE m_currentState = "IDLE"
      <4>1. m_isVolAdjust' = m_isVolAdjust /\ m_isWifiError' = m_isWifiError
        BY <1>3, <3>2 DEF TypeOK
      <4>2. QED
        BY <3>1, <3>2, <4>1 DEF LedAgreesWithTimers
    <3>3. CASE m_currentState = "OFF" /\ adjusting
      <4>1. m_isVolAdjust' /\ ~m_isWifiError' /\ led.shows = "ADJUST_VOLUME"
        BY <1>3, <3>3 DEF TypeOK, LedAgreesWithTimers
      <4>2. QED
        BY <3>1, <4>1 DEF LedAgreesWithTimers
    <3>4. QED
      BY <2>1, <3>2, <3>3
  <2>2. CASE m_currentState = "ADJUST_VOLUME"
    <3>1. led'.shows = "ADJUST_VOLUME"
      BY <1>4, <2>2
    <3>2. m_isVolAdjust' = TRUE /\ m_isWifiError' = FALSE
      BY <1>3, <2>2
    <3>3. QED
      BY <3>1, <3>2 DEF LedAgreesWithTimers
  <2>3. CASE /\ m_currentState \notin {"IDLE", "ADJUST_VOLUME"}
             /\ ~(m_currentState = "OFF" /\ adjusting)
    <3>1. m_isVolAdjust' = FALSE
      BY <1>3, <2>3
    <3>2. led'.shows = IF m_currentState \in Dark THEN "OFF" ELSE m_currentState
      BY <1>4, <2>3
    <3>3. m_isWifiError' = (m_currentState = "WIFI_ERR")
      BY <1>3, <2>3 DEF TypeOK
    <3>4. QED
      BY <2>3, <3>1, <3>2, <3>3 DEF LedAgreesWithTimers, Dark
  <2>4. QED
    BY <2>1, <2>2, <2>3
<1>8. ScrollHasLeds'
  BY <1>3 DEF ScrollHasLeds
<1>9. QED
  BY <1>6, <1>7, <1>8

(***************************************************************************)
(* The poller stops the volume timer only with a replacement in the slot.  *)
(***************************************************************************)
LEMMA PollIInv == ASSUME IInv, Poll PROVE IInv'
<1> USE DEF IInv, Poll, notify_one, clocks
<1>1. Lasting \subseteq States /\ "OFF" \in States
  BY ModeTable DEF Lasting
<1>2. TypeOK'
  BY <1>1 DEF TypeOK
<1>3. LedAgreesWithTimers'
  BY DEF TypeOK, LedAgreesWithTimers, Lasting
<1>4. ScrollHasLeds'
  BY DEF TypeOK, ScrollHasLeds, Lasting
<1>5. QED
  BY <1>2, <1>3, <1>4

LEMMA SpecIInv == Spec => []IInv
<1>1. ASSUME IInv, CheckState \/ Block \/ SpuriousWakeup \/ Tick \/ UNCHANGED vars
      PROVE  IInv'
  BY <1>1 DEF CheckState, Block, SpuriousWakeup, Tick, vars, flags, clocks, IInv, TypeOK,
              LedAgreesWithTimers, ScrollHasLeds, Timeout
<1>2. IInv /\ [Next]_vars => IInv'
  BY <1>1, RequestIInv, HandleIInv, PollIInv DEF Next, Client, MainLoop
<1>3. QED
  BY InitIInv, <1>2, PTL DEF Spec
-----------------------------------------------------------------------------
(***************************************************************************)
(* Every variable of the service keeps its type.                           *)
(***************************************************************************)
THEOREM TypeCorrect == Spec => []TypeOK
<1>1. IInv => TypeOK
  BY DEF IInv
<1>2. QED
  BY <1>1, SpecIInv, PTL

(***************************************************************************)
(* The LEDs and the two timers agree in every interleaving of requests,    *)
(* main loop and poller.                                                   *)
(***************************************************************************)
THEOREM DisplayCorrect == Spec => []LedAgreesWithTimers
<1>1. IInv => LedAgreesWithTimers
  BY DEF IInv
<1>2. QED
  BY <1>1, SpecIInv, PTL
=============================================================================
