\* Three requests of every kind of mode.
SPECIFICATION Spec
CONSTANTS
    Requests = {"MODE_VOLUME", "MODE_WIFI_ERR", "MODE_OFF", "MODE_BLUETOOTH", "MODE_VP", "MODE_SYSTEM_OK", "MODE_BOOTED"}
    Volumes = {1, 2}
    MaxRequests = 3
    DeviceInfoExists = TRUE
INVARIANTS LedAgreesWithTimers
PROPERTIES VolumeIsSaved WifiErrorEnds
