SPECIFICATION CookieSpec
CONSTANTS
  NONE = NONE
  Sources = {"home", "away"}
  COOKIE_REFRESH_TIME = 2
  UNDER_LOAD_TIME = 1
  REKEY_TIMEOUT = 1
  MaxInFlight = 2
  MaxFaults = 2
PROPERTIES AddressProved AdmittedAgain
