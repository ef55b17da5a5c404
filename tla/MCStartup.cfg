CONSTANTS
  Wakers = {"link_state", "uart_sensors", "data_collector", "reed_switch_task", "wifi_task"}
SPECIFICATION LedsFairSpec
INVARIANTS
  HandlesReady
  OneLit
  LedTellsMode
PROPERTY StartupCompletes
