CONSTANTS
  Connections = {"c1", "c2"}
  Pages = {"/led_push_on.json", "/led_push_off.json", "/submit.json", "/index.html", "/none.html"}
  MaxHangups = 1
SPECIFICATION Spec
INVARIANTS LedAsTold
CHECK_DEADLOCK FALSE
