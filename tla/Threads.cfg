CONSTANTS
  Senders = {s1, s2}
  Receivers = {r1, r2}
  Events = {e1, e2}
  NoEvent = NoEvent
  MaxPosts = 3
  TimerThreads = {t1, t2, t3}
  MaxSpurious = 1
  Connections = {c1, c2}
  Pages = {"/led_push_on.json", "/led_push_off.json", "/submit.json", "/index.html", "/none.html"}
  MaxHangups = 1
SPECIFICATION MCSpec
PROPERTIES ImplementsQueue ImplementsFairQueue TimerObeys ConnectionsEnd
INVARIANTS WakeupPerEvent NoLostWakeup
CHECK_DEADLOCK FALSE
