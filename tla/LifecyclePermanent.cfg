\* A banned bot and what the documentation says of permanent rejections.
CONSTANTS
  Bots = {m1}
  Timers = {t1, t2}
  Calls = {a1, a2}
  Options = {auto}
  AutoReconnect = {auto}
  Microsoft = {}
  KickReasons = {"BANNED"}
  ErrorReasons = {}
  MaxAttempt = 1
  None = None
SPECIFICATION Spec
PROPERTY PermanentStopsReconnect
