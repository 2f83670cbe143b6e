CONSTANTS
  Timers = {tm0, tm1}
  Channels = {dma1}
  Schedulers = {s1, s2, s3, s4}
SPECIFICATION SSpec
INVARIANT EventsReachTheLoop
