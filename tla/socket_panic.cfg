\* A ping while the status is being written.
SPECIFICATION SocketSpec
CONSTANT MaxFrames = 2
CHECK_DEADLOCK FALSE
INVARIANT NeverCrashes
