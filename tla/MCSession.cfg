SPECIFICATION FairSessionSpec
CONSTANTS
  Nil = Nil
  w1 = w1  w2 = w2  w3 = w3
  Msgs = {1, 2, 3}
  UserOf <- Senders
  Workers = {w1, w2}
  Tries = 2
  MaxAttempts = 2
  MaxFaults = 1
INVARIANTS MessagesAreCarriedOnce OwnTextOnly TurnsAreSerial
PROPERTY EverybodyIsHeard
CHECK_DEADLOCK FALSE
