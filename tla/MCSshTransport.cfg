CONSTANTS
    Relays = {r1, r2}
    MaxStarts = 3
    Senders = {s1}
    Modulus = 6
    MaxSends = 1
    MaxTalk = 2
    MaxConns = 2
SPECIFICATION FairSpec
INVARIANTS NothingGarbled OneHostKey
PROPERTY HandshakeDecided
CHECK_DEADLOCK FALSE
