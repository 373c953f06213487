SPECIFICATION FairSpec
CONSTANTS
    Flows = {"store", "token", "password"}
    Builder <- MCBuilder
    Casts <- MCCasts
    Secrets = {"good", "bad", "none"}
    Guards <- MCGuards
    Slack = 1
    Life = 3
    Budget = 4
    MaxInterval = 3
    DefaultInterval = 2
    MaxRotations = 2
INVARIANTS
    BadEntryIsNotFatal
    PollsCurrentSession
    PollIsHopeful
PROPERTIES SignInEnds
