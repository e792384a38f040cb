SPECIFICATION FairSpec
CONSTANTS
    Platform = "windows"
    Client = {c1, c2}
    Network = Network
    Domains = Domains
    Nobody = Nobody
    MaxUps = 2
    MaxRestarts = 1
PROPERTIES
    DownServed
    WatcherFollows
