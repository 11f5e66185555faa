SPECIFICATION IdentitySpec
CONSTANTS
    Tabs = {"t1", "t2"}
    Calls = {"c1", "c2", "c3"}
    TabOf <- c_TabOf
    Riders = {"g"}
    Consumer = "k"
    Adders = {"a1", "a2"}
    Casts <- c_Casts
    Keys = {1, 2}
    MaxSessions = 1
    Toks = {1, 2, 3, 4, 5, 6, 7, 8}
    Limit <- c_Limit
    AddrIds = {1, 2, 3}
    MaxAddresses = 1
PROPERTIES KeptSignedIn GrantConverges
