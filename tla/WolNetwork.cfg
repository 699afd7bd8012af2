SPECIFICATION Spec
CONSTANTS
    eth = eth
    wifi = wifi
    Unset = Unset
    AddressBits = 4
    BlockSize <- FourBits
    Interfaces <- TwoInterfaces
    Tables <- SomeTables
    Configs <- SomeConfigs
INVARIANTS
    OnlyTheNetworkMeant
    RefusedForAReason
    BroadcastReaches
CHECK_DEADLOCK FALSE
