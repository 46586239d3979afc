SPECIFICATION FairSpec
CONSTANTS
    SlowReload = 20
    Presets <- DividingPresets
    presetDivM1 <- DividingReloads
INVARIANTS
    PauseStops
PROPERTIES
    NoRuntPulse
    KeepsRunning
