SPECIFICATION Spec
CONSTANTS
    MagicLen = 2
    ExtraLen = 1
    NumLen = 1
    WordLen = 1
    KeyLen = 2
    SigLen = 2
    Mod = 32
    Checked = FALSE
    Sample <- Samples
    MaxSent = 3
INVARIANTS TypeOK DecodesWhatWasSent FailsOnlyOnTornFrames OnlyAnnouncementsPanic NothingStaysBehind
CHECK_DEADLOCK FALSE
