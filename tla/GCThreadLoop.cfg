CONSTANTS
    Thread = {t1, t2}
    GC = GC
    Main = Main
    Depth = 2
    WriterPreference = TRUE
SPECIFICATION FairLoopSpec
INVARIANTS CountsSections WorldStopped
PROPERTIES TriggerServed DestructionEnds StopSucceeds StopEnds Enters
CHECK_DEADLOCK FALSE
