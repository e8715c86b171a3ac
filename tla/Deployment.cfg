SPECIFICATION FairSpec
CONSTANTS
    Services = {stt, llm}
    Warmed = {stt}
    Threaded = {stt}
    Faulty = {stt}
INVARIANTS TypeOK ExitIsClean
PROPERTIES HealthIsTruthful HealthReturns StopsWhole
