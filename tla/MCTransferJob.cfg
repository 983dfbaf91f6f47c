CONSTANTS
    Background = {b1}
    Foreground = {f1, f2}
    Puts = {f1, f2}
    Directories = {f1}
    Streamed = {b1, f1}
    DestOf <- OneDestination
    JobOf <- OneJob
    Checks = {c1}
SPECIFICATION FairSpec
INVARIANTS
    OneWriter
    ToldJobsPollable
PROPERTIES
    ImplementsAtMostOnce
    TransfersSettle
