CONSTANTS
    Background = {b1}
    Foreground = {f1}
    Puts = {}
    Directories = {}
    Streamed = {f1}
    DestOf <- OneDestination
    JobOf <- OneJob
    Checks = {}
SPECIFICATION Spec
INVARIANTS
    NoPartialPublish
