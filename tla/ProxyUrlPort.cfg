SPECIFICATION UrlSpec
CONSTANTS
    Written <- MCWritten
    PortNo <- MCPortNo
INVARIANTS PortAlwaysKept
