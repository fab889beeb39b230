\* The shell exits while its client stays connected.
CONSTANTS
    s1 = s1
    Sessions <- OneSession
SPECIFICATION SessionSpec
PROPERTIES
    EndsWithEitherSide
