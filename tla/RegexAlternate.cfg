SPECIFICATION RegexSpec
CONSTANTS
    Patterns <- MCPatterns
    Subjects <- MCSubjects
INVARIANTS
    AlternatesMatch
