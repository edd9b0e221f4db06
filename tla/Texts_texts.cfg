SPECIFICATION Spec
CONSTANTS
    None = None
    PatternChars = {"a", "?", "*", "[", "]", "!", "/", "backslash"}
    CommBytes = {97, 120, 53, 99, 92, 46, 195, 7}
    Fields = {"COREDUMP_EXE=", "COREDUMP_CMDLINE="}
    MaxText = 5
INVARIANTS LengthIsShortest CommRestored EntryReadRight
