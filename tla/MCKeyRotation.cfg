SPECIFICATION Spec
CONSTANTS
  Channels = {c1, c2}
  Phrases = {p1}
  FernetStrings = {f1}
  MaxGenerated = 3
  NoSecret = NoSecret
  NoFile = NoFile
  Partial = Partial
  NoKey = NoKey
  Absent = Absent
  Plain = Plain
SYMMETRY Symmetry
INVARIANTS TypeOK RestartWorks
  
