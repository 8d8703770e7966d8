CONSTANTS
  cx = cx
  cdollar = cdollar
  cquote = cquote
  cbackslash = cbackslash
  NoRecord = NoRecord
  Chars <- MCChars
  Dollar = cdollar
  Quote = cquote
  Backslash = cbackslash
  MaxLen = 3
SPECIFICATION Spec
INVARIANT RecordedCommandIsStable
