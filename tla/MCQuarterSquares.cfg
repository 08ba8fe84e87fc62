\* Bytes of 16 values; the table is built, given away and rebuilt.
SPECIFICATION Spec
CONSTANTS
  Radix = 16
  Trash = {0, 15}
INVARIANTS TableExact ProductExact
