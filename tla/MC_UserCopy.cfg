\* Two-byte pages, two virtual pages and three frames, so one frame is
\* always the kernel's; a three-byte buffer can cross a page boundary and
\* wrap past the top of the address space.
CONSTANTS
  PageBytes = 2
  VPages = 2
  Frames = 3
  Bytes = {0, 1}
  MaxLen = 3
  WriteMax = 2
INIT Init
NEXT Next
INVARIANT UserCopyTypeOK
PROPERTY WritesOnlyUserBuffer
PROPERTY WriteEchoesPrefix
