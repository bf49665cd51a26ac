\* argv read back as main() sees it, for every argument vector of up to
\* two strings: violated when argc is even.
CONSTANTS
  Lengths <- MCLengths
  MaxArgs = 2

SPECIFICATION Spec

INVARIANT ArgsMarshalled
