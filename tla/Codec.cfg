SPECIFICATION CodecSpec
CONSTANTS
  ByteRange = 8
  MaxSnapshotLevels = 2
  Bodies <- MCBodies
  Stamps <- MCStamps
  Rooms <- MCRooms
INVARIANTS RoundTrip InBounds DamageConfined
\* One message is sent.
CHECK_DEADLOCK FALSE
